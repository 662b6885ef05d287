-------------------- MODULE LocketWireProofs --------------------
(***************************************************************************)
(* What LocketWire's encoder and decoder do with every value and every     *)
(* buffer (models/locket.pb.go:827-2240).                                  *)
(*                                                                         *)
(* First the writing half: a varint is written in exactly the bytes        *)
(* sovLocket counts and reads back as itself, and so Size is exact for     *)
(* each message Marshal writes.  Then the reading half: each turn of a     *)
(* decoding loop moves the index on or fails, so every loop terminates and *)
(* exists as a function of its state, and what it reads depends only on    *)
(* the bytes it passes, so a part decodes inside a whole as it decodes     *)
(* alone.  Last, the fields of a later locket.proto: skipLocket passes     *)
(* over exactly the bytes of one.                                          *)
(***************************************************************************)
EXTENDS LocketWire, TLAPS, WellFoundedInduction

(* Induction over the natural numbers, with a set for the property: what   *)
(* holds of n whenever it holds of all smaller numbers holds of all.       *)
LEMMA StrongInduction ==
  ASSUME NEW T, \A n \in Nat : (\A k \in 0 .. n - 1 : k \in T) => n \in T
  PROVE  \A n \in Nat : n \in T
<1> SUFFICES ASSUME Nat \ T # {} PROVE FALSE
  OBVIOUS
<1> DEFINE B == Nat \ T
           R == OpToRel(<, Nat)
<1>1. IsWellFoundedOn(R, Nat)
  BY Zenon, NatLessThanWellFounded
<1>2. PICK x \in B : \A y \in B : ~(<<y, x>> \in R)
  <2> HIDE DEF R
  <2> QED BY Zenon, <1>1, WFMin
<1>3. \A y \in B : ~(y < x)
  BY Zenon, <1>2 DEF OpToRel
<1> QED BY <1>3

(* Induction over Nat for a set: a set that holds 0 and is closed under    *)
(* successor holds every natural.  Every claim below about a loop of       *)
(* locket.pb.go is proved by naming the set of the numbers of rounds for   *)
(* which it holds.                                                         *)
LEMMA Induction ==
  ASSUME NEW T, 0 \in T, \A n \in Nat : n \in T => n + 1 \in T
  PROVE  \A n \in Nat : n \in T
<1>1. ASSUME NEW n \in Nat, \A k \in 0 .. n - 1 : k \in T PROVE n \in T
  <2>1. CASE n = 0
    BY <2>1
  <2>2. CASE n # 0
    <3>1. n - 1 \in T /\ n - 1 \in Nat
      BY <1>1, <2>2
    <3> QED BY <3>1
  <2> QED BY <2>1, <2>2
<1> QED BY <1>1, StrongInduction

(* f is what a loop over the states S returns: the state it was given if   *)
(* that is Done, and else what it returns for the next.                    *)
IsLoop(f, S, Done, step) ==
  \A s \in S : f[s] = IF s \in Done THEN s ELSE f[step[s]]

(* A loop that comes nearer to its end with every turn has a result for    *)
(* every state.                                                            *)
LEMMA LoopExists ==
  ASSUME NEW S, NEW Done, NEW step \in [S \ Done -> S],
         NEW N \in Nat, NEW rank \in [S -> 0 .. N],
         \A s \in S \ Done : rank[step[s]] < rank[s]
  PROVE  \E f \in [S -> S] : IsLoop(f, S, Done, step)
<1> DEFINE D(n) == {s \in S : rank[s] < n}
           Is(f, n) == /\ f \in [D(n) -> S]
                       /\ \A s \in D(n) : f[s] = IF s \in Done THEN s ELSE f[step[s]]
           T == {n \in Nat : \E f : Is(f, n)}
<1>1. 0 \in T
  <2>1. Is([s \in {} |-> s], 0)
    OBVIOUS
  <2> HIDE DEF Is
  <2> QED BY <2>1
<1>2. ASSUME NEW n \in Nat, n \in T PROVE n + 1 \in T
  <2>1. PICK f : Is(f, n)
    BY <1>2
  <2> DEFINE g == [s \in D(n + 1) |-> IF s \in Done THEN s ELSE f[step[s]]]
  <2>2. \A s \in D(n) : s \in D(n + 1) /\ g[s] = f[s]
    BY <2>1
  <2>3. \A s \in D(n + 1) \ Done : step[s] \in D(n)
    OBVIOUS
  <2>4. g \in [D(n + 1) -> S]
    BY <2>1, <2>3
  <2>5. \A s \in D(n + 1) : g[s] = IF s \in Done THEN s ELSE g[step[s]]
    BY Zenon, <2>2, <2>3
  <2> HIDE DEF g
  <2>6. Is(g, n + 1)
    BY <2>4, <2>5
  <2> HIDE DEF Is
  <2> QED BY <2>6
<1>3. \A n \in Nat : n \in T
  <2> HIDE DEF T
  <2> QED BY <1>1, <1>2, Induction
<1>4. PICK f : Is(f, N + 1)
  <2> HIDE DEF Is
  <2> QED BY <1>3
<1>5. D(N + 1) = S
  OBVIOUS
<1> HIDE DEF D
<1>6. f \in [S -> S] /\ IsLoop(f, S, Done, step)
  BY <1>4, <1>5 DEF IsLoop
<1> QED BY <1>6

-----------------------------------------------------------------------------
(* Powers of two                                                           *)

(* Pow2, a recursive function, satisfies its defining equation.            *)
LEMMA Pow2Equation == Pow2 = [n \in 0 .. WordBits |-> IF n = 0 THEN 1 ELSE 2 * Pow2[n - 1]]
<1> DEFINE Is(f, n) == f = [k \in 0 .. n |-> IF k = 0 THEN 1 ELSE 2 * f[k - 1]]
           T == {n \in Nat : \E f : Is(f, n)}
<1>1. 0 \in T
  <2>1. Is([k \in 0 .. 0 |-> 1], 0)
    OBVIOUS
  <2> HIDE DEF Is
  <2> QED BY <2>1
<1>2. ASSUME NEW n \in Nat, n \in T PROVE n + 1 \in T
  <2>1. PICK f : Is(f, n)
    BY <1>2
  <2> DEFINE g == [k \in 0 .. n + 1 |-> IF k = n + 1 THEN 2 * f[n] ELSE f[k]]
  <2>2. Is(g, n + 1)
    BY <2>1
  <2> HIDE DEF Is, g
  <2> QED BY <2>2
<1>3. \A n \in Nat : n \in T
  <2> HIDE DEF T
  <2> QED BY <1>1, <1>2, Induction
<1>4. PICK f : Is(f, WordBits)
  <2> HIDE DEF Is
  <2> QED BY <1>3, WidthAssumption
<1> QED BY Zenon, <1>4 DEF Pow2

(* Powers of two are positive and double with each bit.                    *)
LEMMA Pow2Facts ==
  /\ Pow2 \in [0 .. WordBits -> Nat \ {0}]
  /\ Pow2[0] = 1
  /\ \A n \in Nat : n < WordBits => Pow2[n + 1] = 2 * Pow2[n]
<1> USE WidthAssumption
<1>1. \A n \in 0 .. WordBits : Pow2[n] = IF n = 0 THEN 1 ELSE 2 * Pow2[n - 1]
  BY Pow2Equation
<1> DEFINE T == {n \in Nat : n <= WordBits => Pow2[n] \in Nat \ {0}}
<1>2. 0 \in T
  BY <1>1
<1>3. ASSUME NEW n \in Nat, n \in T PROVE n + 1 \in T
  <2>1. n + 1 <= WordBits => Pow2[n + 1] = 2 * Pow2[n]
    BY <1>1
  <2> QED BY <1>3, <2>1
<1>4. \A n \in Nat : n \in T
  <2> HIDE DEF T
  <2> QED BY <1>2, <1>3, Induction
<1>5. Pow2 \in [0 .. WordBits -> Nat \ {0}]
  BY <1>4, Pow2Equation
<1> QED BY <1>1, <1>5

(* Seven bits are one base-128 group: seven doublings multiply by 128.     *)
LEMMA Pow2Seven ==
  ASSUME NEW n \in Nat, n + 7 <= WordBits
  PROVE  Pow2[n + 7] = 128 * Pow2[n]
<1>1. \A k \in 0 .. 6 : Pow2[n + k] \in Nat /\ Pow2[(n + k) + 1] = 2 * Pow2[n + k]
  BY Pow2Facts, WidthAssumption
<1>2. \A k \in 0 .. 6 : Pow2[n + (k + 1)] = 2 * Pow2[n + k]
  BY <1>1
<1>3. Pow2[n + 0] = Pow2[n]
  OBVIOUS
<1>4. /\ Pow2[n + 1] = 2 * Pow2[n + 0] /\ Pow2[n + 2] = 2 * Pow2[n + 1]
      /\ Pow2[n + 3] = 2 * Pow2[n + 2] /\ Pow2[n + 4] = 2 * Pow2[n + 3]
  BY <1>2
<1>5. /\ Pow2[n + 5] = 2 * Pow2[n + 4] /\ Pow2[n + 6] = 2 * Pow2[n + 5]
      /\ Pow2[n + 7] = 2 * Pow2[n + 6]
  BY <1>2
<1> QED BY <1>1, <1>3, <1>4, <1>5

(* The int32 range divides the uint64 range, so truncating a decoded       *)
(* varint to an enum is reduction of a reduction (locket.pb.go:1488).      *)
LEMMA EnumDividesWord == \E c \in Nat \ {0} : Words = c * Pow2[EnumBits]
<1> USE WidthAssumption
<1> DEFINE m == Pow2[EnumBits]
           T == {n \in Nat : EnumBits + n <= WordBits => \E c \in Nat \ {0} : Pow2[EnumBits + n] = c * m}
<1>0. m \in Nat
  BY Pow2Facts
<1>1. 0 \in T
  <2>1. Pow2[EnumBits + 0] = 1 * m
    BY <1>0
  <2> QED BY <2>1
<1>2. ASSUME NEW n \in Nat, n \in T PROVE n + 1 \in T
  <2> SUFFICES ASSUME EnumBits + (n + 1) <= WordBits
               PROVE  \E c \in Nat \ {0} : Pow2[EnumBits + (n + 1)] = c * m
    OBVIOUS
  <2>1. PICK c \in Nat \ {0} : Pow2[EnumBits + n] = c * m
    BY <1>2
  <2>2. Pow2[(EnumBits + n) + 1] = 2 * Pow2[EnumBits + n]
    BY Pow2Facts
  <2> HIDE DEF m
  <2>3. Pow2[EnumBits + (n + 1)] = (2 * c) * m
    BY <1>0, <2>1, <2>2
  <2> QED BY <2>3
<1>3. \A n \in Nat : n \in T
  <2> HIDE DEF T
  <2> QED BY <1>1, <1>2, Induction
<1>4. WordBits - EnumBits \in T /\ EnumBits + (WordBits - EnumBits) = WordBits
  BY <1>3
<1> QED BY <1>4 DEF Words

(* Reduction modulo a positive number.                                     *)
LEMMA Modulo ==
  ASSUME NEW m \in Nat \ {0}
  PROVE  /\ \A x \in Int : x % m \in 0 .. m - 1
         /\ \A x \in 0 .. m - 1 : x % m = x
         /\ \A x \in -m .. -1 : x % m = x + m
         /\ \A x \in 0 .. m - 1, k \in Nat : (x + k * m) % m = x
OBVIOUS

(* The number of uint64 values is a positive natural.                      *)
LEMMA WordsType == Words \in Nat \ {0} /\ 0 .. Words - 1 \subseteq Nat /\ Words >= 2
<1>1. WordBits - 1 \in Nat
  BY WidthAssumption
<1>2. Pow2[(WordBits - 1) + 1] = 2 * Pow2[WordBits - 1] /\ Pow2[WordBits - 1] \in Nat \ {0}
  BY <1>1, Pow2Facts, WidthAssumption
<1> QED BY <1>1, <1>2, Pow2Facts, WidthAssumption DEF Words

(* A word is its own remainder.                                            *)
LEMMA Fits == \A v \in 0 .. Words - 1 : Uint(v) = v
<1> DEFINE w == Words
<1>1. w \in Nat \ {0}
  BY WordsType
<1> HIDE DEF w
<1>2. \A v \in 0 .. w - 1 : v % w = v
  BY SMTT(30), <1>1, Modulo
<1> QED BY <1>2 DEF Uint, w

-----------------------------------------------------------------------------
(* Varints                                                                 *)

(* The loop of encodeVarintLocket (locket.pb.go:1100) exists as a          *)
(* function: each round divides the value by 128, so the recursion is well *)
(* founded.                                                                *)
LEMMA EncodeVarintEquation ==
  EncodeVarint = [v \in 0 .. Words - 1 |->
    IF v >= 128 THEN <<128 + (v % 128)>> \o EncodeVarint[v \div 128] ELSE <<v>>]
<1> DEFINE Body(f, v) == IF v >= 128 THEN <<128 + (v % 128)>> \o f[v \div 128] ELSE <<v>>
           Is(f, n) == f = [v \in 0 .. n |-> Body(f, v)]
           T == {n \in Nat : \E f : Is(f, n)}
<1>1. 0 \in T
  <2>1. Is([v \in 0 .. 0 |-> <<0>>], 0)
    OBVIOUS
  <2> HIDE DEF Is
  <2> QED BY <2>1
<1>2. ASSUME NEW n \in Nat, n \in T PROVE n + 1 \in T
  <2>1. PICK f : Is(f, n)
    BY Zenon, <1>2
  <2> DEFINE g == [v \in 0 .. n + 1 |-> IF v = n + 1 THEN Body(f, n + 1) ELSE f[v]]
  <2>2. \A v \in 0 .. n + 1 : v >= 128 => v \div 128 \in 0 .. n
    OBVIOUS
  <2>3. \A v \in 0 .. n : g[v] = f[v] /\ f[v] = Body(f, v)
    <3> HIDE DEF Body
    <3>1. \A v \in 0 .. n : f[v] = Body(f, v)
      BY <2>1
    <3>2. \A v \in 0 .. n : g[v] = f[v]
      OBVIOUS
    <3> QED BY <3>1, <3>2
  <2>4. \A v \in 0 .. n + 1 : Body(g, v) = Body(f, v)
    <3> HIDE DEF g
    <3> QED BY Zenon, <2>2, <2>3
  <2>5. \A v \in 0 .. n + 1 : g[v] = Body(g, v)
    <3> HIDE DEF Body
    <3>1. g[n + 1] = Body(f, n + 1)
      OBVIOUS
    <3> HIDE DEF g
    <3>2. \A v \in 0 .. n + 1 : v = n + 1 \/ v \in 0 .. n
      OBVIOUS
    <3> QED BY <2>3, <2>4, <3>1, <3>2
  <2>6. Is(g, n + 1)
    <3> HIDE DEF Body
    <3> QED BY <2>5
  <2> HIDE DEF Is, g
  <2> QED BY <2>6
<1>3. \A n \in Nat : n \in T
  <2> HIDE DEF T
  <2> QED BY <1>1, <1>2, Induction
<1>4. PICK f : Is(f, Words - 1)
  <2> HIDE DEF Is
  <2> QED BY <1>3, WordsType
<1> QED BY Zenon, <1>4 DEF EncodeVarint

(* The loop of sovLocket (locket.pb.go:1214) exists as a function, for the *)
(* same reason.                                                            *)
LEMMA SovEquation ==
  Sov = [x \in 0 .. Words - 1 |-> IF x \div 128 = 0 THEN 1 ELSE 1 + Sov[x \div 128]]
<1> DEFINE Body(f, x) == IF x \div 128 = 0 THEN 1 ELSE 1 + f[x \div 128]
           Is(f, n) == f = [x \in 0 .. n |-> Body(f, x)]
           T == {n \in Nat : \E f : Is(f, n)}
<1>1. 0 \in T
  <2>1. Is([x \in 0 .. 0 |-> 1], 0)
    OBVIOUS
  <2> HIDE DEF Is
  <2> QED BY <2>1
<1>2. ASSUME NEW n \in Nat, n \in T PROVE n + 1 \in T
  <2>1. PICK f : Is(f, n)
    BY <1>2
  <2> DEFINE g == [x \in 0 .. n + 1 |-> IF x = n + 1 THEN Body(f, n + 1) ELSE f[x]]
  <2>2. \A x \in 0 .. n + 1 : x \div 128 # 0 => x \div 128 \in 0 .. n
    OBVIOUS
  <2>3. \A x \in 0 .. n : g[x] = f[x] /\ f[x] = Body(f, x)
    <3> HIDE DEF Body
    <3>1. \A x \in 0 .. n : f[x] = Body(f, x)
      BY <2>1
    <3>2. \A x \in 0 .. n : g[x] = f[x]
      OBVIOUS
    <3> QED BY <3>1, <3>2
  <2>4. \A x \in 0 .. n + 1 : Body(g, x) = Body(f, x)
    <3> HIDE DEF g
    <3> QED BY <2>2, <2>3
  <2>5. \A x \in 0 .. n + 1 : g[x] = Body(g, x)
    <3> HIDE DEF Body
    <3>1. g[n + 1] = Body(f, n + 1)
      OBVIOUS
    <3> HIDE DEF g
    <3>2. \A x \in 0 .. n + 1 : x = n + 1 \/ x \in 0 .. n
      OBVIOUS
    <3> QED BY <2>3, <2>4, <3>1, <3>2
  <2>6. Is(g, n + 1)
    <3> HIDE DEF Body
    <3> QED BY <2>5
  <2> HIDE DEF Is, g
  <2> QED BY <2>6
<1>3. \A n \in Nat : n \in T
  <2> HIDE DEF T
  <2> QED BY <1>1, <1>2, Induction
<1>4. PICK f : Is(f, Words - 1)
  <2> HIDE DEF Is
  <2> QED BY <1>3, WordsType
<1> QED BY Zenon, <1>4 DEF Sov

(* What a concatenation of byte strings holds.                             *)
LEMMA Join ==
  ASSUME NEW s \in Seq(Nat), NEW t \in Seq(Nat)
  PROVE  /\ s \o t \in Seq(Nat) /\ Len(s \o t) = Len(s) + Len(t)
         /\ \A i \in 1 .. Len(s) : (s \o t)[i] = s[i]
         /\ \A i \in 1 .. Len(t) : (s \o t)[Len(s) + i] = t[i]
OBVIOUS

(* A string of one byte.                                                   *)
LEMMA Single ==
  ASSUME NEW n \in Nat
  PROVE  <<n>> \in Seq(Nat) /\ Len(<<n>>) = 1 /\ <<n>>[1] = n
OBVIOUS

(* A varint has as many bytes as sovLocket says, and every byte but the    *)
(* last has its high bit set.                                              *)
LEMMA VarintShape ==
  ASSUME NEW v \in 0 .. Words - 1
  PROVE  /\ EncodeVarint[v] \in Seq(Nat) /\ Len(EncodeVarint[v]) = Sov[v] /\ Sov[v] \in Nat \ {0}
         /\ \A i \in 1 .. Sov[v] : EncodeVarint[v][i] < 128 <=> i = Sov[v]
<1> DEFINE P(x) == /\ EncodeVarint[x] \in Seq(Nat) /\ Len(EncodeVarint[x]) = Sov[x] /\ Sov[x] \in Nat \ {0}
                   /\ \A i \in 1 .. Sov[x] : EncodeVarint[x][i] < 128 <=> i = Sov[x]
           T == {x \in Nat : x < Words => P(x)}
<1>1. ASSUME NEW n \in Nat, \A k \in 0 .. n - 1 : k \in T PROVE n \in T
  <2> SUFFICES ASSUME n < Words PROVE P(n)
    OBVIOUS
  <2>0. n \in 0 .. Words - 1
    BY WordsType
  <2>1. CASE n < 128
    <3>1. n \div 128 = 0
      BY <2>1
    <3>2. EncodeVarint[n] = <<n>> /\ Sov[n] = 1
      BY <2>0, <2>1, <3>1, EncodeVarintEquation, SovEquation
    <3> QED BY <2>1, <3>2
  <2>2. CASE n >= 128
    <3> DEFINE d == n \div 128
               b == 128 + (n % 128)
    <3>1. d \in 0 .. n - 1 /\ d # 0 /\ b \in Nat /\ b >= 128 /\ d < Words
      BY <2>0, <2>2, WordsType
    <3>2. P(d)
      BY <1>1, <3>1
    <3>3. EncodeVarint[n] = <<b>> \o EncodeVarint[d] /\ Sov[n] = 1 + Sov[d]
      BY Zenon, <2>0, <2>2, <3>1, EncodeVarintEquation, SovEquation
    <3> DEFINE e == EncodeVarint[d]
    <3> HIDE DEF d, b, e
    <3>4. e \in Seq(Nat) /\ Len(e) = Sov[d] /\ Sov[d] \in Nat \ {0}
      BY <3>2 DEF e
    <3>5. \A i \in 1 .. Sov[d] : e[i] < 128 <=> i = Sov[d]
      BY <3>2 DEF e
    <3>6. EncodeVarint[n] = <<b>> \o e
      BY <3>3 DEF e
    <3>7. EncodeVarint[n] \in Seq(Nat) /\ Len(EncodeVarint[n]) = Sov[n] /\ Sov[n] \in Nat \ {0}
      <4>1. <<b>> \in Seq(Nat) /\ Len(<<b>>) = 1
        BY <3>1
      <4>2. (<<b>> \o e) \in Seq(Nat) /\ Len(<<b>> \o e) = 1 + Len(e)
        BY <3>4, <4>1, Join
      <4>3. EncodeVarint[n] \in Seq(Nat) /\ Len(EncodeVarint[n]) = 1 + Len(e)
        BY <3>6, <4>2, Zenon
      <4> QED BY <3>3, <3>4, <4>3
    <3>8. EncodeVarint[n][1] = b /\ \A i \in 1 .. Sov[d] : EncodeVarint[n][1 + i] = e[i]
      BY <3>1, <3>4, <3>6, Join, Single
    <3>9. ASSUME NEW i \in 1 .. Sov[n] PROVE EncodeVarint[n][i] < 128 <=> i = Sov[n]
      <4>1. CASE i = 1
        BY <4>1, <3>1, <3>3, <3>4, <3>8
      <4>2. CASE i # 1
        <5>0. i - 1 \in 1 .. Sov[d] /\ 1 + (i - 1) = i
          BY <4>2, <3>3, <3>4
        <5>1. i - 1 \in 1 .. Sov[d] /\ EncodeVarint[n][i] = e[i - 1]
          BY <5>0, <3>8
        <5> QED BY <5>1, <3>5, <3>3, <3>4
      <4> QED BY <4>1, <4>2
    <3> QED BY <3>7, <3>9
  <2> QED BY <2>1, <2>2
<1>2. \A n \in Nat : n \in T
  <2> HIDE DEF T
  <2> QED BY <1>1, StrongInduction
<1> QED BY <1>2, WordsType

(* A varint of a word ends within the bytes that Unmarshal reads for it.   *)
LEMMA SovBound ==
  ASSUME NEW v \in 0 .. Words - 1
  PROVE  Sov[v] <= WordBits \div 7 + 1
<1> DEFINE q == WordBits \div 7
           T == {k \in Nat : k <= q => \A x \in 0 .. Words - 1 : x < Pow2[7 * k + 1] => Sov[x] <= k + 1}
<1>0. q \in Nat /\ WordBits = 7 * q + 1
  BY WidthAssumption
<1> HIDE DEF q
<1>1. 0 \in T
  <2>1. Pow2[1] = 2
    BY Pow2Facts, <1>0
  <2>2. \A x \in 0 .. Words - 1 : x < 2 => Sov[x] = 1
    BY SovEquation, WordsType
  <2> QED BY <2>1, <2>2
<1>2. ASSUME NEW k \in Nat, k \in T PROVE k + 1 \in T
  <2> SUFFICES ASSUME k + 1 <= q, NEW x \in 0 .. Words - 1, x < Pow2[7 * (k + 1) + 1]
               PROVE  Sov[x] <= k + 2
    OBVIOUS
  <2>1. Pow2[7 * (k + 1) + 1] = 128 * Pow2[7 * k + 1] /\ Pow2[7 * k + 1] \in Nat
    <3>1. 7 * k + 1 \in Nat /\ (7 * k + 1) + 7 <= WordBits /\ (7 * k + 1) + 7 = 7 * (k + 1) + 1
      BY <1>0
    <3>2. Pow2[7 * k + 1] \in Nat
      <4>1. 7 * k + 1 \in 0 .. WordBits
        BY <3>1, WidthAssumption
      <4> QED BY <4>1, Pow2Facts
    <3>3. Pow2[(7 * k + 1) + 7] = 128 * Pow2[7 * k + 1]
      BY <3>1, Pow2Seven
    <3> QED BY <3>1, <3>2, <3>3
  <2>2. CASE x \div 128 = 0
    <3>1. Sov[x] = 1
      BY <2>2, SovEquation
    <3> QED BY <3>1
  <2>3. CASE x \div 128 # 0
    <3> DEFINE d == x \div 128
               p == Pow2[7 * k + 1]
    <3>1. Sov[x] = 1 + Sov[d]
      BY Zenon, <2>3, SovEquation
    <3>2. d \in 0 .. Words - 1 /\ d < p
      BY <2>1, WordsType
    <3>3. Sov[d] \in Nat
      BY <3>2, VarintShape
    <3> HIDE DEF d, p
    <3>4. Sov[d] <= k + 1
      BY <3>2, <1>2, <1>0 DEF p
    <3> QED BY <3>1, <3>3, <3>4
  <2> QED BY <2>2, <2>3
<1>3. \A k \in Nat : k \in T
  <2> HIDE DEF T
  <2> QED BY <1>1, <1>2, Induction
<1>4. q \in T /\ v < Pow2[7 * q + 1]
  BY <1>0, <1>3, WordsType DEF Words
<1> QED BY <1>0, <1>4 DEF q

-----------------------------------------------------------------------------
(* Reading varints                                                         *)

(* The bytes s stand in bs from index i on.                                *)
At(bs, i, s) ==
  /\ i + Len(s) - 1 <= Len(bs)
  /\ \A k \in 1 .. Len(s) : bs[i + k - 1] = s[k]

(* The accumulation of a varint's groups from its last byte back exists as *)
(* a function.                                                             *)
LEMMA GroupsEquation ==
  ASSUME NEW bs, NEW e \in Nat
  PROVE  Groups(bs, e) = [n \in 0 .. e |->
           IF n = 0 THEN 0 ELSE (bs[e + 1 - n] % 128) + 128 * Groups(bs, e)[n - 1]]
<1> DEFINE low(k) == bs[e + 1 - k] % 128
           Is(f, n) == f = [k \in 0 .. n |-> IF k = 0 THEN 0 ELSE low(k) + 128 * f[k - 1]]
           T == {n \in Nat : \E f : Is(f, n)}
<1>1. 0 \in T
  <2>1. Is([k \in 0 .. 0 |-> 0], 0)
    OBVIOUS
  <2> HIDE DEF Is
  <2> QED BY <2>1
<1>2. ASSUME NEW n \in Nat, n \in T PROVE n + 1 \in T
  <2>1. PICK f : Is(f, n)
    BY <1>2
  <2> DEFINE g == [k \in 0 .. n + 1 |-> IF k = n + 1 THEN low(n + 1) + 128 * f[n] ELSE f[k]]
  <2>2. Is(g, n + 1)
    <3> HIDE DEF low
    <3> QED BY <2>1
  <2> HIDE DEF Is, g
  <2> QED BY <2>2
<1>3. \A n \in Nat : n \in T
  <2> HIDE DEF T
  <2> QED BY <1>1, <1>2, Induction
<1>4. PICK f : Is(f, e)
  <2> HIDE DEF Is
  <2> QED BY <1>3
<1> QED BY Zenon, <1>4 DEF Groups

(* One round of that accumulation.                                         *)
LEMMA GroupsStep ==
  ASSUME NEW bs, NEW e \in Nat, NEW n \in 0 .. e
  PROVE  Groups(bs, e)[n] = IF n = 0 THEN 0 ELSE (bs[e + 1 - n] % 128) + 128 * Groups(bs, e)[n - 1]
<1> DEFINE low(k) == bs[e + 1 - k] % 128
           G == Groups(bs, e)
<1>1. G = [k \in 0 .. e |-> IF k = 0 THEN 0 ELSE low(k) + 128 * G[k - 1]]
  BY GroupsEquation
<1> HIDE DEF low, G
<1>2. G[n] = IF n = 0 THEN 0 ELSE low(n) + 128 * G[n - 1]
  BY <1>1
<1> QED BY <1>2 DEF low, G

(* What a varint stands for is a number.                                   *)
LEMMA GroupsType ==
  ASSUME NEW bs \in Seq(Nat), NEW e \in 0 .. Len(bs)
  PROVE  \A n \in 0 .. e : Groups(bs, e)[n] \in Nat
<1> DEFINE G == Groups(bs, e)
           T == {n \in Nat : n <= e => G[n] \in Nat}
<1>1. \A n \in 0 .. e : G[n] = IF n = 0 THEN 0 ELSE (bs[e + 1 - n] % 128) + 128 * G[n - 1]
  BY GroupsEquation
<1> HIDE DEF G
<1>2. 0 \in T
  BY <1>1
<1>3. ASSUME NEW n \in Nat, n \in T PROVE n + 1 \in T
  <2> SUFFICES ASSUME n + 1 <= e PROVE G[n + 1] \in Nat
    OBVIOUS
  <2>1. bs[e + 1 - (n + 1)] \in Nat
    OBVIOUS
  <2>2. bs[e + 1 - (n + 1)] % 128 \in Nat
    BY <2>1
  <2>3. G[n + 1] = (bs[e + 1 - (n + 1)] % 128) + 128 * G[n] /\ G[n] \in Nat
    BY <1>1, <1>3
  <2> QED BY SMTT(30), <2>2, <2>3
<1>4. \A n \in Nat : n \in T
  <2> HIDE DEF T
  <2> QED BY <1>2, <1>3, Induction
<1> QED BY <1>4 DEF G

(* Bytes stand for the same number wherever they are.                      *)
LEMMA GroupsAt ==
  ASSUME NEW bs \in Seq(Nat), NEW x \in Seq(Nat), NEW i \in Nat \ {0}, At(bs, i, x),
         NEW e \in 1 .. Len(x)
  PROVE  \A n \in 0 .. e : Groups(bs, i + e - 1)[n] = Groups(x, e)[n]
<1> DEFINE b == i + e - 1
           F == Groups(bs, b)
           G == Groups(x, e)
           T == {n \in Nat : n <= e => F[n] = G[n]}
<1>0. b \in Nat /\ e <= b /\ e \in Nat
  OBVIOUS
<1>1. \A n \in 0 .. e : G[n] = IF n = 0 THEN 0 ELSE (x[e + 1 - n] % 128) + 128 * G[n - 1]
  BY <1>0, GroupsEquation
<1>2. \A n \in 0 .. b : F[n] = IF n = 0 THEN 0 ELSE (bs[b + 1 - n] % 128) + 128 * F[n - 1]
  <2> HIDE DEF b
  <2> QED BY <1>0, GroupsEquation
<1>3. \A n \in 1 .. e : bs[b + 1 - n] = x[e + 1 - n]
  <2> SUFFICES ASSUME NEW n \in 1 .. e PROVE bs[b + 1 - n] = x[e + 1 - n]
    OBVIOUS
  <2>1. e + 1 - n \in 1 .. Len(x) /\ i + (e + 1 - n) - 1 = b + 1 - n
    OBVIOUS
  <2> HIDE DEF b
  <2> QED BY Zenon, <2>1 DEF At
<1> HIDE DEF b, F, G
<1>4. 0 \in T
  BY <1>0, <1>1, <1>2
<1>5. ASSUME NEW n \in Nat, n \in T PROVE n + 1 \in T
  <2> SUFFICES ASSUME n + 1 <= e PROVE F[n + 1] = G[n + 1]
    OBVIOUS
  <2>1. G[n + 1] = (x[e + 1 - (n + 1)] % 128) + 128 * G[n]
    BY <1>1
  <2>2. F[n + 1] = (bs[b + 1 - (n + 1)] % 128) + 128 * F[n]
    BY <1>0, <1>2
  <2>3. bs[b + 1 - (n + 1)] = x[e + 1 - (n + 1)]
    <3>1. n + 1 \in 1 .. e
      BY <1>0
    <3> QED BY Zenon, <3>1, <1>3
  <2>4. F[n] = G[n]
    BY <1>0, <1>5
  <2> QED BY <2>1, <2>2, <2>3, <2>4
<1>6. \A n \in Nat : n \in T
  <2> HIDE DEF T
  <2> QED BY Zenon, <1>4, <1>5, Induction
<1> QED BY <1>6 DEF F, G, b

(* The least of some numbers.                                              *)
LEMMA MinFacts ==
  ASSUME NEW S \in SUBSET Nat, S # {}
  PROVE  Min(S) \in S /\ \A y \in S : Min(S) <= y
<1> DEFINE R == OpToRel(<, Nat)
<1>1. IsWellFoundedOn(R, Nat)
  BY Zenon, NatLessThanWellFounded
<1>2. PICK x \in S : \A y \in S : ~(<<y, x>> \in R)
  <2> HIDE DEF R
  <2> QED BY Zenon, <1>1, WFMin
<1>3. \A y \in S : y \in Nat /\ x \in Nat /\ ~(y < x)
  <2>1. \A y \in S : y \in Nat /\ x \in Nat
    OBVIOUS
  <2> QED BY <2>1, <1>2, Zenon DEF OpToRel
<1>4. \A y \in S : x <= y
  BY <1>3
<1> QED BY Zenon, <1>4 DEF Min

(* Whether d is a read of one of the values V that ends at one of the      *)
(* indexes N, if it does not fail.                                         *)
IsRead(d, V, N) == d = Failed \/ \E v \in V, n \in N : d = Read(v, n)

(* A varint is a word, and takes at least one byte.                        *)
LEMMA DecodeVarintType ==
  ASSUME NEW bs \in Seq(Nat), NEW i \in Nat \ {0}
  PROVE  IsRead(DecodeVarint(bs, i), 0 .. Words - 1, i + 1 .. Len(bs) + 1)
<1> DEFINE ends == Ends(bs, i)
           e == Min(ends)
<1>1. CASE ends = {}
  BY <1>1 DEF IsRead, DecodeVarint, ReadFirst
<1>2. CASE ends # {}
  <2>1. ends \subseteq i .. Len(bs) /\ ends \subseteq Nat
    BY WidthAssumption DEF Ends
  <2>2. e \in i .. Len(bs)
    <3>1. e \in ends
      BY <1>2, <2>1, MinFacts
    <3> QED BY <2>1, <3>1
  <2>3. DecodeVarint(bs, i) = Read(Uint(Groups(bs, e)[e + 1 - i]), e + 1)
    BY <1>2 DEF DecodeVarint, ReadFirst, ReadGroups
  <2> HIDE DEF e
  <2>4. Groups(bs, e)[e + 1 - i] \in Nat
    <3>1. e \in 0 .. Len(bs) /\ e + 1 - i \in 0 .. e
      BY <2>2
    <3> QED BY <3>1, GroupsType
  <2>5. Uint(Groups(bs, e)[e + 1 - i]) \in 0 .. Words - 1
    <3> DEFINE g == Groups(bs, e)[e + 1 - i]
    <3>1. g \in Int
      BY <2>4
    <3> HIDE DEF g
    <3>2. g % Words \in 0 .. Words - 1
      BY <3>1, WordsType
    <3> QED BY <3>2 DEF Uint, g
  <2>6. e + 1 \in i + 1 .. Len(bs) + 1
    BY <2>2
  <2> QED BY <2>3, <2>5, <2>6 DEF IsRead
<1> QED BY <1>1, <1>2

(* A varint is read the same wherever its bytes are.                       *)
LEMMA DecodeVarintAt ==
  ASSUME NEW bs \in Seq(Nat), NEW x \in Seq(Nat), NEW i \in Nat \ {0}, At(bs, i, x),
         NEW j \in Nat \ {0}, NEW v, NEW n, DecodeVarint(x, j) = Read(v, n)
  PROVE  DecodeVarint(bs, i + j - 1) = Read(v, i + n - 1)
<1> DEFINE X == Ends(x, j)
           B == Ends(bs, i + j - 1)
           e == Min(X)
<1>0. X # {}
  <2> SUFFICES ASSUME X = {} PROVE FALSE
    OBVIOUS
  <2>1. DecodeVarint(x, j) = Failed
    BY DEF DecodeVarint, ReadFirst
  <2> QED BY <2>1 DEF Failed, Read
<1>1. /\ X \subseteq Nat /\ X \subseteq j .. Len(x)
      /\ B \subseteq Nat /\ B \subseteq i + j - 1 .. Len(bs)
  BY WidthAssumption DEF Ends
<1>2. e \in X /\ \A y \in X : e <= y
  BY SMTT(30), <1>0, <1>1, MinFacts
<1>3. e \in j .. Len(x) /\ e <= j + WordBits \div 7 /\ x[e] < 128 /\ e \in Nat
  BY <1>1, <1>2, WidthAssumption DEF Ends
<1> HIDE DEF e
<1>4. \A k \in j .. Len(x) : bs[i + k - 1] = x[k] /\ i + k - 1 <= Len(bs)
  BY DEF At
<1>5. i + e - 1 \in B
  <2>1. i + e - 1 \in (i + j - 1) .. (i + j - 1) + (WordBits \div 7)
    BY <1>3, WidthAssumption
  <2> QED BY SMTT(30), <1>3, <1>4, <2>1 DEF Ends
<1>6. \A y \in B : i + e - 1 <= y
  <2> SUFFICES ASSUME NEW y \in B, y < i + e - 1 PROVE FALSE
    BY <1>1, <1>3
  <2> DEFINE k == y - i + 1
  <2>1. k \in j .. Len(x) /\ i + k - 1 = y /\ k < e /\ k <= j + WordBits \div 7
    <3>1. y \in Nat /\ y >= i + j - 1 /\ WordBits \div 7 \in Nat
      BY <1>1, WidthAssumption
    <3> QED BY <1>3, <3>1
  <2>2. x[k] < 128
    BY Zenon, <1>4, <2>1 DEF Ends
  <2>3. k \in X
    BY <2>1, <2>2, WidthAssumption DEF Ends
  <2> QED BY <1>2, <1>3, <2>1, <2>3
<1>7. Min(B) = i + e - 1
  <2>1. Min(B) \in B /\ \A y \in B : Min(B) <= y
    BY Zenon, <1>1, <1>5, MinFacts
  <2> QED BY <1>1, <1>5, <1>6, <2>1
<1>8. DecodeVarint(bs, i + j - 1) = Read(Uint(Groups(bs, i + e - 1)[e + 1 - j]), i + e)
  <2>1. (i + e - 1) + 1 - (i + j - 1) = e + 1 - j /\ (i + e - 1) + 1 = i + e
    BY <1>3
  <2> QED BY <1>5, <1>7, <2>1 DEF DecodeVarint, ReadFirst, ReadGroups
<1>9. Read(v, n) = Read(Uint(Groups(x, e)[e + 1 - j]), e + 1)
  BY <1>0 DEF DecodeVarint, ReadFirst, ReadGroups, e
<1>10. Groups(bs, i + e - 1)[e + 1 - j] = Groups(x, e)[e + 1 - j]
  <2>1. e \in 1 .. Len(x) /\ e + 1 - j \in 0 .. e
    BY <1>3
  <2> QED BY <2>1, GroupsAt
<1>11. v = Uint(Groups(x, e)[e + 1 - j]) /\ n = e + 1
  BY <1>9 DEF Read
<1>12. i + n - 1 = i + e
  BY <1>3, <1>11
<1> QED BY <1>8, <1>10, <1>11, <1>12

(* The parts of a string that stands in bs stand there one after another.  *)
LEMMA AtJoin ==
  ASSUME NEW bs, NEW i \in Nat \ {0}, NEW s \in Seq(Nat), NEW t \in Seq(Nat), Len(bs) \in Nat,
         At(bs, i, s \o t)
  PROVE  At(bs, i, s) /\ At(bs, i + Len(s), t)
<1> DEFINE st == s \o t
<1>1. /\ Len(st) = Len(s) + Len(t)
      /\ \A k \in 1 .. Len(s) : st[k] = s[k]
      /\ \A k \in 1 .. Len(t) : st[Len(s) + k] = t[k]
  BY Join
<1>2. i + Len(st) - 1 <= Len(bs) /\ \A k \in 1 .. Len(st) : bs[i + k - 1] = st[k]
  BY DEF At
<1> HIDE DEF st
<1>0. Len(s) \in Nat /\ Len(t) \in Nat
  OBVIOUS
<1>3. At(bs, i, s)
  <2>1. \A k \in 1 .. Len(s) : bs[i + k - 1] = s[k]
    BY <1>0, <1>1, <1>2
  <2> QED BY <1>0, <1>1, <1>2, <2>1 DEF At
<1>4. At(bs, i + Len(s), t)
  <2>1. ASSUME NEW k \in 1 .. Len(t) PROVE bs[(i + Len(s)) + k - 1] = t[k]
    <3>1. Len(s) + k \in 1 .. Len(st) /\ i + (Len(s) + k) - 1 = (i + Len(s)) + k - 1
      BY <1>0, <1>1
    <3> QED BY <3>1, <1>1, <1>2
  <2> QED BY SMTT(30), <1>0, <1>1, <1>2, <2>1 DEF At
<1> QED BY <1>3, <1>4

(* A byte string is found at its own first place.                          *)
LEMMA AtWhole ==
  ASSUME NEW bs \in Seq(Nat)
  PROVE  At(bs, 1, bs)
BY DEF At

(* DecodeVarint is the inverse of encodeVarintLocket.                      *)
LEMMA DecodeEncode ==
  ASSUME NEW v \in 0 .. Words - 1
  PROVE  DecodeVarint(EncodeVarint[v], 1) = Read(v, Sov[v] + 1)
<1> DEFINE T == {n \in Nat : n < Words => Groups(EncodeVarint[n], Sov[n])[Sov[n]] = n}
<1>1. ASSUME NEW n \in Nat, \A k \in 0 .. n - 1 : k \in T PROVE n \in T
  <2> SUFFICES ASSUME n < Words PROVE Groups(EncodeVarint[n], Sov[n])[Sov[n]] = n
    OBVIOUS
  <2> DEFINE x == EncodeVarint[n]
             l == Sov[n]
  <2>0. n \in 0 .. Words - 1
    BY WordsType
  <2>1. x \in Seq(Nat) /\ Len(x) = l /\ l \in Nat \ {0}
    BY <2>0, VarintShape
  <2>2. Groups(x, l)[l] = (x[1] % 128) + 128 * Groups(x, l)[l - 1]
    <3> HIDE DEF x, l
    <3>1. l \in Nat /\ l \in 0 .. l /\ l # 0 /\ l + 1 - l = 1
      BY <2>1
    <3>2. Groups(x, l)[l] = IF l = 0 THEN 0 ELSE (x[l + 1 - l] % 128) + 128 * Groups(x, l)[l - 1]
      BY <3>1, GroupsStep
    <3> QED BY <3>1, <3>2
  <2>3. CASE n < 128
    <3>1. n \div 128 = 0
      BY <2>3
    <3>2. x = <<n>> /\ l = 1
      BY <2>0, <2>3, <3>1, EncodeVarintEquation, SovEquation
    <3>3. x[1] = n /\ n % 128 = n
      BY <2>3, <3>2
    <3> HIDE DEF x, l
    <3>4. Groups(x, l)[0] = 0
      BY <2>1, GroupsStep
    <3>5. Groups(x, l)[l - 1] = 0
      BY <3>2, <3>4
    <3> QED BY <2>2, <3>3, <3>5 DEF x, l
  <2>4. CASE n >= 128
    <3> DEFINE d == n \div 128
               b == 128 + (n % 128)
               y == EncodeVarint[d]
    <3>1. d \in 0 .. n - 1 /\ d # 0 /\ d \in 0 .. Words - 1 /\ d \in Nat
      BY <2>0, <2>4, WordsType
    <3>2. b \in Nat /\ (b % 128) + 128 * d = n
      BY <2>4
    <3>3. x = <<b>> \o y /\ l = 1 + Sov[d]
      BY Zenon, <2>0, <2>4, <3>1, EncodeVarintEquation, SovEquation
    <3>4. y \in Seq(Nat) /\ Len(y) = Sov[d] /\ Sov[d] \in Nat \ {0}
      BY <3>1, VarintShape
    <3>5. Groups(y, Sov[d])[Sov[d]] = d
      <4>1. d \in T /\ d < Words
        BY <1>1, <3>1, WordsType
      <4> QED BY <4>1
    <3> HIDE DEF x, l, y, d, b
    <3>6. At(x, 1, <<b>>) /\ At(x, 1 + Len(<<b>>), y) /\ Len(<<b>>) = 1
      <4>1. At(x, 1, <<b>> \o y)
        BY Zenon, <2>1, <3>3, AtWhole
      <4>2. <<b>> \in Seq(Nat) /\ Len(<<b>>) = 1
        BY <3>2
      <4>3. Len(x) \in Nat
        BY <2>1
      <4> DEFINE h == <<b>>
      <4> HIDE DEF h
      <4>4. At(x, 1, h \o y) /\ h \in Seq(Nat) /\ Len(h) = 1 /\ 1 \in Nat \ {0}
        BY <4>1, <4>2 DEF h
      <4>5. At(x, 1, h) /\ At(x, 1 + Len(h), y)
        BY Zenon, <4>3, <4>4, <3>4, AtJoin
      <4> QED BY <4>2, <4>5 DEF h
    <3>7. x[1] = b
      <4>1. \A k \in 1 .. 1 : x[1 + k - 1] = <<b>>[k]
        BY <3>6 DEF At
      <4> QED BY <4>1, <3>2
    <3>8. Groups(x, l)[l - 1] = Groups(y, Sov[d])[Sov[d]]
      <4>1. At(x, 2, y) /\ 2 \in Nat \ {0} /\ Sov[d] \in 1 .. Len(y) /\ Sov[d] \in 0 .. Sov[d]
        BY <3>4, <3>6
      <4>2. 2 + Sov[d] - 1 = l /\ l - 1 = Sov[d]
        BY <3>3, <3>4
      <4>3. Groups(x, 2 + Sov[d] - 1)[Sov[d]] = Groups(y, Sov[d])[Sov[d]]
        BY <2>1, <3>4, <4>1, GroupsAt
      <4> QED BY <4>2, <4>3
    <3> QED BY <2>2, <3>2, <3>5, <3>7, <3>8 DEF x, l
  <2> QED BY <2>3, <2>4
<1>2. \A n \in Nat : n \in T
  <2> HIDE DEF T
  <2> QED BY <1>1, StrongInduction
<1>3. Groups(EncodeVarint[v], Sov[v])[Sov[v]] = v
  BY <1>2, WordsType
<1> DEFINE x == EncodeVarint[v]
           l == Sov[v]
<1>4. x \in Seq(Nat) /\ Len(x) = l /\ l \in Nat \ {0} /\ \A i \in 1 .. l : x[i] < 128 <=> i = l
  BY VarintShape
<1>5. l <= WordBits \div 7 + 1
  BY SovBound
<1> HIDE DEF x, l
<1>6. Ends(x, 1) = {l}
  BY <1>4, <1>5, WidthAssumption DEF Ends
<1>7. Min({l}) = l
  <2>1. {l} \in SUBSET Nat /\ {l} # {}
    BY <1>4
  <2>2. Min({l}) \in {l}
    BY <2>1, MinFacts
  <2> QED BY <2>2
<1>8. DecodeVarint(x, 1) = Read(Uint(Groups(x, l)[l + 1 - 1]), l + 1)
  BY <1>6, <1>7 DEF DecodeVarint, ReadFirst, ReadGroups
<1>9. Uint(v) = v
  BY Fits
<1>10. l + 1 - 1 = l
  BY <1>4
<1> QED BY <1>3, <1>8, <1>9, <1>10 DEF x, l

(* A number is read where it was written.                                  *)
LEMMA VarintAt ==
  ASSUME NEW bs \in Seq(Nat), NEW i \in Nat \ {0}, NEW v \in 0 .. Words - 1,
         At(bs, i, EncodeVarint[v])
  PROVE  DecodeVarint(bs, i) = Read(v, i + Sov[v])
<1>1. EncodeVarint[v] \in Seq(Nat) /\ Sov[v] \in Nat
  BY VarintShape
<1>2. DecodeVarint(bs, i + 1 - 1) = Read(v, i + (Sov[v] + 1) - 1)
  BY <1>1, DecodeEncode, DecodeVarintAt
<1>3. i + 1 - 1 = i /\ i + (Sov[v] + 1) - 1 = i + Sov[v]
  BY <1>1
<1> QED BY <1>2, <1>3

-----------------------------------------------------------------------------
(* Widths                                                                  *)

(* 2^n exceeds n: a word of WordBits bits can hold the number of any of    *)
(* its bits.                                                               *)
LEMMA Pow2Grows == \A n \in 0 .. WordBits : Pow2[n] >= n + 1
<1> DEFINE T == {n \in Nat : n <= WordBits => Pow2[n] >= n + 1}
<1>1. 0 \in T
  BY Pow2Facts
<1>2. ASSUME NEW n \in Nat, n \in T PROVE n + 1 \in T
  <2>1. n + 1 <= WordBits => Pow2[n + 1] = 2 * Pow2[n] /\ Pow2[n] \in Nat /\ Pow2[n] >= n + 1
    BY <1>2, Pow2Facts, WidthAssumption
  <2> QED BY <2>1, WidthAssumption
<1>3. \A n \in Nat : n \in T
  <2> HIDE DEF T
  <2> QED BY <1>1, <1>2, Induction
<1> QED BY <1>3, WidthAssumption

(* Room for the strings: 16 of the longest are a little less than an int.  *)
LEMMA Room ==
  LET L == Pow2[WordBits - 5] IN
  /\ L \in Nat /\ L >= 4 /\ WordBits \div 7 + 1 <= L
  /\ Pow2[WordBits - 1] = 16 * L /\ Words = 32 * L
<1> DEFINE L == Pow2[WordBits - 5]
           w == WordBits - 5
<1>1. WordBits \in Nat /\ w \in Nat /\ w >= 3 /\ WordBits \div 7 + 1 <= w + 1 /\ w + 5 = WordBits
  BY WidthAssumption
<1> HIDE DEF w
<1>2. \A k \in 0 .. 4 : w + k \in Nat /\ w + k < WordBits
  BY <1>1
<1>3. \A k \in 0 .. 4 : Pow2[(w + k) + 1] = 2 * Pow2[w + k] /\ Pow2[w + k] \in Nat
  BY <1>1, <1>2, Pow2Facts
<1>10. \A k \in 0 .. 4 : Pow2[w + (k + 1)] = 2 * Pow2[w + k]
  BY <1>1, <1>3
<1>4. Pow2[w] \in Nat /\ Pow2[w] >= w + 1
  BY <1>1, Pow2Grows, Pow2Facts
<1>5. Pow2[w + 1] = 2 * Pow2[w + 0] /\ w + 0 = w
  BY <1>3, <1>1
<1>6. Pow2[w + 2] = 2 * Pow2[w + 1] /\ Pow2[w + 3] = 2 * Pow2[w + 2]
  BY <1>10
<1>7. Pow2[w + 4] = 2 * Pow2[w + 3] /\ Pow2[w + 5] = 2 * Pow2[w + 4]
  BY <1>10
<1>8. Pow2[w + 4] = 16 * Pow2[w] /\ Pow2[w + 5] = 32 * Pow2[w]
  BY <1>4, <1>5, <1>6, <1>7
<1>9. WordBits - 1 = w + 4 /\ WordBits - 5 = w
  BY <1>1
<1> QED BY <1>1, <1>4, <1>8, <1>9 DEF Words

(* A number of a width survives its conversion to a word and back.         *)
LEMMA SignedWord ==
  ASSUME NEW x \in IntsOf(WordBits)
  PROVE  Uint(x) \in 0 .. Words - 1 /\ Signed(Uint(x), WordBits) = x
<1> DEFINE h == Pow2[WordBits - 1]
<1>1. h \in Nat \ {0} /\ Words = 2 * h /\ Pow2[WordBits] = Words
  BY Room DEF Words
<1>2. x \in -h .. h - 1
  BY DEF IntsOf
<1>3. Uint(x) = IF x < 0 THEN x + Words ELSE x
  <2> HIDE DEF h
  <2> QED BY <1>1, <1>2 DEF Uint
<1> HIDE DEF h
<1>4. Uint(x) \in 0 .. Words - 1
  BY <1>1, <1>2, <1>3
<1>5. Uint(x) % Words = Uint(x)
  BY <1>1, <1>4
<1> QED BY <1>1, <1>2, <1>3, <1>4, <1>5 DEF Signed, TwosComplement, h

(* An int32 enum value sign-extended to uint64 by Marshal and truncated to *)
(* int32 by Unmarshal is itself, negative values included.                 *)
LEMMA SignedEnum ==
  ASSUME NEW x \in IntsOf(EnumBits)
  PROVE  Uint(x) \in 0 .. Words - 1 /\ Signed(Uint(x), EnumBits) = x
<1> DEFINE h == Pow2[EnumBits - 1]
           e == Pow2[EnumBits]
<1>1. h \in Nat \ {0} /\ e = 2 * h
  <2>1. EnumBits - 1 \in Nat /\ EnumBits - 1 < WordBits /\ (EnumBits - 1) + 1 = EnumBits
    BY WidthAssumption
  <2> QED BY <2>1, Pow2Facts, WidthAssumption
<1>2. PICK c \in Nat \ {0} : Words = c * e
  BY EnumDividesWord
<1>3. x \in -h .. h - 1
  BY DEF IntsOf
<1> HIDE DEF h, e
<1>4. Words \in Nat /\ e <= Words
  BY <1>1, <1>2, WordsType
<1>5. CASE x >= 0
  <2>1. Uint(x) = x
    BY <1>1, <1>3, <1>4, <1>5 DEF Uint
  <2>2. x % e = x
    BY <1>1, <1>3, <1>5
  <2> QED BY <1>1, <1>3, <1>4, <1>5, <2>1, <2>2 DEF Signed, TwosComplement, h, e
<1>6. CASE x < 0
  <2>1. Uint(x) = x + Words
    BY <1>1, <1>3, <1>4, <1>6 DEF Uint
  <2>2. c - 1 \in Nat /\ x + Words = (x + e) + (c - 1) * e /\ x + e \in 0 .. e - 1 /\ e \in Nat \ {0}
    BY <1>1, <1>2, <1>3, <1>6
  <2>3. ((x + e) + (c - 1) * e) % e = x + e
    BY Zenon, <2>2, Modulo
  <2>4. Uint(x) % e = x + e
    BY <2>1, <2>2, <2>3
  <2>5. Uint(x) \in 0 .. Words - 1
    BY <1>1, <1>3, <1>4, <1>6, <2>1
  <2>6. x + e >= h /\ (x + e) - e = x
    BY <1>1, <1>3
  <2> QED BY <2>4, <2>5, <2>6 DEF Signed, TwosComplement, h, e
<1> QED BY <1>3, <1>1, <1>5, <1>6

-----------------------------------------------------------------------------
(* Size and Marshal                                                        *)

(* A number takes at most as many bytes as it counts.                      *)
LEMMA SovSmall == \A n \in 1 .. Words - 1 : Sov[n] <= n
<1> DEFINE T == {n \in Nat : n \in 1 .. Words - 1 => Sov[n] <= n}
<1>1. ASSUME NEW n \in Nat, \A k \in 0 .. n - 1 : k \in T PROVE n \in T
  <2> SUFFICES ASSUME n \in 1 .. Words - 1 PROVE Sov[n] <= n
    OBVIOUS
  <2> DEFINE d == n \div 128
  <2>1. Sov[n] = IF d = 0 THEN 1 ELSE 1 + Sov[d]
    BY SovEquation, WordsType
  <2>2. d \in 0 .. n - 1 /\ d \in 0 .. Words - 1
    BY WordsType
  <2>3. Sov[d] \in Nat
    BY <2>2, VarintShape
  <2> HIDE DEF d
  <2>4. d # 0 => Sov[d] <= d
    BY <1>1, <2>2, WordsType
  <2> QED BY <2>1, <2>2, <2>3, <2>4
<1>2. \A n \in Nat : n \in T
  <2> HIDE DEF T
  <2> QED BY <1>1, StrongInduction
<1> QED BY <1>2, WordsType

(* A field of bytes has the length that its Size says.                     *)
LEMMA PutBytesSize ==
  ASSUME NEW tag \in Nat, NEW s \in Seq(Nat), Len(s) \in 0 .. Words - 1
  PROVE  PutBytes(tag, Len(s), s) \in Seq(Nat) /\ Len(PutBytes(tag, Len(s), s)) = SizeBytes(Len(s))
<1> DEFINE h == <<tag>>
           e == EncodeVarint[Len(s)]
<1>1. h \in Seq(Nat) /\ Len(h) = 1
  OBVIOUS
<1>2. e \in Seq(Nat) /\ Len(e) = Sov[Len(s)] /\ Sov[Len(s)] \in Nat
  BY VarintShape
<1>3. PutBytes(tag, Len(s), s) = (h \o e) \o s
  BY DEF PutBytes
<1> HIDE DEF h, e
<1>4. h \o e \in Seq(Nat) /\ Len(h \o e) = 1 + Sov[Len(s)]
  <2>1. h \o e \in Seq(Nat) /\ Len(h \o e) = Len(h) + Len(e)
    BY Zenon, <1>1, <1>2, Join
  <2> QED BY <1>1, <1>2, <2>1, Zenon
<1>5. (h \o e) \o s \in Seq(Nat) /\ Len((h \o e) \o s) = (1 + Sov[Len(s)]) + Len(s)
  BY <1>4, Join
<1>6. PutBytes(tag, Len(s), s) \in Seq(Nat) /\ Len(PutBytes(tag, Len(s), s)) = (1 + Sov[Len(s)]) + Len(s)
  BY <1>3, <1>5, Zenon
<1>7. SizeBytes(Len(s)) = (1 + Sov[Len(s)]) + Len(s)
  BY <1>2 DEF SizeBytes
<1> QED BY <1>6, <1>7, Zenon

(* Strings can be sized.                                                   *)
LEMMA StringsType ==
  ASSUME NEW s \in Strings
  PROVE  s \in Seq(Nat) /\ Len(s) \in 0 .. Pow2[WordBits - 5] /\ Len(s) \in 0 .. Words - 1
<1>1. s \in Seq(Nat) /\ Len(s) <= Pow2[WordBits - 5] /\ Len(s) \in Nat
  BY DEF Strings, Bytes
<1> QED BY <1>1, Room

(* Marshal writes a string field in exactly the bytes Size counts for it,  *)
(* none when it is empty, and the count stays far below the word.          *)
LEMMA PutStringSize ==
  ASSUME NEW tag \in Nat, NEW s \in Strings
  PROVE  /\ PutString(tag, s) \in Seq(Nat) /\ Len(PutString(tag, s)) = SizeString(s)
         /\ SizeString(s) \in 0 .. 1 + 2 * Pow2[WordBits - 5]
<1> DEFINE L == Pow2[WordBits - 5]
<1>0. L \in Nat
  BY Room
<1>1. s \in Seq(Nat) /\ Len(s) \in 0 .. L /\ Len(s) \in 0 .. Words - 1
  BY StringsType
<1> HIDE DEF L
<1>2. CASE s = <<>>
  <2>1. PutString(tag, s) = <<>> /\ SizeString(s) = 0
    BY <1>2 DEF PutString, SizeString
  <2> QED BY <1>0, <2>1 DEF L
<1>3. CASE s # <<>>
  <2>1. PutString(tag, s) = PutBytes(tag, Len(s), s) /\ SizeString(s) = SizeBytes(Len(s))
    BY <1>3 DEF PutString, SizeString
  <2>2. Len(s) \in 1 .. Words - 1
    BY <1>1, <1>3
  <2>3. Sov[Len(s)] <= Len(s) /\ Sov[Len(s)] \in Nat
    BY <2>2, SovSmall, <1>1, VarintShape
  <2>4. SizeString(s) \in 0 .. 1 + 2 * L
    BY <2>1, <2>3, <1>1, <1>0 DEF SizeBytes
  <2>5. PutBytes(tag, Len(s), s) \in Seq(Nat) /\ Len(PutBytes(tag, Len(s), s)) = SizeBytes(Len(s))
    BY <1>1, PutBytesSize
  <2>6. PutString(tag, s) \in Seq(Nat) /\ Len(PutString(tag, s)) = SizeString(s)
    BY <2>1, <2>5, Zenon
  <2> QED BY <2>4, <2>6 DEF L
<1> QED BY <1>2, <1>3

(* So does a field that is a number.                                       *)
LEMMA PutVarintSize ==
  ASSUME NEW tag \in Nat, NEW x \in Int
  PROVE  /\ PutVarint(tag, x) \in Seq(Nat) /\ Len(PutVarint(tag, x)) = SizeVarint(x)
         /\ SizeVarint(x) \in 0 .. 1 + Pow2[WordBits - 5]
<1> DEFINE L == Pow2[WordBits - 5]
           u == Uint(x)
<1>0. L \in Nat /\ WordBits \div 7 + 1 <= L /\ WordBits \div 7 \in Nat
  BY Room, WidthAssumption
<1>1. u \in 0 .. Words - 1
  BY WordsType, Modulo DEF Uint
<1> HIDE DEF L, u
<1>2. EncodeVarint[u] \in Seq(Nat) /\ Len(EncodeVarint[u]) = Sov[u] /\ Sov[u] \in Nat
  BY <1>1, VarintShape
<1>3. Sov[u] <= WordBits \div 7 + 1
  BY <1>1, SovBound
<1>4. CASE x = 0
  <2>1. PutVarint(tag, x) = <<>> /\ SizeVarint(x) = 0
    BY <1>4 DEF PutVarint, SizeVarint
  <2> QED BY <1>0, <2>1 DEF L
<1>5. CASE x # 0
  <2> DEFINE h == <<tag>>
             e == EncodeVarint[u]
  <2>1. h \in Seq(Nat) /\ Len(h) = 1
    OBVIOUS
  <2>2. PutVarint(tag, x) = h \o e /\ SizeVarint(x) = 1 + Sov[u]
    BY <1>5 DEF PutVarint, SizeVarint, u
  <2>3. e \in Seq(Nat) /\ Len(e) = Sov[u]
    BY <1>2
  <2> HIDE DEF h, e
  <2>4. h \o e \in Seq(Nat) /\ Len(h \o e) = 1 + Sov[u]
    <3>1. h \o e \in Seq(Nat) /\ Len(h \o e) = Len(h) + Len(e)
      BY Zenon, <2>1, <2>3, Join
    <3> QED BY <2>1, <2>3, <3>1, Zenon
  <2>5. PutVarint(tag, x) \in Seq(Nat) /\ Len(PutVarint(tag, x)) = SizeVarint(x)
    BY <2>2, <2>4, Zenon
  <2>6. SizeVarint(x) \in 0 .. 1 + L
    BY <1>0, <1>2, <1>3, <2>2
  <2> QED BY <2>5, <2>6 DEF L
<1> QED BY <1>4, <1>5


(* MarshalTo of a resource fills exactly what Size counts.                 *)
LEMMA MarshalResourceSize ==
  ASSUME NEW r \in SentResources
  PROVE  /\ MarshalResource(r) \in Seq(Nat) /\ Len(MarshalResource(r)) = SizeResource(r)
         /\ SizeResource(r) \in 0 .. 9 * Pow2[WordBits - 5] + 5
<1> DEFINE L == Pow2[WordBits - 5]
           k == PutString(10, r.key)
           o == PutString(18, r.owner)
           v == PutString(26, r.value)
           t == PutString(34, r.type)
           c == PutVarint(40, r.code)
<1>0. L \in Nat
  BY Room
<1>1. r.key \in Strings /\ r.owner \in Strings /\ r.value \in Strings /\ r.type \in Strings /\ r.code \in Int
  <2>1. r.code \in IntsOf(EnumBits)
    BY DEF SentResources
  <2>2. EnumBits - 1 \in 0 .. WordBits
    BY WidthAssumption
  <2>3. Pow2[EnumBits - 1] \in Nat
    BY <2>2, Pow2Facts
  <2> QED BY <2>1, <2>3 DEF SentResources, IntsOf
<1>2. k \in Seq(Nat) /\ Len(k) = SizeString(r.key) /\ SizeString(r.key) \in 0 .. 1 + 2 * L
  BY <1>1, PutStringSize
<1>3. o \in Seq(Nat) /\ Len(o) = SizeString(r.owner) /\ SizeString(r.owner) \in 0 .. 1 + 2 * L
  BY <1>1, PutStringSize
<1>4. v \in Seq(Nat) /\ Len(v) = SizeString(r.value) /\ SizeString(r.value) \in 0 .. 1 + 2 * L
  BY <1>1, PutStringSize
<1>5. t \in Seq(Nat) /\ Len(t) = SizeString(r.type) /\ SizeString(r.type) \in 0 .. 1 + 2 * L
  BY <1>1, PutStringSize
<1>6. c \in Seq(Nat) /\ Len(c) = SizeVarint(r.code) /\ SizeVarint(r.code) \in 0 .. 1 + L
  BY Zenon, <1>1, PutVarintSize
<1>7. MarshalResource(r) = (((k \o o) \o v) \o t) \o c
  BY DEF MarshalResource
<1> HIDE DEF L, k, o, v, t, c
<1>8. k \o o \in Seq(Nat) /\ Len(k \o o) = Len(k) + Len(o)
  BY Zenon, <1>2, <1>3, Join
<1>9. (k \o o) \o v \in Seq(Nat) /\ Len((k \o o) \o v) = Len(k \o o) + Len(v)
  BY Zenon, <1>4, <1>8, Join
<1>10. ((k \o o) \o v) \o t \in Seq(Nat) /\ Len(((k \o o) \o v) \o t) = Len((k \o o) \o v) + Len(t)
  BY Zenon, <1>5, <1>9, Join
<1>11. /\ MarshalResource(r) \in Seq(Nat)
       /\ Len(MarshalResource(r)) = Len(((k \o o) \o v) \o t) + Len(c)
  BY Zenon, <1>6, <1>7, <1>10, Join
<1>12. Len(MarshalResource(r)) = Len(k) + Len(o) + Len(v) + Len(t) + Len(c)
  BY <1>8, <1>9, <1>10, <1>11, Zenon
<1>13. SizeResource(r) = Len(k) + Len(o) + Len(v) + Len(t) + Len(c)
  BY <1>2, <1>3, <1>4, <1>5, <1>6, Zenon DEF SizeResource
<1>14. SizeResource(r) \in 0 .. 9 * L + 5
  BY <1>0, <1>2, <1>3, <1>4, <1>5, <1>6 DEF SizeResource
<1> QED BY <1>11, <1>12, <1>13, <1>14, Zenon DEF L

(* The bytes of a resource and of what follows it can be sized.            *)
LEMMA Sizeable ==
  ASSUME NEW n \in 0 .. 10 * Pow2[WordBits - 5] + 5
  PROVE  n \in 0 .. Words - 1 /\ n \in IntsOf(WordBits) /\ n < Pow2[WordBits - 1]
<1> DEFINE L == Pow2[WordBits - 5]
<1>1. L \in Nat /\ L >= 4 /\ Pow2[WordBits - 1] = 16 * L /\ Words = 32 * L
  BY Room
<1> HIDE DEF L
<1>2. n \in 0 .. 10 * L + 5
  BY DEF L
<1> QED BY <1>1, <1>2 DEF IntsOf

(* The same for a nested Resource, a nil one included.                     *)
LEMMA PutNestedSize ==
  ASSUME NEW r \in SentResources \cup {Nil}
  PROVE  PutNested(10, r) \in Seq(Nat) /\ Len(PutNested(10, r)) = SizeNested(r) /\ SizeNested(r) \in Nat
<1>1. CASE r = Nil
  BY <1>1 DEF PutNested, SizeNested
<1>2. CASE r # Nil
  <2> DEFINE L == Pow2[WordBits - 5]
             s == MarshalResource(r)
  <2>0. L \in Nat
    BY Room
  <2>1. s \in Seq(Nat) /\ Len(s) = SizeResource(r) /\ SizeResource(r) \in 0 .. 9 * L + 5
    BY <1>2, MarshalResourceSize
  <2>2. PutNested(10, r) = PutBytes(10, Len(s), s) /\ SizeNested(r) = SizeBytes(Len(s))
    BY <1>2, <2>1 DEF PutNested, SizeNested
  <2>3. SizeResource(r) \in 0 .. Words - 1
    <3>1. SizeResource(r) \in 0 .. 10 * L + 5
      BY <2>0, <2>1
    <3> QED BY <3>1, Sizeable
  <2> HIDE DEF s
  <2>4. PutBytes(10, Len(s), s) \in Seq(Nat) /\ Len(PutBytes(10, Len(s), s)) = SizeBytes(Len(s))
    BY <2>1, <2>3, PutBytesSize
  <2>5. PutNested(10, r) \in Seq(Nat) /\ Len(PutNested(10, r)) = SizeNested(r)
    BY <2>2, <2>4, Zenon
  <2> QED BY <2>5
<1> QED BY <1>1, <1>2

(* Of the first n resources of a list.                                     *)
LEMMA SizeFirstEquation ==
  ASSUME NEW rs, Len(rs) \in Nat
  PROVE  SizeFirst(rs) = [n \in 0 .. Len(rs) |->
           IF n = 0 THEN 0 ELSE SizeFirst(rs)[n - 1] + SizeNested(rs[n])]
<1> DEFINE one(k) == SizeNested(rs[k])
           Is(f, n) == f = [k \in 0 .. n |-> IF k = 0 THEN 0 ELSE f[k - 1] + one(k)]
           T == {n \in Nat : \E f : Is(f, n)}
<1>1. 0 \in T
  <2>1. Is([k \in 0 .. 0 |-> 0], 0)
    OBVIOUS
  <2> HIDE DEF Is
  <2> QED BY <2>1
<1>2. ASSUME NEW n \in Nat, n \in T PROVE n + 1 \in T
  <2>1. PICK f : Is(f, n)
    BY <1>2
  <2> DEFINE g == [k \in 0 .. n + 1 |-> IF k = n + 1 THEN f[n] + one(n + 1) ELSE f[k]]
  <2>2. Is(g, n + 1)
    <3> HIDE DEF one
    <3> QED BY <2>1
  <2> HIDE DEF Is, g
  <2> QED BY <2>2
<1>3. \A n \in Nat : n \in T
  <2> HIDE DEF T
  <2> QED BY <1>1, <1>2, Induction
<1>4. PICK f : Is(f, Len(rs))
  <2> HIDE DEF Is
  <2> QED BY <1>3
<1> QED BY Zenon, <1>4 DEF SizeFirst

(* Marshal's loop over the listed resources, as a function of how many are *)
(* written.                                                                *)
LEMMA MarshalFirstEquation ==
  ASSUME NEW rs, Len(rs) \in Nat
  PROVE  MarshalFirst(rs) = [n \in 0 .. Len(rs) |->
           IF n = 0 THEN <<>> ELSE MarshalFirst(rs)[n - 1] \o PutNested(10, rs[n])]
<1> DEFINE add(b, k) == b \o PutNested(10, rs[k])
           Is(f, n) == f = [k \in 0 .. n |-> IF k = 0 THEN <<>> ELSE add(f[k - 1], k)]
           T == {n \in Nat : \E f : Is(f, n)}
<1>1. 0 \in T
  <2>1. Is([k \in 0 .. 0 |-> <<>>], 0)
    OBVIOUS
  <2> HIDE DEF Is
  <2> QED BY <2>1
<1>2. ASSUME NEW n \in Nat, n \in T PROVE n + 1 \in T
  <2>1. PICK f : Is(f, n)
    BY Zenon, <1>2
  <2> DEFINE g == [k \in 0 .. n + 1 |-> IF k = n + 1 THEN add(f[n], n + 1) ELSE f[k]]
  <2>2. Is(g, n + 1)
    <3> HIDE DEF add
    <3> QED BY <2>1
  <2> HIDE DEF Is, g
  <2> QED BY <2>2
<1>3. \A n \in Nat : n \in T
  <2> HIDE DEF T
  <2> QED BY <1>1, <1>2, Induction
<1>4. PICK f : Is(f, Len(rs))
  <2> HIDE DEF Is
  <2> QED BY <1>3
<1> QED BY Zenon, <1>4 DEF MarshalFirst

(* After n listed resources Marshal has written exactly the bytes Size     *)
(* counts for the first n.                                                 *)
LEMMA MarshalFirstSize ==
  ASSUME NEW rs \in Seq(SentResources), NEW n \in 0 .. Len(rs)
  PROVE  /\ MarshalFirst(rs)[n] \in Seq(Nat) /\ Len(MarshalFirst(rs)[n]) = SizeFirst(rs)[n]
         /\ SizeFirst(rs)[n] \in Nat
<1> DEFINE M == MarshalFirst(rs)
           Z == SizeFirst(rs)
           put(k) == PutNested(10, rs[k])
           one(k) == SizeNested(rs[k])
           P(k) == M[k] \in Seq(Nat) /\ Len(M[k]) = Z[k] /\ Z[k] \in Nat
           T == {k \in Nat : k <= Len(rs) => P(k)}
<1>0. Len(rs) \in Nat
  OBVIOUS
<1>1. \A k \in 0 .. Len(rs) : M[k] = IF k = 0 THEN <<>> ELSE M[k - 1] \o put(k)
  <2> DEFINE add(b, k) == b \o put(k)
  <2>1. M = [k \in 0 .. Len(rs) |-> IF k = 0 THEN <<>> ELSE add(M[k - 1], k)]
    BY Zenon, <1>0, MarshalFirstEquation
  <2> HIDE DEF add, M
  <2>2. \A k \in 0 .. Len(rs) : M[k] = IF k = 0 THEN <<>> ELSE add(M[k - 1], k)
    BY <2>1
  <2> QED BY <2>2 DEF add
<1>2. \A k \in 0 .. Len(rs) : Z[k] = IF k = 0 THEN 0 ELSE Z[k - 1] + one(k)
  <2>1. Z = [k \in 0 .. Len(rs) |-> IF k = 0 THEN 0 ELSE Z[k - 1] + one(k)]
    BY <1>0, SizeFirstEquation
  <2> HIDE DEF Z, one
  <2> QED BY <2>1
<1>3. \A k \in 1 .. Len(rs) : put(k) \in Seq(Nat) /\ Len(put(k)) = one(k) /\ one(k) \in Nat
  BY PutNestedSize
<1> HIDE DEF M, Z, put, one
<1>4. 0 \in T
  <2>1. M[0] = <<>> /\ Z[0] = 0
    BY <1>0, <1>1, <1>2
  <2>2. M[0] \in Seq(Nat) /\ Len(M[0]) = 0 /\ Z[0] \in Nat
    BY <2>1
  <2>3. P(0)
    BY <2>1, <2>2, Zenon
  <2> HIDE DEF P
  <2> QED BY <2>3
<1>5. ASSUME NEW k \in Nat, k \in T PROVE k + 1 \in T
  <2> SUFFICES ASSUME k + 1 <= Len(rs) PROVE P(k + 1)
    OBVIOUS
  <2>1. P(k)
    BY <1>0, <1>5
  <2>2. M[k + 1] = M[k] \o put(k + 1) /\ Z[k + 1] = Z[k] + one(k + 1)
    <3>1. k + 1 \in 0 .. Len(rs) /\ k + 1 # 0 /\ (k + 1) - 1 = k
      BY <1>0
    <3>2. M[k + 1] = M[(k + 1) - 1] \o put(k + 1) /\ Z[k + 1] = Z[(k + 1) - 1] + one(k + 1)
      BY <3>1, <1>1, <1>2, Zenon
    <3> QED BY <3>1, <3>2
  <2>3. put(k + 1) \in Seq(Nat) /\ Len(put(k + 1)) = one(k + 1) /\ one(k + 1) \in Nat
    BY <1>0, <1>3
  <2>4. M[k] \o put(k + 1) \in Seq(Nat) /\ Len(M[k] \o put(k + 1)) = Len(M[k]) + Len(put(k + 1))
    BY Zenon, <2>1, <2>3, Join
  <2>5. M[k + 1] \in Seq(Nat) /\ Len(M[k + 1]) = Z[k + 1]
    BY <2>1, <2>2, <2>3, <2>4, Zenon
  <2>6. Z[k + 1] \in Nat
    BY <2>1, <2>2, <2>3
  <2> QED BY <2>5, <2>6
<1>6. \A k \in Nat : k \in T
  <2> HIDE DEF T
  <2> QED BY <1>4, <1>5, Induction
<1> QED BY <1>0, <1>6 DEF M, Z

-----------------------------------------------------------------------------
(* Reading fields                                                          *)

(* What a reader returns.                                                  *)
LEMMA ReadFields ==
  /\ \A v, i : Read(v, i).ok /\ Read(v, i).val = v /\ Read(v, i).next = i /\ Read(v, i) # Failed
  /\ ~Failed.ok
BY DEF Read, Failed

(* The bytes of a field are read where they were written.                  *)
LEMMA BytesAt ==
  ASSUME NEW bs \in Seq(Nat), NEW i \in Nat \ {0}, NEW s \in Seq(Nat), Len(s) < Pow2[WordBits - 1],
         At(bs, i, EncodeVarint[Len(s)]), At(bs, i + Sov[Len(s)], s)
  PROVE  DecodeBytes(bs, i) = Read(s, i + Sov[Len(s)] + Len(s))
<1> DEFINE n == Len(s)
           j == i + Sov[n]
<1>1. n \in 0 .. Words - 1 /\ n \in IntsOf(WordBits) /\ n \in Nat
  <2> DEFINE h == Pow2[WordBits - 1]
  <2>1. h \in Nat /\ Words = 2 * h
    BY Room
  <2> HIDE DEF h
  <2>2. n \in Nat /\ n < h
    BY DEF h
  <2>3. n \in -h .. h - 1 /\ n \in 0 .. Words - 1
    BY <2>1, <2>2
  <2> QED BY <2>2, <2>3 DEF IntsOf, h
<1>2. Sov[n] \in Nat
  BY <1>1, VarintShape
<1>3. DecodeVarint(bs, i) = Read(n, j)
  BY <1>1, VarintAt
<1>4. Uint(n) = n
  BY <1>1, Fits
<1>5. Signed(n, WordBits) = n
  BY <1>1, <1>4, SignedWord
<1>6. DecodeLength(bs, i) = Read(n, j)
  BY <1>3, <1>5, ReadFields DEF DecodeLength, DecodeSigned
<1>7. j + n - 1 <= Len(bs) /\ \A k \in 1 .. n : bs[j + k - 1] = s[k]
  BY DEF At
<1>8. j \in Nat \ {0}
  BY <1>2
<1> HIDE DEF n, j
<1>9. DecodeBytes(bs, i) = Read(SubSeq(bs, j, j + n - 1), j + n)
  BY <1>1, <1>6, <1>7, ReadFields DEF DecodeBytes, Announced
<1>10. SubSeq(bs, j, j + n - 1) = s
  <2>1. s \in Seq(Nat) /\ Len(s) = n
    BY DEF n
  <2> QED BY SMTT(30), <1>1, <1>7, <1>8, <2>1
<1> QED BY Zenon, <1>9, <1>10 DEF j, n


(* Two reads are the same if they read the same value up to the same index.*)
LEMMA SameRead ==
  ASSUME NEW v, NEW n, NEW u, NEW m, Read(v, n) = Read(u, m)
  PROVE  v = u /\ n = m
BY DEF Read

(* Turns that stay in G come nearer to the end of a loop.                  *)
Nearer(G, Done, step, rank) == \A s \in G \ Done : step[s] \in G /\ rank[step[s]] < rank[s]

(* h takes the turns of one loop to those of another.                      *)
Image(h, G, Done, step, Done2, step2) ==
  /\ \A s \in G \cap Done : h[s] \in Done2
  /\ \A s \in G \ Done : h[s] \notin Done2 /\ step2[h[s]] = h[step[s]]

(* One loop follows another: it does for the image of a state what the     *)
(* other does for the state, as long as the states are in G.               *)
Follows(f, S, Done, step, N, rank, f2, S2, Done2, step2, G, h) ==
  /\ IsLoop(f, S, Done, step) /\ IsLoop(f2, S2, Done2, step2)
  /\ N \in Nat /\ rank \in [S -> 0 .. N] /\ G \subseteq S /\ h \in [G -> S2]
  /\ Nearer(G, Done, step, rank) /\ Image(h, G, Done, step, Done2, step2)

(* Two loops in lockstep: when h takes each turn of one loop to a turn of  *)
(* the other and each end to an end, h takes the result of the first to    *)
(* the result of the second.                                               *)
LEMMA LoopFollows ==
  ASSUME NEW f, NEW S, NEW Done, NEW step, NEW N, NEW rank, NEW f2, NEW S2, NEW Done2, NEW step2,
         NEW G, NEW h, Follows(f, S, Done, step, N, rank, f2, S2, Done2, step2, G, h)
  PROVE  \A s \in G : f[s] \in G \cap Done /\ f2[h[s]] = h[f[s]]
<1> SUFFICES ASSUME
      IsLoop(f, S, Done, step), IsLoop(f2, S2, Done2, step2), N \in Nat, rank \in [S -> 0 .. N],
      G \subseteq S, h \in [G -> S2], Nearer(G, Done, step, rank), Image(h, G, Done, step, Done2, step2)
    PROVE  \A s \in G : f[s] \in G \cap Done /\ f2[h[s]] = h[f[s]]
  BY DEF Follows
<1> DEFINE P(s) == f[s] \in G \cap Done /\ f2[h[s]] = h[f[s]]
           T == {n \in Nat : \A s \in G : rank[s] = n => P(s)}
<1>1. ASSUME NEW n \in Nat, \A k \in 0 .. n - 1 : k \in T PROVE n \in T
  <2> SUFFICES ASSUME NEW s \in G, rank[s] = n PROVE P(s)
    OBVIOUS
  <2>1. CASE s \in Done
    <3>1. f[s] = s /\ h[s] \in S2 /\ h[s] \in Done2
      BY <2>1 DEF IsLoop, Image
    <3>2. f2[h[s]] = h[s]
      BY <3>1 DEF IsLoop
    <3> QED BY <2>1, <3>1, <3>2
  <2>2. CASE s \notin Done
    <3> DEFINE t == step[s]
    <3>1. t \in G /\ rank[t] < rank[s] /\ h[s] \notin Done2 /\ step2[h[s]] = h[t] /\ h[s] \in S2
      BY <2>2 DEF Nearer, Image
    <3>2. f[s] = f[t]
      BY <2>2 DEF IsLoop
    <3>3. f2[h[s]] = f2[h[t]]
      BY <3>1 DEF IsLoop
    <3>4. P(t)
      <4> HIDE DEF P, t
      <4>1. t \in S /\ rank[t] \in 0 .. n - 1
        BY <3>1
      <4> QED BY <1>1, <3>1, <4>1
    <3> QED BY <3>2, <3>3, <3>4, Zenon
  <2> QED BY <2>1, <2>2
<1>2. \A n \in Nat : n \in T
  <2> HIDE DEF T
  <2> QED BY <1>1, StrongInduction
<1>3. \A s \in G : rank[s] \in Nat
  OBVIOUS
<1> HIDE DEF P
<1>4. \A s \in G : P(s)
  BY <1>2, <1>3
<1> QED BY <1>4 DEF P

(* A loop stays in the states that its turns stay in, and ends.            *)
LEMMA LoopStays ==
  ASSUME NEW S, NEW Done, NEW step, NEW f, IsLoop(f, S, Done, step),
         NEW N \in Nat, NEW rank \in [S -> 0 .. N],
         NEW G \in SUBSET S,
         Nearer(G, Done, step, rank)
  PROVE  \A s \in G : f[s] \in G \cap Done
<1> DEFINE T == {n \in Nat : \A s \in G : rank[s] = n => f[s] \in G \cap Done}
<1>1. ASSUME NEW n \in Nat, \A k \in 0 .. n - 1 : k \in T PROVE n \in T
  <2> SUFFICES ASSUME NEW s \in G, rank[s] = n PROVE f[s] \in G \cap Done
    OBVIOUS
  <2>1. CASE s \in Done
    BY <2>1 DEF IsLoop
  <2>2. CASE s \notin Done
    <3> DEFINE t == step[s]
    <3>1. t \in G /\ rank[t] < rank[s] /\ f[s] = f[t]
      BY <2>2 DEF IsLoop, Nearer
    <3> HIDE DEF t
    <3>2. t \in S /\ rank[t] \in 0 .. n - 1
      BY <3>1
    <3> QED BY <1>1, <3>1, <3>2
  <2> QED BY <2>1, <2>2
<1>2. \A n \in Nat : n \in T
  <2> HIDE DEF T
  <2> QED BY <1>1, StrongInduction
<1>3. \A s \in G : rank[s] \in Nat
  OBVIOUS
<1> QED BY <1>2, <1>3

-----------------------------------------------------------------------------
(* Skipping a field                                                        *)

(* The positions at or after n.                                            *)
From(n) == {m \in Nat : m >= n}

(* The states of a loop are the results of its reads.                      *)
LEMMA StateIsRead ==
  ASSUME NEW V, NEW N, NEW d
  PROVE  d \in [ok : {TRUE}, val : V, next : N] \cup {Failed} <=> IsRead(d, V, N)
<1>1. ASSUME d \in [ok : {TRUE}, val : V, next : N] PROVE d = Read(d.val, d.next) /\ d.val \in V /\ d.next \in N
  BY Zenon, <1>1 DEF Read
<1>2. ASSUME NEW v \in V, NEW n \in N, d = Read(v, n) PROVE d \in [ok : {TRUE}, val : V, next : N]
  BY <1>2 DEF Read
<1> QED BY <1>1, <1>2, Zenon DEF IsRead

(* A result read from V and N is a state of a loop over them.              *)
LEMMA ReadState ==
  ASSUME NEW V, NEW N, NEW v \in V, NEW n \in N
  PROVE  Read(v, n) \in [ok : {TRUE}, val : V, next : N] \cup {Failed}
BY DEF Read

(* Truncation to a signed width yields an integer.                         *)
LEMMA SignedType ==
  ASSUME NEW v \in Int, NEW bits \in 1 .. WordBits
  PROVE  Signed(v, bits) \in Int
<1> DEFINE m == Pow2[bits]
<1>1. m \in Nat \ {0}
  BY Pow2Facts
<1> HIDE DEF m
<1>2. v % m \in Int
  BY <1>1
<1> QED BY <1>1, <1>2 DEF Signed, TwosComplement, m

(* A signed varint reads as an integer and moves the index on, or fails.   *)
LEMMA DecodeSignedType ==
  ASSUME NEW bs \in Seq(Nat), NEW i \in Nat \ {0}, NEW bits \in 1 .. WordBits
  PROVE  IsRead(DecodeSigned(DecodeVarint(bs, i), bits), Int, i + 1 .. Len(bs) + 1)
<1>1. CASE DecodeVarint(bs, i) = Failed
  BY <1>1, ReadFields DEF DecodeSigned, IsRead
<1>2. ASSUME NEW v \in 0 .. Words - 1, NEW n \in i + 1 .. Len(bs) + 1, DecodeVarint(bs, i) = Read(v, n)
      PROVE  IsRead(DecodeSigned(DecodeVarint(bs, i), bits), Int, i + 1 .. Len(bs) + 1)
  <2>1. DecodeSigned(DecodeVarint(bs, i), bits) = Read(Signed(v, bits), n)
    BY <1>2, ReadFields DEF DecodeSigned
  <2>2. Signed(v, bits) \in Int
    BY WordsType, SignedType
  <2> QED BY <2>1, <2>2 DEF IsRead
<1> QED BY <1>1, <1>2, DecodeVarintType DEF IsRead

(* A turn of skipLocket (locket.pb.go:2140-2240) never moves the index     *)
(* back, whatever the wire type.                                           *)
LEMMA SkipTaggedType ==
  ASSUME NEW bs \in Seq(Nat), NEW v \in Nat, NEW n \in Nat \ {0}, NEW depth \in Nat
  PROVE  IsRead(SkipTagged(bs, Read(v, n), depth), Nat, From(n))
<1> DEFINE d == SkipTagged(bs, Read(v, n), depth)
           w == v % 8
<1>0. IsRead(Failed, Nat, From(n))
  BY DEF IsRead
<1>1. \A k \in Nat : IsRead(Read(depth, n + k), Nat, From(n))
  BY DEF IsRead, From
<1>2. d = CASE w = 0 -> Past(DecodeVarint(bs, n), depth)
            [] w = 1 -> Read(depth, n + 8)
            [] w = 2 -> PastLength(DecodeLength(bs, n), depth)
            [] w = 3 -> Read(depth + 1, n)
            [] w = 4 -> Read(IF depth = 0 THEN 0 ELSE depth - 1, n)
            [] w = 5 -> Read(depth, n + 4)
            [] OTHER -> Failed
  BY ReadFields DEF SkipTagged
<1> HIDE DEF d, w
<1>3. CASE w = 0
  <2>1. d = Past(DecodeVarint(bs, n), depth)
    BY <1>2, <1>3
  <2>2. CASE DecodeVarint(bs, n) = Failed
    BY <1>0, <2>1, <2>2, ReadFields DEF Past, d
  <2>3. ASSUME NEW u, NEW m \in n + 1 .. Len(bs) + 1, DecodeVarint(bs, n) = Read(u, m)
        PROVE  IsRead(d, Nat, From(n))
    <3>1. d = Read(depth, m)
      BY <2>1, <2>3, ReadFields DEF Past
    <3> QED BY <3>1 DEF IsRead, From
  <2> QED BY <2>2, <2>3, DecodeVarintType DEF IsRead, d
<1>4. CASE w = 2
  <2>1. d = PastLength(DecodeLength(bs, n), depth)
    BY <1>2, <1>4
  <2>2. CASE DecodeLength(bs, n) = Failed
    BY <1>0, <2>1, <2>2, ReadFields DEF PastLength, d
  <2>3. ASSUME NEW u \in Int, NEW m \in n + 1 .. Len(bs) + 1, DecodeLength(bs, n) = Read(u, m)
        PROVE  IsRead(d, Nat, From(n))
    <3>1. d = IF u >= 0 THEN Read(depth, m + u) ELSE Failed
      BY <2>1, <2>3, ReadFields DEF PastLength
    <3> QED BY <3>1 DEF IsRead, From
  <2>4. WordBits \in 1 .. WordBits
    BY WidthAssumption
  <2>5. IsRead(DecodeLength(bs, n), Int, n + 1 .. Len(bs) + 1)
    BY <2>4, DecodeSignedType DEF DecodeLength
  <2> QED BY <2>2, <2>3, <2>5 DEF IsRead, d
<1>5. CASE w \notin {0, 2}
  <2>1. d \in {Read(depth, n + 8), Read(depth + 1, n), Read(IF depth = 0 THEN 0 ELSE depth - 1, n),
               Read(depth, n + 4), Failed}
    BY <1>2, <1>5
  <2>2. depth + 1 \in Nat /\ (IF depth = 0 THEN 0 ELSE depth - 1) \in Nat /\ depth \in Nat
        /\ n \in From(n) /\ n + 8 \in From(n) /\ n + 4 \in From(n)
    BY DEF From
  <2> QED BY <2>1, <2>2 DEF IsRead, d
<1> QED BY <1>3, <1>4, <1>5

(* How far a state is from the end of bs: a turn of a loop comes nearer.   *)
Rank(bs, s) == IF ~s.ok THEN 0 ELSE IF s.next > Len(bs) THEN 1 ELSE Len(bs) + 2 - s.next

(* The rank of a loop state is what is left to read: a failed read has     *)
(* none, and a read that moves the index on within the buffer has less.    *)
LEMMA RankType ==
  ASSUME NEW bs \in Seq(Nat)
  PROVE  /\ Rank(bs, Failed) = 0
         /\ \A v : \A n \in Nat \ {0} : Rank(bs, Read(v, n)) \in 1 .. Len(bs) + 1
         /\ \A v, u : \A n \in Nat \ {0}, m \in Nat \ {0} :
              n <= Len(bs) /\ m > n => Rank(bs, Read(u, m)) < Rank(bs, Read(v, n))
<1>1. Rank(bs, Failed) = 0
  BY ReadFields DEF Rank
<1>2. \A v, n : Rank(bs, Read(v, n)) = IF n > Len(bs) THEN 1 ELSE Len(bs) + 2 - n
  BY ReadFields DEF Rank
<1>3. Len(bs) \in Nat
  OBVIOUS
<1>4. \A v : \A n \in Nat \ {0} : Rank(bs, Read(v, n)) \in 1 .. Len(bs) + 1
  BY <1>2, <1>3
<1>5. ASSUME NEW v, NEW u, NEW n \in Nat \ {0}, NEW m \in Nat \ {0}, n <= Len(bs), m > n
      PROVE  Rank(bs, Read(u, m)) < Rank(bs, Read(v, n))
  <2>1. Rank(bs, Read(v, n)) = Len(bs) + 2 - n
    BY <1>2, <1>3, <1>5
  <2>2. Rank(bs, Read(u, m)) = IF m > Len(bs) THEN 1 ELSE Len(bs) + 2 - m
    BY <1>2
  <2> QED BY <1>3, <1>5, <2>1, <2>2
<1> QED BY <1>1, <1>4, <1>5

(* Where the loop of skipLocket ends: a failed read, or no group left      *)
(* open.                                                                   *)
SkipDone == {s \in SkipStates : ~(s.ok /\ s.val > 0)}
(* One turn of that loop: the tag at the index, then what it says to pass  *)
(* over.                                                                   *)
SkipStep(bs, s) == SkipTagged(bs, DecodeVarint(bs, s.next), s.val)

(* The turns of that loop, as a function of its state.                     *)
SkipSteps(bs) == [s \in SkipStates \ SkipDone |-> SkipStep(bs, s)]

(* A turn of skipLocket reads at least a tag.                              *)
LEMMA SkipTurn ==
  ASSUME NEW bs \in Seq(Nat), NEW i \in Nat \ {0}, NEW depth \in Nat
  PROVE  IsRead(SkipTagged(bs, DecodeVarint(bs, i), depth), Nat, {m \in From(i + 1) : i <= Len(bs)})
<1> DEFINE N == {m \in From(i + 1) : i <= Len(bs)}
<1>1. CASE DecodeVarint(bs, i) = Failed
  <2>1. SkipTagged(bs, DecodeVarint(bs, i), depth) = Failed
    BY <1>1, ReadFields DEF SkipTagged
  <2> QED BY <2>1 DEF IsRead
<1>2. ASSUME NEW v \in 0 .. Words - 1, NEW n \in i + 1 .. Len(bs) + 1, DecodeVarint(bs, i) = Read(v, n)
      PROVE  IsRead(SkipTagged(bs, DecodeVarint(bs, i), depth), Nat, N)
  <2>1. v \in Nat /\ n \in Nat \ {0}
    BY WordsType
  <2>2. IsRead(SkipTagged(bs, Read(v, n), depth), Nat, From(n))
    BY <2>1, SkipTaggedType
  <2>3. From(n) \subseteq N
    BY DEF From
  <2> HIDE DEF N
  <2> QED BY <1>2, <2>2, <2>3 DEF IsRead
<1> QED BY <1>1, <1>2, DecodeVarintType DEF IsRead

(* A turn of skipLocket stays among its states and leaves less to read.    *)
LEMMA SkipStepType ==
  ASSUME NEW bs \in Seq(Nat), NEW s \in SkipStates \ SkipDone
  PROVE  SkipStep(bs, s) \in SkipStates /\ Rank(bs, SkipStep(bs, s)) < Rank(bs, s)
         /\ (SkipStep(bs, s).ok => SkipStep(bs, s).next >= s.next)
<1>1. PICK v \in Nat, n \in Nat \ {0} : s = Read(v, n)
  <2>1. s # Failed
    BY Zenon, ReadFields DEF SkipDone, SkipStates
  <2>2. IsRead(s, Nat, Nat \ {0})
    BY Zenon, StateIsRead DEF SkipStates
  <2> QED BY <2>1, <2>2 DEF IsRead
<1> DEFINE d == SkipStep(bs, s)
<1>2. d = SkipTagged(bs, DecodeVarint(bs, n), v)
  BY <1>1, ReadFields DEF SkipStep
<1>3. IsRead(d, Nat, {m \in From(n + 1) : n <= Len(bs)})
  BY <1>2, SkipTurn
<1> HIDE DEF d
<1>4. CASE d = Failed
  <2>1. Rank(bs, d) = 0 /\ Rank(bs, s) >= 1
    BY <1>1, <1>4, RankType
  <2>2. d \in SkipStates /\ ~d.ok
    BY <1>4, ReadFields DEF SkipStates
  <2>3. Rank(bs, d) < Rank(bs, s)
    BY <1>1, <2>1, RankType
  <2> QED BY <2>2, <2>3 DEF d
<1>5. ASSUME NEW u \in Nat, NEW m \in {k \in From(n + 1) : n <= Len(bs)}, d = Read(u, m)
      PROVE  d \in SkipStates /\ Rank(bs, d) < Rank(bs, s) /\ (d.ok => d.next >= s.next)
  <2>1. m \in Nat \ {0} /\ m > n /\ n <= Len(bs)
    BY DEF From
  <2>2. d \in SkipStates
    BY Zenon, <1>5, <2>1, StateIsRead DEF SkipStates, IsRead
  <2>3. Rank(bs, d) < Rank(bs, s)
    BY <1>1, <1>5, <2>1, RankType
  <2>4. d.next >= s.next
    BY <1>1, <1>5, <2>1, ReadFields
  <2> QED BY <2>2, <2>3, <2>4
<1> QED BY <1>3, <1>4, <1>5 DEF IsRead, d

(* The rank of skipLocket's states is bounded by the buffer.               *)
LEMMA SkipRankType ==
  ASSUME NEW bs \in Seq(Nat)
  PROVE  Len(bs) + 1 \in Nat /\ [s \in SkipStates |-> Rank(bs, s)] \in [SkipStates -> 0 .. Len(bs) + 1]
<1>1. ASSUME NEW s \in SkipStates PROVE Rank(bs, s) \in 0 .. Len(bs) + 1
  <2>1. IsRead(s, Nat, Nat \ {0})
    BY Zenon, StateIsRead DEF SkipStates
  <2>2. \A v : \A n \in Nat \ {0} : Rank(bs, Read(v, n)) \in 0 .. Len(bs) + 1
    BY RankType
  <2>3. Rank(bs, Failed) \in 0 .. Len(bs) + 1
    BY RankType
  <2> QED BY <2>1, <2>2, <2>3 DEF IsRead
<1> QED BY <1>1

(* The loop of skipLocket terminates on every buffer, so it exists as a    *)
(* function of its state.                                                  *)
LEMMA SkipLoopEquation ==
  ASSUME NEW bs \in Seq(Nat)
  PROVE  IsLoop(SkipLoop(bs), SkipStates, SkipDone, SkipSteps(bs))
<1> DEFINE S == SkipStates
           step == SkipSteps(bs)
           rank == [s \in S |-> Rank(bs, s)]
           Is(f) == f = [s \in S |-> IF s.ok /\ s.val > 0 THEN f[SkipStep(bs, s)] ELSE s]
<1>2. step \in [S \ SkipDone -> S]
  BY SkipStepType DEF SkipSteps
<1>3. Len(bs) + 1 \in Nat /\ rank \in [S -> 0 .. Len(bs) + 1]
  BY SkipRankType
<1>4. \A s \in S \ SkipDone : rank[step[s]] < rank[s]
  BY SkipStepType DEF SkipSteps
<1>5. PICK f \in [S -> S] : IsLoop(f, S, SkipDone, step)
  <2> HIDE DEF step, rank, S
  <2> QED BY Zenon, <1>2, <1>3, <1>4, LoopExists
<1>6. \A s \in S : s \in SkipDone <=> ~(s.ok /\ s.val > 0)
  BY DEF SkipDone
<1>7. Is(f)
  <2>1. \A s \in S \ SkipDone : step[s] = SkipStep(bs, s)
    BY DEF SkipSteps
  <2> HIDE DEF S, step
  <2> QED BY <1>5, <1>6, <2>1 DEF IsLoop
<1>8. Is(SkipLoop(bs))
  BY SMTT(30), <1>7 DEF SkipLoop, SkipStep
<1>9. \A s \in S : SkipLoop(bs)[s] = IF s.ok /\ s.val > 0 THEN SkipLoop(bs)[SkipStep(bs, s)] ELSE s
  <2> DEFINE g == SkipLoop(bs)
  <2>1. Is(g)
    BY <1>8
  <2> HIDE DEF g, S
  <2>2. \A s \in S : g[s] = IF s.ok /\ s.val > 0 THEN g[SkipStep(bs, s)] ELSE s
    BY <2>1
  <2> QED BY <2>2 DEF g
<1> QED BY <1>6, <1>9 DEF IsLoop, SkipSteps

(* What skipLocket returns lies behind the tag of the field.               *)
LEMMA SkipLocketType ==
  ASSUME NEW bs \in Seq(Nat), NEW i \in Nat \ {0}
  PROVE  IsRead(SkipLocket(bs, i), Nat, {m \in From(i + 1) : i <= Len(bs)})
<1> DEFINE N == {m \in From(i + 1) : i <= Len(bs)}
           s0 == SkipTagged(bs, DecodeVarint(bs, i), 0)
           G == {s \in SkipStates : IsRead(s, Nat, N)}
           f == SkipLoop(bs)
           step == SkipSteps(bs)
           rank == [s \in SkipStates |-> Rank(bs, s)]
<1>1. IsRead(s0, Nat, N)
  BY SkipTurn
<1>2. N \subseteq Nat \ {0}
  BY DEF From
<1> HIDE DEF N
<1>3. s0 \in G
  <2>1. IsRead(s0, Nat, Nat \ {0})
    BY <1>1, <1>2 DEF IsRead
  <2>2. s0 \in SkipStates
    BY Zenon, <2>1, StateIsRead DEF SkipStates
  <2> QED BY <1>1, <2>2
<1>4. ASSUME NEW s \in G \ SkipDone PROVE step[s] \in G /\ rank[step[s]] < rank[s]
  <2>1. /\ step[s] = SkipStep(bs, s) /\ step[s] \in SkipStates
        /\ Rank(bs, step[s]) < Rank(bs, s)
        /\ (step[s].ok => step[s].next >= s.next)
    BY SkipStepType DEF SkipSteps
  <2>2. rank[step[s]] < rank[s]
    BY <2>1
  <2>3. PICK v \in Nat, n \in N : s = Read(v, n)
    <3>1. s # Failed
      BY ReadFields DEF SkipDone
    <3> QED BY <3>1 DEF IsRead
  <2>4. IsRead(step[s], Nat, N)
    <3>1. IsRead(step[s], Nat, Nat \ {0})
      BY Zenon, <2>1, StateIsRead DEF SkipStates
    <3>2. ASSUME NEW u \in Nat, NEW m \in Nat \ {0}, step[s] = Read(u, m) PROVE m \in N
      <4>1. m >= n
        BY <2>1, <2>3, <3>2, ReadFields
      <4> QED BY <4>1, <2>3 DEF N, From
    <3> QED BY Zenon, <3>1, <3>2 DEF IsRead
  <2> QED BY <2>1, <2>2, <2>4
<1>5. IsLoop(f, SkipStates, SkipDone, step)
  BY SkipLoopEquation
<1>6. Len(bs) + 1 \in Nat /\ rank \in [SkipStates -> 0 .. Len(bs) + 1]
  BY SkipRankType
<1>7. G \in SUBSET SkipStates
  OBVIOUS
<1>8. f[s0] \in G
  <2>1. Nearer(G, SkipDone, step, rank)
    BY <1>4 DEF Nearer
  <2> HIDE DEF G, f, step, rank, s0
  <2> QED BY <1>3, <1>5, <1>6, <1>7, <2>1, LoopStays
<1> QED BY <1>8 DEF SkipLocket, N

(* A length-delimited read depends only on the bytes it reads: one that    *)
(* succeeds on x succeeds on any buffer that holds x, at the shifted       *)
(* place.                                                                  *)
LEMMA DecodeLengthAt ==
  ASSUME NEW bs \in Seq(Nat), NEW x \in Seq(Nat), NEW i \in Nat \ {0}, At(bs, i, x),
         NEW j \in Nat \ {0}, NEW v, NEW n, DecodeLength(x, j) = Read(v, n)
  PROVE  DecodeLength(bs, i + j - 1) = Read(v, i + n - 1)
<1>1. DecodeVarint(x, j) # Failed
  BY ReadFields DEF DecodeLength, DecodeSigned
<1>2. PICK u, m : DecodeVarint(x, j) = Read(u, m)
  BY <1>1, DecodeVarintType DEF IsRead
<1>3. v = Signed(u, WordBits) /\ n = m
  BY SMTT(30), <1>2, ReadFields DEF DecodeLength, DecodeSigned
<1>4. DecodeVarint(bs, i + j - 1) = Read(u, i + m - 1)
  BY <1>2, DecodeVarintAt
<1> QED BY <1>3, <1>4, ReadFields DEF DecodeLength, DecodeSigned

(* The same for passing over length-delimited bytes.                       *)
LEMMA PastLengthAt ==
  ASSUME NEW bs \in Seq(Nat), NEW x \in Seq(Nat), NEW i \in Nat \ {0}, At(bs, i, x),
         NEW j \in Nat \ {0}, NEW depth, NEW d, NEW k, PastLength(DecodeLength(x, j), depth) = Read(d, k)
  PROVE  PastLength(DecodeLength(bs, i + j - 1), depth) = Read(d, i + k - 1)
<1>1. DecodeLength(x, j) # Failed
  BY ReadFields DEF PastLength
<1>2. IsRead(DecodeLength(x, j), Int, j + 1 .. Len(x) + 1)
  <2>1. WordBits \in 1 .. WordBits
    BY WidthAssumption
  <2> QED BY <2>1, DecodeSignedType DEF DecodeLength
<1>3. PICK a, b : a \in Int /\ b \in j + 1 .. Len(x) + 1 /\ DecodeLength(x, j) = Read(a, b)
  BY <1>1, <1>2 DEF IsRead
<1>4. a >= 0 /\ d = depth /\ k = b + a
  <2>1. Read(d, k) = IF a >= 0 THEN Read(depth, b + a) ELSE Failed
    BY <1>3, ReadFields DEF PastLength
  <2> QED BY <2>1, SameRead, ReadFields
<1>5. DecodeLength(bs, i + j - 1) = Read(a, i + b - 1)
  BY SMTT(30), <1>3, DecodeLengthAt
<1>6. PastLength(DecodeLength(bs, i + j - 1), depth) = Read(depth, (i + b - 1) + a)
  BY <1>4, <1>5, ReadFields DEF PastLength
<1>7. (i + b - 1) + a = i + k - 1
  BY <1>3, <1>4
<1> QED BY <1>4, <1>6, <1>7

(* A field is skipped the same wherever its bytes are.                     *)
LEMMA SkipTaggedAt ==
  ASSUME NEW bs \in Seq(Nat), NEW x \in Seq(Nat), NEW i \in Nat \ {0}, At(bs, i, x),
         NEW u \in Nat, NEW m \in Nat \ {0}, NEW depth \in Nat, NEW d, NEW k,
         SkipTagged(x, Read(u, m), depth) = Read(d, k)
  PROVE  SkipTagged(bs, Read(u, i + m - 1), depth) = Read(d, i + k - 1)
<1> DEFINE w == u % 8
           e == IF depth = 0 THEN 0 ELSE depth - 1
<1>1. Read(d, k) = CASE w = 0 -> Past(DecodeVarint(x, m), depth)
            [] w = 1 -> Read(depth, m + 8)
            [] w = 2 -> PastLength(DecodeLength(x, m), depth)
            [] w = 3 -> Read(depth + 1, m)
            [] w = 4 -> Read(e, m)
            [] w = 5 -> Read(depth, m + 4)
            [] OTHER -> Failed
  BY ReadFields DEF SkipTagged
<1>2. SkipTagged(bs, Read(u, i + m - 1), depth)
        = CASE w = 0 -> Past(DecodeVarint(bs, i + m - 1), depth)
            [] w = 1 -> Read(depth, i + m - 1 + 8)
            [] w = 2 -> PastLength(DecodeLength(bs, i + m - 1), depth)
            [] w = 3 -> Read(depth + 1, i + m - 1)
            [] w = 4 -> Read(e, i + m - 1)
            [] w = 5 -> Read(depth, i + m - 1 + 4)
            [] OTHER -> Failed
  BY Zenon, ReadFields DEF SkipTagged
<1> HIDE DEF w, e
<1>3. CASE w = 0
  <2>1. Read(d, k) = Past(DecodeVarint(x, m), depth)
    BY <1>1, <1>3
  <2>2. DecodeVarint(x, m) # Failed
    BY <2>1, ReadFields DEF Past
  <2>3. PICK a, b : DecodeVarint(x, m) = Read(a, b)
    BY <2>2, DecodeVarintType DEF IsRead
  <2>4. d = depth /\ k = b
    BY <2>1, <2>3, ReadFields DEF Past
  <2>5. DecodeVarint(bs, i + m - 1) = Read(a, i + b - 1)
    BY <2>3, DecodeVarintAt
  <2>6. Past(DecodeVarint(bs, i + m - 1), depth) = Read(d, i + k - 1)
    BY <2>4, <2>5, ReadFields DEF Past
  <2> QED BY <1>2, <1>3, <2>6
<1>4. CASE w = 2
  <2>1. Read(d, k) = PastLength(DecodeLength(x, m), depth)
    BY <1>1, <1>4
  <2>2. PastLength(DecodeLength(bs, i + m - 1), depth) = Read(d, i + k - 1)
    BY <2>1, PastLengthAt
  <2> QED BY <1>2, <1>4, <2>2
<1>5. CASE w \in {1, 3, 4, 5}
  <2>1. PICK p : \E q \in {0, 4, 8} :
          Read(d, k) = Read(p, m + q) /\ SkipTagged(bs, Read(u, i + m - 1), depth) = Read(p, i + m - 1 + q)
    <3>1. m = m + 0 /\ i + m - 1 = i + m - 1 + 0
      OBVIOUS
    <3> QED BY <1>1, <1>2, <1>5, <3>1
  <2>2. PICK q \in {0, 4, 8} :
          Read(d, k) = Read(p, m + q) /\ SkipTagged(bs, Read(u, i + m - 1), depth) = Read(p, i + m - 1 + q)
    BY <2>1
  <2>3. d = p /\ k = m + q
    BY <2>2, SameRead
  <2>4. i + m - 1 + q = i + k - 1
    BY <2>3
  <2> QED BY <2>2, <2>3, <2>4, Zenon
<1>6. CASE w \notin {0, 1, 2, 3, 4, 5}
  BY <1>1, <1>6, ReadFields
<1> QED BY <1>3, <1>4, <1>5, <1>6

(* The same for one turn of skipLocket.                                    *)
LEMMA SkipTurnAt ==
  ASSUME NEW bs \in Seq(Nat), NEW x \in Seq(Nat), NEW i \in Nat \ {0}, At(bs, i, x),
         NEW j \in Nat \ {0}, NEW depth \in Nat, NEW d, NEW k,
         SkipTagged(x, DecodeVarint(x, j), depth) = Read(d, k)
  PROVE  SkipTagged(bs, DecodeVarint(bs, i + j - 1), depth) = Read(d, i + k - 1)
<1>1. DecodeVarint(x, j) # Failed
  BY ReadFields DEF SkipTagged
<1>2. PICK u \in 0 .. Words - 1, m \in j + 1 .. Len(x) + 1 : DecodeVarint(x, j) = Read(u, m)
  BY <1>1, DecodeVarintType DEF IsRead
<1>3. DecodeVarint(bs, i + j - 1) = Read(u, i + m - 1)
  BY SMTT(30), <1>2, DecodeVarintAt
<1>4. u \in Nat /\ m \in Nat \ {0}
  BY <1>2, WordsType
<1>5. SkipTagged(bs, Read(u, i + m - 1), depth) = Read(d, i + k - 1)
  BY <1>2, <1>4, SkipTaggedAt
<1> QED BY <1>3, <1>5

(* The same for all of skipLocket: what it passes over does not depend on  *)
(* what surrounds it.                                                      *)
LEMMA SkipLocketAt ==
  ASSUME NEW bs \in Seq(Nat), NEW x \in Seq(Nat), NEW i \in Nat \ {0}, At(bs, i, x),
         NEW j \in Nat \ {0}, NEW v, NEW n, SkipLocket(x, j) = Read(v, n)
  PROVE  SkipLocket(bs, i + j - 1) = Read(v, i + n - 1)
<1> DEFINE S == SkipStates
           f == SkipLoop(x)
           f2 == SkipLoop(bs)
           step == SkipSteps(x)
           step2 == SkipSteps(bs)
           rank == [s \in S |-> Rank(x, s)]
           G == {s \in S : f[s].ok}
           h == [s \in G |-> Read(s.val, i + s.next - 1)]
           s0 == SkipTagged(x, DecodeVarint(x, j), 0)
<1>1. IsLoop(f, S, SkipDone, step) /\ IsLoop(f2, S, SkipDone, step2)
  BY SkipLoopEquation
<1>2. Len(x) + 1 \in Nat /\ rank \in [S -> 0 .. Len(x) + 1]
  BY SkipRankType
<1>3. f[Failed] = Failed
  <2>1. Failed \in SkipDone /\ Failed \in S
    BY ReadFields DEF SkipDone, SkipStates
  <2> HIDE DEF f, step
  <2> QED BY <1>1, <2>1 DEF IsLoop
<1>4. ASSUME NEW s \in G PROVE \E a, b : a \in Nat /\ b \in Nat \ {0} /\ s = Read(a, b)
  <2>1. s # Failed
    BY <1>3, ReadFields
  <2>2. IsRead(s, Nat, Nat \ {0})
    BY Zenon, StateIsRead DEF SkipStates
  <2> QED BY <2>1, <2>2 DEF IsRead
<1>5. ASSUME NEW a \in Nat, NEW b \in Nat \ {0}
      PROVE  Read(a, b) \in S /\ (Read(a, b) \in SkipDone <=> a = 0)
  <2>1. Read(a, b) \in S
    BY Zenon, ReadState DEF SkipStates
  <2> QED BY <2>1, ReadFields DEF SkipDone
<1>6. h \in [G -> S]
  <2>1. ASSUME NEW s \in G PROVE Read(s.val, i + s.next - 1) \in S
    <3>1. PICK a, b : a \in Nat /\ b \in Nat \ {0} /\ s = Read(a, b)
      BY <1>4
    <3>2. s.val = a /\ s.next = b /\ i + b - 1 \in Nat \ {0}
      BY <3>1, ReadFields
    <3> QED BY <3>1, <3>2, <1>5
  <2> QED BY <2>1
<1>7. ASSUME NEW s \in G \cap SkipDone PROVE h[s] \in SkipDone
  <2>1. PICK a, b : a \in Nat /\ b \in Nat \ {0} /\ s = Read(a, b)
    BY <1>4
  <2>2. h[s] = Read(a, i + b - 1) /\ i + b - 1 \in Nat \ {0}
    BY <2>1, ReadFields
  <2>3. a = 0
    BY SMTT(30), <1>5, <2>1
  <2> QED BY <1>5, <2>1, <2>2, <2>3
<1>8. ASSUME NEW s \in G \ SkipDone
      PROVE  /\ step[s] \in G /\ rank[step[s]] < rank[s]
             /\ h[s] \notin SkipDone /\ step2[h[s]] = h[step[s]]
  <2>1. PICK a, b : a \in Nat /\ b \in Nat \ {0} /\ s = Read(a, b)
    BY <1>4
  <2>2. step[s] = SkipStep(x, s) /\ step[s] \in S /\ Rank(x, step[s]) < Rank(x, s)
    BY SkipStepType DEF SkipSteps
  <2>3. f[s] = f[step[s]]
    <3> HIDE DEF f, step
    <3> QED BY <1>1 DEF IsLoop
  <2>4. step[s] \in G
    BY <2>2, <2>3
  <2>5. rank[step[s]] < rank[s]
    BY <2>2
  <2>6. PICK c, d : c \in Nat /\ d \in Nat \ {0} /\ step[s] = Read(c, d)
    BY <1>4, <2>4
  <2>7. SkipTagged(x, DecodeVarint(x, b), a) = Read(c, d)
    BY Zenon, <2>1, <2>2, <2>6, ReadFields DEF SkipStep
  <2>8. SkipTagged(bs, DecodeVarint(bs, i + b - 1), a) = Read(c, i + d - 1)
    BY <2>1, <2>7, SkipTurnAt
  <2>9. h[s] = Read(a, i + b - 1) /\ i + b - 1 \in Nat \ {0}
    BY <2>1, ReadFields
  <2>10. h[s] \in S \ SkipDone
    <3>1. a # 0
      BY <1>5, <2>1
    <3> QED BY <1>5, <2>1, <2>9, <3>1
  <2>11. step2[h[s]] = Read(c, i + d - 1)
    BY <2>8, <2>9, <2>10, ReadFields DEF SkipSteps, SkipStep
  <2>12. h[step[s]] = Read(c, i + d - 1)
    BY <2>4, <2>6, ReadFields
  <2> QED BY <2>4, <2>5, <2>10, <2>11, <2>12
<1>9. s0 \in G /\ f[s0] = Read(v, n)
  <2>1. f[s0] = Read(v, n)
    BY DEF SkipLocket
  <2>2. IsRead(s0, Nat, Nat \ {0})
    <3>1. IsRead(s0, Nat, {m \in From(j + 1) : j <= Len(x)}) /\ From(j + 1) \subseteq Nat \ {0}
      BY SkipTurn DEF From
    <3> QED BY <3>1 DEF IsRead
  <2>3. s0 \in S
    BY Zenon, <2>2, StateIsRead DEF SkipStates
  <2> QED BY <2>1, <2>3, ReadFields
<1>10. f[s0] \in G /\ f2[h[s0]] = h[f[s0]]
  <2>1. G \in SUBSET S
    OBVIOUS
  <2> DEFINE D == SkipDone
             N == Len(x) + 1
  <2>2. Nearer(G, D, step, rank)
    BY Zenon, <1>8 DEF Nearer
  <2>3. Image(h, G, D, step, D, step2)
    BY Zenon, <1>7, <1>8 DEF Image
  <2>4. IsLoop(f, S, D, step) /\ IsLoop(f2, S, D, step2) /\ N \in Nat /\ rank \in [S -> 0 .. N]
    BY <1>1, <1>2
  <2> HIDE DEF S, f, f2, step, step2, rank, G, h, s0, D, N
  <2>5. \A s \in G : f[s] \in G \cap D /\ f2[h[s]] = h[f[s]]
    <3>1. Follows(f, S, D, step, N, rank, f2, S, D, step2, G, h)
      BY SMTT(30), <1>6, <2>1, <2>2, <2>3, <2>4 DEF Follows
    <3> QED BY <3>1, LoopFollows
  <2> QED BY <1>9, <2>5
<1>11. h[f[s0]] = Read(v, i + n - 1)
  BY <1>9, <1>10, ReadFields
<1>12. SkipTagged(bs, DecodeVarint(bs, i + j - 1), 0) = h[s0]
  <2>1. PICK a, b : a \in Nat /\ b \in Nat \ {0} /\ s0 = Read(a, b)
    BY <1>4, <1>9
  <2>2. SkipTagged(bs, DecodeVarint(bs, i + j - 1), 0) = Read(a, i + b - 1)
    BY SMTT(30), <2>1, SkipTurnAt
  <2>3. h[s0] = Read(a, i + b - 1)
    BY <1>9, <2>1, ReadFields
  <2> QED BY <2>2, <2>3
<1> QED BY <1>10, <1>11, <1>12 DEF SkipLocket


-----------------------------------------------------------------------------
(* Unmarshal                                                               *)

(* The kinds of field that hold no message.                                *)
Plain == {"enum", "int64", "string"}
(* Every kind of field locket.proto declares.                              *)
Kinds == Plain \cup {"message", "repeated"}

(* What a field of a kind holds.                                           *)
Values(kind) ==
  IF kind \in {"enum", "int64"} THEN Int
  ELSE IF kind = "string" THEN Bytes
  ELSE IF kind = "message" THEN Resources \cup {Nil} ELSE Seq(Resources)

(* The messages have these fields.                                         *)
Holds(messages, f) ==
  \A m \in messages : /\ m[f.name] \in Values(f.kind)
                      /\ \A v \in Values(f.kind) : [m EXCEPT ![f.name] = v] \in messages
(* Every field of the list is one the messages have, holding values of its *)
(* kind.                                                                   *)
HaveFields(messages, fields) ==
  \A n \in DOMAIN fields : fields[n].kind \in Kinds /\ Holds(messages, fields[n])

(* A length-delimited read yields bytes and moves the index on, or fails.  *)
LEMMA DecodeBytesType ==
  ASSUME NEW bs \in Seq(Nat), NEW i \in Nat \ {0}
  PROVE  IsRead(DecodeBytes(bs, i), Bytes, i + 1 .. Len(bs) + 1)
<1>1. IsRead(DecodeLength(bs, i), Int, i + 1 .. Len(bs) + 1)
  <2>1. WordBits \in 1 .. WordBits
    BY WidthAssumption
  <2> QED BY <2>1, DecodeSignedType DEF DecodeLength
<1>2. CASE DecodeLength(bs, i) = Failed
  BY <1>2, ReadFields DEF DecodeBytes, Announced, IsRead
<1>3. ASSUME NEW v \in Int, NEW n \in i + 1 .. Len(bs) + 1, DecodeLength(bs, i) = Read(v, n)
      PROVE  IsRead(DecodeBytes(bs, i), Bytes, i + 1 .. Len(bs) + 1)
  <2>1. DecodeBytes(bs, i) = IF v >= 0 /\ n + v - 1 <= Len(bs)
                             THEN Read(SubSeq(bs, n, n + v - 1), n + v) ELSE Failed
    BY <1>3, ReadFields DEF DecodeBytes, Announced
  <2>2. v >= 0 /\ n + v - 1 <= Len(bs) =>
          SubSeq(bs, n, n + v - 1) \in Bytes /\ n + v \in i + 1 .. Len(bs) + 1
    BY DEF Bytes
  <2> QED BY <2>1, <2>2 DEF IsRead
<1> QED BY <1>1, <1>2, <1>3 DEF IsRead

(* A plain field reads as a value of its kind and moves the index on, or   *)
(* fails.                                                                  *)
LEMMA DecodePlainType ==
  ASSUME NEW bs \in Seq(Nat), NEW i \in Nat \ {0}, NEW kind \in Plain
  PROVE  IsRead(DecodePlain(bs, i, kind), Values(kind), i + 1 .. Len(bs) + 1)
<1>1. CASE kind \in {"enum", "int64"}
  <2>1. WordBits \in 1 .. WordBits /\ EnumBits \in 1 .. WordBits
    BY WidthAssumption
  <2>2. \E bits \in 1 .. WordBits : DecodePlain(bs, i, kind) = DecodeSigned(DecodeVarint(bs, i), bits)
    BY <1>1, <2>1 DEF DecodePlain
  <2>3. Values(kind) = Int
    BY <1>1 DEF Values
  <2> QED BY <2>2, <2>3, DecodeSignedType
<1>2. CASE kind = "string"
  <2>1. DecodePlain(bs, i, kind) = DecodeBytes(bs, i) /\ Values(kind) = Bytes
    BY <1>2 DEF DecodePlain, Values
  <2> QED BY <2>1, DecodeBytesType
<1> QED BY <1>1, <1>2 DEF Plain

(* A tag's field number is an integer.                                     *)
LEMMA FieldNumberType ==
  ASSUME NEW t \in Nat, NEW j
  PROVE  FieldNumber(Read(t, j)) \in Int
<1>1. EnumBits \in 1 .. WordBits
  BY WidthAssumption
<1>2. t \div 8 \in Int
  OBVIOUS
<1>3. FieldNumber(Read(t, j)) = Signed(t \div 8, EnumBits)
  BY ReadFields DEF FieldNumber
<1> QED BY <1>1, <1>2, <1>3, SignedType

(* Passing over an unknown field keeps the message and moves the index on, *)
(* or fails.                                                               *)
LEMMA SkipUnknownType ==
  ASSUME NEW bs \in Seq(Nat), NEW i \in Nat \ {0}, NEW messages, NEW m \in messages
  PROVE  IsRead(SkipUnknown(bs, m, SkipLocket(bs, i)), messages, i + 1 .. Len(bs) + 1)
<1>1. CASE SkipLocket(bs, i) = Failed
  BY <1>1, ReadFields DEF SkipUnknown, IsRead
<1>2. ASSUME NEW v, NEW n \in From(i + 1), SkipLocket(bs, i) = Read(v, n)
      PROVE  IsRead(SkipUnknown(bs, m, SkipLocket(bs, i)), messages, i + 1 .. Len(bs) + 1)
  <2>1. SkipUnknown(bs, m, SkipLocket(bs, i)) = IF n - 1 <= Len(bs) THEN Read(m, n) ELSE Failed
    BY <1>2, ReadFields DEF SkipUnknown
  <2>2. n - 1 <= Len(bs) => n \in i + 1 .. Len(bs) + 1
    BY DEF From
  <2> QED BY <2>1, <2>2 DEF IsRead
<1>3. IsRead(SkipLocket(bs, i), Nat, {k \in From(i + 1) : i <= Len(bs)})
  BY SkipLocketType
<1> QED BY <1>1, <1>2, <1>3 DEF IsRead

(* A turn of Unmarshal fails or leads to a message, further on.            *)
LEMMA TurnType ==
  ASSUME NEW bs \in Seq(Nat), NEW messages, NEW fields, HaveFields(messages, fields),
         NEW m \in messages, NEW i \in Nat \ {0}, NEW t, NEW j, NEW num, NEW v,
         num \in DOMAIN fields => IsRead(v, Values(fields[num].kind), i + 1 .. Len(bs) + 1)
  PROVE  IsRead(Turn(bs, fields, Read(m, i), Read(t, j), num, v), messages, i + 1 .. Len(bs) + 1)
<1> DEFINE N == i + 1 .. Len(bs) + 1
           d == Turn(bs, fields, Read(m, i), Read(t, j), num, v)
<1>0. Read(m, i).val = m /\ Read(m, i).next = i
  BY SMTT(30), ReadFields
<1>1. \/ d = Failed
      \/ d = SkipUnknown(bs, m, SkipLocket(bs, i))
      \/ num \in DOMAIN fields /\ v.ok /\ d = Read([m EXCEPT ![fields[num].name] = v.val], v.next)
  BY <1>0 DEF Turn
<1> HIDE DEF N, d
<1>2. CASE d = Failed
  BY <1>2 DEF IsRead, d
<1>3. CASE d = SkipUnknown(bs, m, SkipLocket(bs, i))
  BY <1>3, SkipUnknownType DEF d
<1>4. CASE num \in DOMAIN fields /\ v.ok /\ d = Read([m EXCEPT ![fields[num].name] = v.val], v.next)
  <2>1. PICK u, n : u \in Values(fields[num].kind) /\ n \in N /\ v = Read(u, n)
    BY <1>4, ReadFields DEF IsRead, N
  <2>2. d = Read([m EXCEPT ![fields[num].name] = u], n)
    BY Zenon, <1>4, <2>1, ReadFields
  <2>3. [m EXCEPT ![fields[num].name] = u] \in messages
    BY Zenon, <1>4, <2>1 DEF HaveFields, Holds
  <2> QED BY Zenon, <2>1, <2>2, <2>3 DEF IsRead, d, N
<1> QED BY <1>1, <1>2, <1>3, <1>4 DEF d

(* Where an Unmarshal loop ends: a failed read, or the index past the      *)
(* buffer.                                                                 *)
Ended(bs, messages) == {st \in States(messages) : Unmarshalled(bs, st)}

(* The turns of an Unmarshal.                                              *)
Turns(step, bs, messages) ==
  /\ step \in [States(messages) \ Ended(bs, messages) -> States(messages)]
  /\ \A m \in messages, i \in 1 .. Len(bs) : IsRead(step[Read(m, i)], messages, i + 1 .. Len(bs) + 1)

(* An Unmarshal loop goes on exactly at the reads whose index is inside    *)
(* the buffer.                                                             *)
LEMMA EndedStates ==
  ASSUME NEW bs \in Seq(Nat), NEW messages
  PROVE  /\ \A m \in messages, i \in Nat \ {0} :
              Read(m, i) \in States(messages) /\ (Read(m, i) \in Ended(bs, messages) <=> i > Len(bs))
         /\ \A st \in States(messages) \ Ended(bs, messages) :
              \E m \in messages, i \in 1 .. Len(bs) : st = Read(m, i)
         /\ Failed \in Ended(bs, messages)
<1>1. ASSUME NEW m \in messages, NEW i \in Nat \ {0}
      PROVE  Read(m, i) \in States(messages) /\ (Read(m, i) \in Ended(bs, messages) <=> i > Len(bs))
  <2>1. Read(m, i) \in States(messages)
    BY Zenon, ReadState DEF States
  <2> QED BY <2>1, ReadFields DEF Ended, Unmarshalled
<1>2. Failed \in Ended(bs, messages)
  BY ReadFields DEF Ended, Unmarshalled, States
<1>3. ASSUME NEW st \in States(messages) \ Ended(bs, messages)
      PROVE  \E m \in messages, i \in 1 .. Len(bs) : st = Read(m, i)
  <2>1. IsRead(st, messages, Nat \ {0}) /\ st # Failed
    BY Zenon, <1>2, StateIsRead DEF States
  <2>2. PICK m \in messages, i \in Nat \ {0} : st = Read(m, i)
    BY <2>1 DEF IsRead
  <2>3. i \in 1 .. Len(bs)
    BY <1>1, <2>2
  <2> QED BY <2>2, <2>3
<1> QED BY <1>1, <1>2, <1>3

(* When every turn of an Unmarshal loop moves the index on or fails, what  *)
(* is left to read is a decreasing rank of it.                             *)
LEMMA TurnsCome ==
  ASSUME NEW bs \in Seq(Nat), NEW messages, NEW step, Turns(step, bs, messages)
  PROVE  LET rank == [st \in States(messages) |-> Rank(bs, st)] IN
         /\ Len(bs) + 1 \in Nat /\ rank \in [States(messages) -> 0 .. Len(bs) + 1]
         /\ \A st \in States(messages) \ Ended(bs, messages) : rank[step[st]] < rank[st]
<1> DEFINE S == States(messages)
           rank == [st \in S |-> Rank(bs, st)]
<1>1. ASSUME NEW st \in S PROVE Rank(bs, st) \in 0 .. Len(bs) + 1
  <2>1. IsRead(st, messages, Nat \ {0})
    BY Zenon, StateIsRead DEF States
  <2>2. \A v : \A n \in Nat \ {0} : Rank(bs, Read(v, n)) \in 0 .. Len(bs) + 1
    BY RankType
  <2>3. Rank(bs, Failed) \in 0 .. Len(bs) + 1
    BY RankType
  <2> QED BY <2>1, <2>2, <2>3 DEF IsRead
<1>2. ASSUME NEW st \in S \ Ended(bs, messages) PROVE rank[step[st]] < rank[st]
  <2>1. PICK m \in messages, i \in 1 .. Len(bs) : st = Read(m, i)
    BY EndedStates
  <2>2. IsRead(step[st], messages, i + 1 .. Len(bs) + 1) /\ step[st] \in S
    BY <2>1 DEF Turns
  <2>3. rank[step[st]] = Rank(bs, step[st]) /\ rank[st] = Rank(bs, st)
    BY <2>2
  <2> HIDE DEF rank
  <2>4. CASE step[st] = Failed
    <3>1. Rank(bs, step[st]) = 0 /\ Rank(bs, st) \in 1 .. Len(bs) + 1
      BY <2>1, <2>4, RankType
    <3> QED BY <2>3, <3>1
  <2>5. ASSUME NEW u, NEW n, n \in i + 1 .. Len(bs) + 1, step[st] = Read(u, n) PROVE rank[step[st]] < rank[st]
    <3>1. n \in Nat \ {0} /\ i \in Nat \ {0} /\ i <= Len(bs) /\ n > i
      BY <2>5
    <3>2. Rank(bs, Read(u, n)) < Rank(bs, Read(m, i))
      BY <3>1, RankType
    <3> QED BY <2>1, <2>3, <2>5, <3>2
  <2> QED BY <2>2, <2>4, <2>5 DEF IsRead
<1>3. rank \in [S -> 0 .. Len(bs) + 1]
  BY <1>1
<1>4. Len(bs) + 1 \in Nat
  OBVIOUS
<1> HIDE DEF rank
<1>5. /\ Len(bs) + 1 \in Nat /\ rank \in [S -> 0 .. Len(bs) + 1]
      /\ \A st \in S \ Ended(bs, messages) : rank[step[st]] < rank[st]
  BY <1>2, <1>3, <1>4
<1> QED BY <1>5 DEF rank

(* The loop of Unmarshal ends: it fails or it has read all of the bytes.   *)
LEMMA UnmarshalEnds ==
  ASSUME NEW bs \in Seq(Nat), NEW messages, NEW step, Turns(step, bs, messages)
  PROVE  /\ \E f \in [States(messages) -> States(messages)] :
              IsLoop(f, States(messages), Ended(bs, messages), step)
         /\ \A f : IsLoop(f, States(messages), Ended(bs, messages), step) =>
              \A m \in messages : IsRead(f[Read(m, 1)], messages, {Len(bs) + 1})
<1> DEFINE S == States(messages)
           D == Ended(bs, messages)
           N == Len(bs) + 1
           rank == [st \in S |-> Rank(bs, st)]
           G == {st \in S : IsRead(st, messages, 1 .. N)}
<1>1. N \in Nat /\ rank \in [S -> 0 .. N] /\ \A st \in S \ D : rank[step[st]] < rank[st]
  BY TurnsCome
<1>2. step \in [S \ D -> S]
  BY DEF Turns
<1>3. \E f \in [S -> S] : IsLoop(f, S, D, step)
  <2> HIDE DEF S, D, N, rank
  <2> QED BY Zenon, <1>1, <1>2, LoopExists
<1>4. ASSUME NEW st \in G \ D PROVE step[st] \in G
  <2>1. PICK m \in messages, i \in 1 .. Len(bs) : st = Read(m, i)
    BY EndedStates
  <2>2. IsRead(step[st], messages, i + 1 .. N) /\ step[st] \in S
    BY <2>1 DEF Turns
  <2>3. i + 1 .. N \subseteq 1 .. N
    OBVIOUS
  <2>4. IsRead(step[st], messages, 1 .. N)
    BY SMTT(30), <2>2, <2>3 DEF IsRead
  <2> QED BY <2>2, <2>4
<1>5. ASSUME NEW f, IsLoop(f, S, D, step), NEW m \in messages PROVE IsRead(f[Read(m, 1)], messages, {N})
  <2>1. G \in SUBSET S /\ Nearer(G, D, step, rank)
    BY <1>1, <1>4 DEF Nearer
  <2>2. Read(m, 1) \in G
    <3>1. Read(m, 1) \in S /\ 1 \in 1 .. N
      BY EndedStates
    <3> QED BY <3>1 DEF IsRead
  <2>3. f[Read(m, 1)] \in G \cap D
    <3> HIDE DEF G, S, D, N, rank
    <3> QED BY <1>1, <1>5, <2>1, <2>2, LoopStays
  <2>4. IsRead(f[Read(m, 1)], messages, 1 .. N) /\ f[Read(m, 1)] \in D
    BY <2>3
  <2>5. ASSUME NEW u \in messages, NEW n \in 1 .. N, f[Read(m, 1)] = Read(u, n) PROVE n = N
    <3>1. n \in Nat \ {0} /\ Read(u, n) \in D
      BY <2>4, <2>5
    <3>2. n > Len(bs)
      BY <3>1, EndedStates
    <3> QED BY <3>2
  <2> HIDE DEF N
  <2> QED BY SMTT(30), <2>4, <2>5 DEF IsRead
<1> QED BY Zenon, <1>3, <1>5


(* The Resource of locket.proto has the fields its Unmarshal decodes.      *)
LEMMA ResourceHasFields == HaveFields(Resources, ResourceFields)
<1>1. DOMAIN ResourceFields = 1 .. 5
  BY DEF ResourceFields
<1>2. ASSUME NEW n \in 1 .. 4 PROVE ResourceFields[n].kind = "string" /\ ResourceFields[n].name \in {"key", "owner", "value", "type"}
  BY <1>2 DEF ResourceFields, Field
<1>3. ResourceFields[5].kind = "enum" /\ ResourceFields[5].name = "code"
  BY DEF ResourceFields, Field
<1>4. ASSUME NEW n \in 1 .. 4 PROVE ResourceFields[n].kind \in Plain /\ Holds(Resources, ResourceFields[n])
  <2>1. ASSUME NEW name \in {"key", "owner", "value", "type"}, NEW m \in Resources
        PROVE  m[name] \in Bytes /\ \A v \in Bytes : [m EXCEPT ![name] = v] \in Resources
    BY DEF Resources
  <2> QED BY <1>2, <2>1 DEF Holds, Values, Plain
<1>5. ResourceFields[5].kind \in Plain /\ Holds(Resources, ResourceFields[5])
  <2>1. ASSUME NEW m \in Resources
        PROVE  m["code"] \in Int /\ \A v \in Int : [m EXCEPT !["code"] = v] \in Resources
    BY DEF Resources
  <2> QED BY <1>3, <2>1 DEF Holds, Values, Plain
<1>6. \A n \in 1 .. 5 : n \in 1 .. 4 \/ n = 5
  OBVIOUS
<1> QED BY <1>1, <1>4, <1>5, <1>6 DEF HaveFields, Kinds

(* A Resource nests no message.                                            *)
LEMMA ResourcePlain == \A n \in DOMAIN ResourceFields : ResourceFields[n].kind \in Plain
<1>1. DOMAIN ResourceFields = 1 .. 5
  BY DEF ResourceFields
<1>2. \A n \in 1 .. 5 : n \in {1, 2, 3, 4, 5}
  OBVIOUS
<1>3. \A n \in {1, 2, 3, 4, 5} : ResourceFields[n].kind \in Plain
  BY DEF ResourceFields, Field, Plain
<1> QED BY <1>1, <1>2, <1>3

(* One turn of Resource's Unmarshal (locket.pb.go:1329): a tag, then its   *)
(* field.                                                                  *)
ResourceStep(bs, st) == ResourceTurn(bs, st, DecodeVarint(bs, st.next))
(* The turns of that loop, as a function of its state.                     *)
ResourceSteps(bs) == [st \in States(Resources) \ Ended(bs, Resources) |-> ResourceStep(bs, st)]

(* A turn of Resource's Unmarshal keeps a Resource and moves the index on, *)
(* or fails.                                                               *)
LEMMA ResourceStepType ==
  ASSUME NEW bs \in Seq(Nat), NEW m \in Resources, NEW i \in Nat \ {0}
  PROVE  IsRead(ResourceStep(bs, Read(m, i)), Resources, i + 1 .. Len(bs) + 1)
<1> DEFINE N == i + 1 .. Len(bs) + 1
<1>0. ResourceStep(bs, Read(m, i)) = ResourceTurn(bs, Read(m, i), DecodeVarint(bs, i))
  BY ReadFields DEF ResourceStep
<1>1. CASE DecodeVarint(bs, i) = Failed
  BY <1>0, <1>1, ReadFields DEF ResourceTurn, IsRead
<1>2. ASSUME NEW t \in 0 .. Words - 1, NEW j \in N, DecodeVarint(bs, i) = Read(t, j)
      PROVE  IsRead(ResourceStep(bs, Read(m, i)), Resources, N)
  <2> DEFINE num == FieldNumber(Read(t, j))
             v == DecodePlain(bs, j, ResourceFields[num].kind)
  <2>1. ResourceStep(bs, Read(m, i)) = Turn(bs, ResourceFields, Read(m, i), Read(t, j), num, v)
    BY <1>0, <1>2, ReadFields DEF ResourceTurn, ResourceField
  <2>2. ASSUME num \in DOMAIN ResourceFields
        PROVE  IsRead(v, Values(ResourceFields[num].kind), N)
    <3>1. j \in Nat \ {0} /\ ResourceFields[num].kind \in Plain
      BY <2>2, ResourcePlain
    <3>2. IsRead(v, Values(ResourceFields[num].kind), j + 1 .. Len(bs) + 1)
      BY <3>1, DecodePlainType
    <3>3. j + 1 .. Len(bs) + 1 \subseteq N
      OBVIOUS
    <3> QED BY <3>2, <3>3 DEF IsRead
  <2> HIDE DEF num, v
  <2> QED BY <2>1, <2>2, ResourceHasFields, TurnType
<1>3. IsRead(DecodeVarint(bs, i), 0 .. Words - 1, N)
  BY DecodeVarintType
<1> QED BY <1>1, <1>2, <1>3 DEF IsRead

(* Every turn of that loop does so.                                        *)
LEMMA ResourceTurns ==
  ASSUME NEW bs \in Seq(Nat)
  PROVE  Turns(ResourceSteps(bs), bs, Resources)
<1> DEFINE S == States(Resources)
           D == Ended(bs, Resources)
<1>1. ASSUME NEW m \in Resources, NEW i \in 1 .. Len(bs)
      PROVE  /\ ResourceSteps(bs)[Read(m, i)] = ResourceStep(bs, Read(m, i))
             /\ IsRead(ResourceSteps(bs)[Read(m, i)], Resources, i + 1 .. Len(bs) + 1)
  <2>1. i \in Nat \ {0} /\ ~(i > Len(bs))
    OBVIOUS
  <2>2. Read(m, i) \in S \ D
    BY <2>1, EndedStates
  <2>3. ResourceSteps(bs)[Read(m, i)] = ResourceStep(bs, Read(m, i))
    BY <2>2 DEF ResourceSteps
  <2> QED BY <2>1, <2>3, ResourceStepType
<1>2. ASSUME NEW st \in S \ D PROVE ResourceStep(bs, st) \in S
  <2>1. PICK m \in Resources, i \in 1 .. Len(bs) : st = Read(m, i)
    BY EndedStates
  <2>2. IsRead(ResourceStep(bs, st), Resources, i + 1 .. Len(bs) + 1)
    BY <1>1, <2>1
  <2>3. i + 1 .. Len(bs) + 1 \subseteq Nat \ {0}
    OBVIOUS
  <2>4. IsRead(ResourceStep(bs, st), Resources, Nat \ {0})
    BY <2>2, <2>3 DEF IsRead
  <2> QED BY Zenon, <2>4, StateIsRead DEF States
<1>3. ResourceSteps(bs) \in [S \ D -> S]
  BY <1>2 DEF ResourceSteps
<1> QED BY <1>1, <1>3 DEF Turns

(* Resource's Unmarshal terminates on every buffer, so its loop exists as  *)
(* a function.                                                             *)
LEMMA ResourceLoopEquation ==
  ASSUME NEW bs \in Seq(Nat)
  PROVE  IsLoop(ResourceLoop(bs), States(Resources), Ended(bs, Resources), ResourceSteps(bs))
<1> DEFINE S == States(Resources)
           D == Ended(bs, Resources)
           step == ResourceSteps(bs)
           Is(f) == f = [st \in S |-> IF Unmarshalled(bs, st) THEN st ELSE f[ResourceStep(bs, st)]]
<1>1. PICK f \in [S -> S] : IsLoop(f, S, D, step)
  BY Zenon, ResourceTurns, UnmarshalEnds
<1>2. \A st \in S : st \in D <=> Unmarshalled(bs, st)
  BY DEF Ended
<1>3. \A st \in S \ D : step[st] = ResourceStep(bs, st)
  BY DEF ResourceSteps
<1>4. Is(f)
  <2> HIDE DEF S, D, step
  <2> QED BY <1>1, <1>2, <1>3 DEF IsLoop
<1>5. Is(ResourceLoop(bs))
  BY Zenon, <1>4 DEF ResourceLoop, ResourceStep
<1>6. \A st \in S : ResourceLoop(bs)[st] = IF Unmarshalled(bs, st) THEN st ELSE ResourceLoop(bs)[ResourceStep(bs, st)]
  <2> DEFINE g == ResourceLoop(bs)
  <2>1. Is(g)
    BY <1>5
  <2> HIDE DEF g, S
  <2>2. \A st \in S : g[st] = IF Unmarshalled(bs, st) THEN st ELSE g[ResourceStep(bs, st)]
    BY Zenon, <2>1
  <2> QED BY <2>2 DEF g
<1> HIDE DEF S, D, step
<1>7. IsLoop(ResourceLoop(bs), S, D, step)
  BY <1>2, <1>3, <1>6 DEF IsLoop
<1> QED BY <1>7 DEF S, D, step

(* Unmarshal of a Resource ends: it fails or has read all of the bytes.    *)
LEMMA UnmarshalResourceType ==
  ASSUME NEW bs \in Seq(Nat), NEW m \in Resources
  PROVE  IsRead(UnmarshalResource(bs, m), Resources, {Len(bs) + 1})
BY ResourceLoopEquation, ResourceTurns, UnmarshalEnds DEF UnmarshalResource

(* One turn of that loop, unfolded: inside the buffer it goes on from the  *)
(* next state, past the buffer it returns the message as it is.            *)
LEMMA ResourceLoopTurn ==
  ASSUME NEW bs \in Seq(Nat), NEW m \in Resources, NEW i \in Nat \ {0}
  PROVE  /\ i <= Len(bs) => ResourceLoop(bs)[Read(m, i)] = ResourceLoop(bs)[ResourceStep(bs, Read(m, i))]
         /\ i > Len(bs) => ResourceLoop(bs)[Read(m, i)] = Read(m, i)
<1>1. Read(m, i) \in States(Resources) /\ (Read(m, i) \in Ended(bs, Resources) <=> i > Len(bs))
  BY EndedStates
<1>2. i > Len(bs) => ResourceLoop(bs)[Read(m, i)] = Read(m, i)
  BY <1>1, ResourceLoopEquation DEF IsLoop
<1>3. i <= Len(bs) => ResourceSteps(bs)[Read(m, i)] = ResourceStep(bs, Read(m, i))
  BY <1>1 DEF ResourceSteps
<1>4. i <= Len(bs) => ResourceLoop(bs)[Read(m, i)] = ResourceLoop(bs)[ResourceStep(bs, Read(m, i))]
  BY <1>1, <1>3, ResourceLoopEquation DEF IsLoop
<1> QED BY <1>2, <1>4

-----------------------------------------------------------------------------
(* A new Resource, every field zero, is a Resource.                        *)
LEMMA BlankType == Blank \in Resources
BY DEF Blank, Resources, Bytes

(* A nested Resource reads as a Resource and moves the index on, or fails. *)
LEMMA DecodeNestedType ==
  ASSUME NEW bs \in Seq(Nat), NEW i \in Nat \ {0}, NEW m \in Resources
  PROVE  IsRead(DecodeNested(DecodeBytes(bs, i), m), Resources, i + 1 .. Len(bs) + 1)
<1> DEFINE N == i + 1 .. Len(bs) + 1
<1>1. CASE DecodeBytes(bs, i) = Failed
  BY <1>1, ReadFields DEF DecodeNested, IsRead
<1>2. ASSUME NEW s, s \in Bytes, NEW n, n \in N, DecodeBytes(bs, i) = Read(s, n)
      PROVE  IsRead(DecodeNested(DecodeBytes(bs, i), m), Resources, N)
  <2>1. DecodeNested(DecodeBytes(bs, i), m) = Moved(UnmarshalResource(s, m), n)
    BY <1>2, ReadFields DEF DecodeNested
  <2>2. IsRead(UnmarshalResource(s, m), Resources, {Len(s) + 1})
    BY <1>2, UnmarshalResourceType DEF Bytes
  <2>3. CASE UnmarshalResource(s, m) = Failed
    BY <2>1, <2>3, ReadFields DEF Moved, IsRead
  <2>4. ASSUME NEW u, u \in Resources, NEW k, UnmarshalResource(s, m) = Read(u, k)
        PROVE  IsRead(DecodeNested(DecodeBytes(bs, i), m), Resources, N)
    <3>1. Moved(UnmarshalResource(s, m), n) = Read(u, n)
      BY <2>4, ReadFields DEF Moved
    <3> HIDE DEF N
    <3> QED BY SMTT(30), <1>2, <2>1, <2>4, <3>1 DEF IsRead
  <2> QED BY <2>2, <2>3, <2>4 DEF IsRead
<1>3. IsRead(DecodeBytes(bs, i), Bytes, N)
  BY DecodeBytesType
<1> QED BY <1>1, <1>2, <1>3 DEF IsRead

(* A field of any kind reads as a value of its kind and moves the index    *)
(* on, or fails.                                                           *)
LEMMA DecodeFieldType ==
  ASSUME NEW bs \in Seq(Nat), NEW i \in Nat \ {0}, NEW kind \in Kinds, NEW old \in Values(kind)
  PROVE  IsRead(DecodeField(bs, i, kind, old), Values(kind), i + 1 .. Len(bs) + 1)
<1> DEFINE N == i + 1 .. Len(bs) + 1
<1>1. CASE kind \in Plain
  <2>1. DecodeField(bs, i, kind, old) = DecodePlain(bs, i, kind)
    BY <1>1 DEF DecodeField, Plain
  <2> QED BY <1>1, <2>1, DecodePlainType
<1>2. CASE kind = "message"
  <2> DEFINE r == IF old = Nil THEN Blank ELSE old
  <2>1. Values(kind) = Resources \cup {Nil}
    BY <1>2 DEF Values
  <2>2. r \in Resources
    BY <2>1, BlankType
  <2>3. DecodeField(bs, i, kind, old) = DecodeNested(DecodeBytes(bs, i), r)
    BY <1>2 DEF DecodeField
  <2> HIDE DEF r
  <2>4. IsRead(DecodeField(bs, i, kind, old), Resources, N)
    BY <2>2, <2>3, DecodeNestedType
  <2> QED BY <2>1, <2>4 DEF IsRead
<1>3. CASE kind = "repeated"
  <2>1. Values(kind) = Seq(Resources)
    BY <1>3 DEF Values
  <2>2. DecodeField(bs, i, kind, old) = Appended(old, DecodeNested(DecodeBytes(bs, i), Blank))
    BY <1>3 DEF DecodeField
  <2>3. IsRead(DecodeNested(DecodeBytes(bs, i), Blank), Resources, N)
    BY BlankType, DecodeNestedType
  <2>4. CASE DecodeNested(DecodeBytes(bs, i), Blank) = Failed
    BY <2>2, <2>4, ReadFields DEF Appended, IsRead
  <2>5. ASSUME NEW u, u \in Resources, NEW k, k \in N, DecodeNested(DecodeBytes(bs, i), Blank) = Read(u, k)
        PROVE  IsRead(DecodeField(bs, i, kind, old), Values(kind), N)
    <3>1. DecodeField(bs, i, kind, old) = Read(Append(old, u), k)
      BY <2>2, <2>5, ReadFields DEF Appended
    <3>2. Append(old, u) \in Values(kind)
      BY SMTT(30), <2>1, <2>5
    <3> HIDE DEF N
    <3> QED BY <2>5, <3>1, <3>2 DEF IsRead
  <2> QED BY <2>3, <2>4, <2>5 DEF IsRead
<1> QED BY <1>1, <1>2, <1>3 DEF Kinds

(* One turn of a request's or reply's Unmarshal: a tag, then its field.    *)
MessageStep(bs, fields, st) == MessageTurn(bs, fields, st, DecodeVarint(bs, st.next))
(* The turns of that loop, as a function of its state.                     *)
MessageSteps(bs, fields, messages) ==
  [st \in States(messages) \ Ended(bs, messages) |-> MessageStep(bs, fields, st)]

(* A turn of a message's Unmarshal keeps a message and moves the index on, *)
(* or fails.                                                               *)
LEMMA MessageStepType ==
  ASSUME NEW bs \in Seq(Nat), NEW fields, NEW messages, HaveFields(messages, fields),
         NEW m \in messages, NEW i \in Nat \ {0}
  PROVE  IsRead(MessageStep(bs, fields, Read(m, i)), messages, i + 1 .. Len(bs) + 1)
<1> DEFINE N == i + 1 .. Len(bs) + 1
<1>0. MessageStep(bs, fields, Read(m, i)) = MessageTurn(bs, fields, Read(m, i), DecodeVarint(bs, i))
  BY ReadFields DEF MessageStep
<1>1. CASE DecodeVarint(bs, i) = Failed
  BY SMTT(30), <1>0, <1>1, ReadFields DEF MessageTurn, IsRead
<1>2. ASSUME NEW t \in 0 .. Words - 1, NEW j \in N, DecodeVarint(bs, i) = Read(t, j)
      PROVE  IsRead(MessageStep(bs, fields, Read(m, i)), messages, N)
  <2> DEFINE num == FieldNumber(Read(t, j))
             v == DecodeField(bs, j, fields[num].kind, m[fields[num].name])
  <2>1. MessageStep(bs, fields, Read(m, i)) = Turn(bs, fields, Read(m, i), Read(t, j), num, v)
    BY SMTT(30), <1>0, <1>2, ReadFields DEF MessageTurn, MessageField
  <2>2. ASSUME num \in DOMAIN fields
        PROVE  IsRead(v, Values(fields[num].kind), N)
    <3>1. j \in Nat \ {0}
      OBVIOUS
    <3>2. fields[num].kind \in Kinds /\ m[fields[num].name] \in Values(fields[num].kind)
      BY SMTT(30), <2>2 DEF HaveFields, Holds
    <3>3. IsRead(v, Values(fields[num].kind), j + 1 .. Len(bs) + 1)
      BY <3>1, <3>2, DecodeFieldType
    <3>4. j + 1 .. Len(bs) + 1 \subseteq N
      OBVIOUS
    <3> QED BY <3>3, <3>4 DEF IsRead
  <2> HIDE DEF num, v
  <2> QED BY SMTT(30), <2>1, <2>2, TurnType
<1>3. IsRead(DecodeVarint(bs, i), 0 .. Words - 1, N)
  BY DecodeVarintType
<1> QED BY <1>1, <1>2, <1>3 DEF IsRead

(* Every turn of that loop does so.                                        *)
LEMMA MessageTurns ==
  ASSUME NEW bs \in Seq(Nat), NEW fields, NEW messages, HaveFields(messages, fields)
  PROVE  Turns(MessageSteps(bs, fields, messages), bs, messages)
<1> DEFINE S == States(messages)
           D == Ended(bs, messages)
           step == MessageSteps(bs, fields, messages)
<1>1. ASSUME NEW m \in messages, NEW i \in 1 .. Len(bs)
      PROVE  /\ step[Read(m, i)] = MessageStep(bs, fields, Read(m, i))
             /\ IsRead(step[Read(m, i)], messages, i + 1 .. Len(bs) + 1)
  <2>1. i \in Nat \ {0} /\ ~(i > Len(bs))
    OBVIOUS
  <2>2. Read(m, i) \in S \ D
    BY <2>1, EndedStates
  <2>3. step[Read(m, i)] = MessageStep(bs, fields, Read(m, i))
    BY <2>2 DEF MessageSteps
  <2> QED BY <2>1, <2>3, MessageStepType
<1>2. ASSUME NEW st \in S \ D PROVE MessageStep(bs, fields, st) \in S
  <2>1. PICK m \in messages, i \in 1 .. Len(bs) : st = Read(m, i)
    BY EndedStates
  <2>2. IsRead(MessageStep(bs, fields, st), messages, i + 1 .. Len(bs) + 1)
    BY <1>1, <2>1
  <2>3. i + 1 .. Len(bs) + 1 \subseteq Nat \ {0}
    OBVIOUS
  <2>4. IsRead(MessageStep(bs, fields, st), messages, Nat \ {0})
    BY <2>2, <2>3 DEF IsRead
  <2> QED BY Zenon, <2>4, StateIsRead DEF States
<1>3. step \in [S \ D -> S]
  BY <1>2 DEF MessageSteps
<1> QED BY <1>1, <1>3 DEF Turns

(* Every message's Unmarshal terminates on every buffer, so its loop       *)
(* exists as a function.                                                   *)
LEMMA MessageLoopEquation ==
  ASSUME NEW bs \in Seq(Nat), NEW fields, NEW messages, HaveFields(messages, fields)
  PROVE  IsLoop(MessageLoop(bs, fields, messages), States(messages), Ended(bs, messages),
                MessageSteps(bs, fields, messages))
<1> DEFINE S == States(messages)
           D == Ended(bs, messages)
           step == MessageSteps(bs, fields, messages)
           g == MessageLoop(bs, fields, messages)
           Is(f) == f = [st \in S |-> IF Unmarshalled(bs, st) THEN st ELSE f[MessageStep(bs, fields, st)]]
<1>1. PICK f \in [S -> S] : IsLoop(f, S, D, step)
  BY Zenon, MessageTurns, UnmarshalEnds
<1>2. \A st \in S : st \in D <=> Unmarshalled(bs, st)
  BY DEF Ended
<1>3. \A st \in S \ D : step[st] = MessageStep(bs, fields, st)
  BY DEF MessageSteps
<1>4. Is(f)
  <2> HIDE DEF S, D, step
  <2> QED BY <1>1, <1>2, <1>3 DEF IsLoop
<1>5. Is(g)
  BY Zenon, <1>4 DEF MessageLoop, MessageStep
<1> HIDE DEF S, D, step, g
<1>6. \A st \in S : g[st] = IF Unmarshalled(bs, st) THEN st ELSE g[MessageStep(bs, fields, st)]
  BY Zenon, <1>5
<1>7. IsLoop(g, S, D, step)
  BY <1>2, <1>3, <1>6 DEF IsLoop
<1> QED BY <1>7 DEF S, D, step, g

(* One turn of that loop, unfolded.                                        *)
LEMMA MessageLoopTurn ==
  ASSUME NEW bs \in Seq(Nat), NEW fields, NEW messages, HaveFields(messages, fields),
         NEW m \in messages, NEW i \in Nat \ {0}
  PROVE  LET loop == MessageLoop(bs, fields, messages) IN
         /\ i <= Len(bs) => loop[Read(m, i)] = loop[MessageStep(bs, fields, Read(m, i))]
         /\ i > Len(bs) => loop[Read(m, i)] = Read(m, i)
<1> DEFINE loop == MessageLoop(bs, fields, messages)
           step == MessageSteps(bs, fields, messages)
<1>1. Read(m, i) \in States(messages) /\ (Read(m, i) \in Ended(bs, messages) <=> i > Len(bs))
  BY EndedStates
<1>2. IsLoop(loop, States(messages), Ended(bs, messages), step)
  BY MessageLoopEquation
<1>3. i <= Len(bs) => step[Read(m, i)] = MessageStep(bs, fields, Read(m, i))
  BY <1>1 DEF MessageSteps
<1> HIDE DEF loop, step
<1>4. i > Len(bs) => loop[Read(m, i)] = Read(m, i)
  BY SMTT(30), <1>1, <1>2 DEF IsLoop
<1>5. i <= Len(bs) => loop[Read(m, i)] = loop[MessageStep(bs, fields, Read(m, i))]
  BY <1>1, <1>2, <1>3 DEF IsLoop
<1> QED BY <1>4, <1>5 DEF loop
-----------------------------------------------------------------------------
(* Fields of a later locket.proto                                          *)

(* The parts of a byte string are byte strings, and no longer.             *)
LEMMA PartsType ==
  ASSUME NEW x \in Seq(Nat)
  PROVE  \A y \in Beginnings(x) \cup Endings(x) : y \in Seq(Nat) /\ Len(y) <= Len(x)
<1>1. ASSUME NEW i \in 1 .. Len(x) + 1, NEW j \in 0 .. Len(x)
      PROVE  SubSeq(x, i, j) \in Seq(Nat) /\ Len(SubSeq(x, i, j)) <= Len(x)
  <2>1. SubSeq(x, i, j) \in Seq(Nat)
    OBVIOUS
  <2>2. Len(SubSeq(x, i, j)) = IF i <= j THEN j - i + 1 ELSE 0
    OBVIOUS
  <2>3. Len(SubSeq(x, i, j)) <= Len(x)
    BY <2>2
  <2> QED BY Zenon, <2>1, <2>3
<1>2. 1 \in 1 .. Len(x) + 1 /\ Len(x) \in 0 .. Len(x)
  OBVIOUS
<1> QED BY Zenon, <1>1, <1>2 DEF Beginnings, Endings

(* A tag holds the number of its field and its wire type.                  *)
LEMMA TagFacts ==
  ASSUME NEW num \in FieldNumbers, NEW w \in 0 .. 7
  PROVE  /\ 8 * num + w \in 0 .. Words - 1 /\ num \in Nat
         /\ (8 * num + w) % 8 = w
         /\ \A j : FieldNumber(Read(8 * num + w, j)) = num
<1> DEFINE e == EnumBits - 3
           p == Pow2[e]
           t == 8 * num + w
<1>1. e \in Nat /\ e + 1 \in Nat /\ e + 2 \in Nat /\ e + 3 = EnumBits /\ EnumBits < WordBits
      /\ e + 2 = EnumBits - 1 /\ (e + 1) + 1 = e + 2 /\ (e + 2) + 1 = EnumBits
      /\ WordBits \in Nat /\ EnumBits \in Nat
  BY WidthAssumption
<1> HIDE DEF e
<1>2. p \in Nat \ {0} /\ Pow2[e + 1] = 2 * p /\ Pow2[e + 2] = 2 * Pow2[e + 1]
      /\ Pow2[EnumBits] = 2 * Pow2[e + 2]
  <2>1. e \in 0 .. WordBits /\ e < WordBits /\ e + 1 < WordBits /\ e + 2 < WordBits
    BY <1>1
  <2>2. p \in Nat \ {0}
    BY <2>1, Pow2Facts
  <2>3. Pow2[e + 1] = 2 * Pow2[e] /\ Pow2[(e + 1) + 1] = 2 * Pow2[e + 1] /\ Pow2[(e + 2) + 1] = 2 * Pow2[e + 2]
    BY <1>1, <2>1, Pow2Facts
  <2> QED BY <1>1, <2>2, <2>3
<1>3. num \in 1 .. p - 1
  BY DEF FieldNumbers, e
<1> HIDE DEF p
<1>4. Pow2[EnumBits] = 8 * p /\ Pow2[EnumBits - 1] = 4 * p
  BY <1>1, <1>2
<1>5. Words >= Pow2[EnumBits]
  <2>1. PICK c \in Nat \ {0} : Words = c * Pow2[EnumBits]
    BY EnumDividesWord
  <2> DEFINE q == Pow2[EnumBits]
  <2>2. q \in Nat /\ Words = c * q
    BY <1>2, <1>4, <2>1
  <2> HIDE DEF q
  <2>3. c * q >= q
    BY <2>2
  <2> QED BY <2>2, <2>3 DEF q
<1>6. t \in 0 .. Words - 1 /\ num \in Nat /\ t % 8 = w /\ t \div 8 = num
  <2>1. Words \in Nat
    BY WordsType
  <2>2. t \in Nat /\ t < 8 * p /\ num \in Nat
    BY <1>2, <1>3
  <2>3. t % 8 = w /\ t \div 8 = num
    BY <2>2
  <2> HIDE DEF t
  <2>4. t \in 0 .. Words - 1
    BY <1>2, <1>4, <1>5, <2>1, <2>2
  <2> QED BY Zenon, <2>2, <2>3, <2>4
<1>7. Signed(num, EnumBits) = num
  <2>1. num % Pow2[EnumBits] = num
    <3> DEFINE q == 8 * p
    <3>1. num \in 0 .. q - 1 /\ q \in Nat \ {0}
      BY <1>2, <1>3
    <3>2. Pow2[EnumBits] = q
      BY <1>4
    <3> HIDE DEF q
    <3>3. num % q = num
      BY Zenon, <3>1, Modulo
    <3> QED BY Zenon, <3>2, <3>3
  <2>2. ~(num >= Pow2[EnumBits - 1])
    BY <1>2, <1>3, <1>4
  <2> QED BY Zenon, <2>1, <2>2 DEF Signed, TwosComplement
<1>8. ASSUME NEW j PROVE FieldNumber(Read(t, j)) = num
  <2>1. FieldNumber(Read(t, j)) = Signed(t \div 8, EnumBits)
    BY Zenon, ReadFields DEF FieldNumber
  <2> QED BY Zenon, <1>6, <1>7, <2>1
<1> QED BY <1>6, <1>8

(* Passing over what was read.                                             *)
LEMMA PastRead ==
  ASSUME NEW v, NEW n, NEW depth
  PROVE  Past(Read(v, n), depth) = Read(depth, n) /\ (v >= 0 => PastLength(Read(v, n), depth) = Read(depth, n + v))
BY Zenon, ReadFields DEF Past, PastLength

(* What a tag of wire type w announces is passed over to its last byte.    *)
LEMMA PayloadSkipped ==
  ASSUME NEW bs \in Seq(Nat), NEW n \in Nat \ {0}, NEW t \in Nat, NEW y \in Strings, NEW depth \in Nat,
         Payload(t % 8, y), At(bs, n, y)
  PROVE  SkipTagged(bs, Read(t, n), depth) = Read(depth, n + Len(y))
<1> DEFINE w == t % 8
           d == SkipTagged(bs, Read(t, n), depth)
<1>1. d = CASE w = 0 -> Past(DecodeVarint(bs, n), depth)
            [] w = 1 -> Read(depth, n + 8)
            [] w = 2 -> PastLength(DecodeLength(bs, n), depth)
            [] w = 3 -> Read(depth + 1, n)
            [] w = 4 -> Read(IF depth = 0 THEN 0 ELSE depth - 1, n)
            [] w = 5 -> Read(depth, n + 4)
            [] OTHER -> Failed
  BY ReadFields DEF SkipTagged
<1>2. Payload(w, y)
  OBVIOUS
<1> HIDE DEF w, d
<1>3. CASE w = 0 /\ \E v \in 0 .. Words - 1 : y = EncodeVarint[v]
  <2>1. PICK v \in 0 .. Words - 1 : y = EncodeVarint[v]
    BY <1>3
  <2>2. DecodeVarint(bs, n) = Read(v, n + Sov[v]) /\ Len(y) = Sov[v]
    BY SMTT(30), <2>1, VarintAt, VarintShape
  <2>3. d = Past(DecodeVarint(bs, n), depth)
    BY <1>1, <1>3
  <2>4. d = Read(depth, n + Sov[v])
    BY SMTT(30), <2>2, <2>3, PastRead
  <2> QED BY Zenon, <2>2, <2>4 DEF d
<1>4. CASE w = 2 /\ \E b \in Endings(y) : y = EncodeVarint[Len(b)] \o b
  <2>1. PICK b \in Endings(y) : y = EncodeVarint[Len(b)] \o b
    BY Zenon, <1>4
  <2> DEFINE k == Len(b)
             h == Pow2[WordBits - 1]
  <2>2. y \in Seq(Nat) /\ Len(y) \in 0 .. Pow2[WordBits - 5]
    BY StringsType
  <2>3. b \in Seq(Nat) /\ k <= Len(y) /\ k \in Nat
    BY <2>2, PartsType
  <2>4. k \in 0 .. Words - 1 /\ k \in IntsOf(WordBits)
    <3>1. k \in Nat /\ k < h /\ h \in Nat /\ k < Words
      BY <2>2, <2>3, Room
    <3> HIDE DEF k, h
    <3>2. k \in -h .. h - 1
      BY <3>1
    <3> QED BY <3>1, <3>2, WordsType DEF IntsOf, h
  <2> HIDE DEF h
  <2>5. EncodeVarint[k] \in Seq(Nat) /\ Len(EncodeVarint[k]) = Sov[k] /\ Sov[k] \in Nat
    BY <2>4, VarintShape
  <2>6. At(bs, n, EncodeVarint[k]) /\ Len(y) = Sov[k] + k
    <3>1. At(bs, n, EncodeVarint[k] \o b) /\ Len(bs) \in Nat
      BY <2>1
    <3>2. At(bs, n, EncodeVarint[k])
      BY <2>3, <2>5, <3>1, AtJoin
    <3>3. Len(EncodeVarint[k] \o b) = Len(EncodeVarint[k]) + Len(b)
      BY <2>3, <2>5, Join
    <3> QED BY Zenon, <2>1, <2>5, <3>2, <3>3
  <2>7. DecodeVarint(bs, n) = Read(k, n + Sov[k])
    BY <2>4, <2>6, VarintAt
  <2>8. Signed(k, WordBits) = k
    BY Zenon, <2>4, SignedWord, Fits
  <2>9. DecodeLength(bs, n) = Read(k, n + Sov[k])
    <3>1. DecodeLength(bs, n) = DecodeSigned(Read(k, n + Sov[k]), WordBits)
      BY Zenon, <2>7 DEF DecodeLength
    <3>2. DecodeSigned(Read(k, n + Sov[k]), WordBits) = Read(Signed(k, WordBits), n + Sov[k])
      BY Zenon, ReadFields DEF DecodeSigned
    <3> QED BY Zenon, <2>8, <3>1, <3>2
  <2>10. d = PastLength(DecodeLength(bs, n), depth)
    BY <1>1, <1>4
  <2> HIDE DEF k
  <2>11. k >= 0 /\ (n + Sov[k]) + k = n + Len(y)
    BY <2>3, <2>5, <2>6
  <2>12. d = Read(depth, (n + Sov[k]) + k)
    BY SMTT(30), <2>9, <2>10, <2>11, PastRead
  <2> QED BY Zenon, <2>11, <2>12 DEF d
<1>5. CASE w = 1 /\ Len(y) = 8
  BY <1>1, <1>5 DEF d
<1>6. CASE w = 5 /\ Len(y) = 4
  BY <1>1, <1>6 DEF d
<1> QED BY Zenon, <1>2, <1>3, <1>4, <1>5, <1>6 DEF Payload

(* A whole field that is not a group, its tag included.                    *)
LEMMA PlainFieldAt ==
  ASSUME NEW bs \in Seq(Nat), NEW i \in Nat \ {0}, NEW num \in FieldNumbers, NEW x \in Strings,
         PlainField(num, x), At(bs, i, x), NEW depth \in Nat
  PROVE  /\ \E w \in {0, 1, 2, 5}, k \in Nat : DecodeVarint(bs, i) = Read(8 * num + w, k)
         /\ SkipTagged(bs, DecodeVarint(bs, i), depth) = Read(depth, i + Len(x))
<1>1. PICK w \in {0, 1, 2, 5}, y \in Endings(x) : x = EncodedTag(num, w) \o y /\ Payload(w, y)
  BY Zenon DEF PlainField
<1> DEFINE t == 8 * num + w
           c == EncodeVarint[t]
<1>2. t \in 0 .. Words - 1 /\ t % 8 = w /\ t \in Nat
  <2>1. w \in 0 .. 7
    OBVIOUS
  <2> QED BY Zenon, <2>1, TagFacts, WordsType
<1>3. x \in Seq(Nat) /\ Len(x) \in 0 .. Pow2[WordBits - 5]
  BY StringsType
<1>4. y \in Seq(Nat) /\ Len(y) <= Len(x)
  BY <1>3, PartsType
<1>5. y \in Strings
  <2>1. Len(y) <= Pow2[WordBits - 5]
    BY <1>3, <1>4, Room
  <2> QED BY <1>4, <2>1 DEF Strings, Bytes
<1>6. x = c \o y
  BY Zenon, <1>1 DEF EncodedTag
<1> HIDE DEF t
<1>7. c \in Seq(Nat) /\ Len(c) = Sov[t] /\ Sov[t] \in Nat \ {0}
  BY <1>2, VarintShape
<1> HIDE DEF c
<1>8. At(bs, i, c) /\ At(bs, i + Len(c), y) /\ Len(x) = Len(c) + Len(y)
  <2>1. At(bs, i, c \o y) /\ Len(bs) \in Nat
    BY <1>6
  <2>2. At(bs, i, c) /\ At(bs, i + Len(c), y)
    BY Zenon, <1>4, <1>7, <2>1, AtJoin
  <2>3. Len(c \o y) = Len(c) + Len(y)
    BY Zenon, <1>4, <1>7, Join
  <2> QED BY Zenon, <1>6, <2>2, <2>3
<1>9. DecodeVarint(bs, i) = Read(t, i + Len(c))
  BY Zenon, <1>2, <1>7, <1>8, VarintAt DEF c
<1>10. SkipTagged(bs, Read(t, i + Len(c)), depth) = Read(depth, (i + Len(c)) + Len(y))
  <2>1. i + Len(c) \in Nat \ {0}
    BY <1>7
  <2>2. Payload(t % 8, y)
    BY Zenon, <1>1, <1>2
  <2> DEFINE n == i + Len(c)
  <2>3. n \in Nat \ {0} /\ At(bs, n, y)
    BY Zenon, <1>8, <2>1
  <2> HIDE DEF n
  <2>4. SkipTagged(bs, Read(t, n), depth) = Read(depth, n + Len(y))
    BY SMTT(30), <1>2, <1>5, <2>2, <2>3, PayloadSkipped
  <2> QED BY Zenon, <2>4 DEF n
<1>11. (i + Len(c)) + Len(y) = i + Len(x) /\ i + Len(c) \in Nat
  BY <1>4, <1>7, <1>8
<1> QED BY Zenon, <1>9, <1>10, <1>11 DEF t

(* The turns of skipLocket, one at a time.                                 *)
LEMMA SkipLoopTurn ==
  ASSUME NEW bs \in Seq(Nat), NEW n \in Nat \ {0}
  PROVE  /\ SkipLoop(bs)[Read(0, n)] = Read(0, n)
         /\ SkipLoop(bs)[Read(1, n)] = SkipLoop(bs)[SkipTagged(bs, DecodeVarint(bs, n), 1)]
<1>1. Read(0, n) \in SkipStates /\ Read(1, n) \in SkipStates
  BY DEF SkipStates, Read
<1>2. Read(0, n) \in SkipDone /\ Read(1, n) \notin SkipDone
  BY <1>1, ReadFields DEF SkipDone
<1>3. IsLoop(SkipLoop(bs), SkipStates, SkipDone, SkipSteps(bs))
  BY SkipLoopEquation
<1>4. SkipSteps(bs)[Read(1, n)] = SkipTagged(bs, DecodeVarint(bs, n), 1)
  BY <1>1, <1>2, ReadFields DEF SkipSteps, SkipStep
<1>5. SkipLoop(bs)[Read(0, n)] = Read(0, n)
  BY Zenon, <1>1, <1>2, <1>3 DEF IsLoop
<1>6. SkipLoop(bs)[Read(1, n)] = SkipLoop(bs)[SkipSteps(bs)[Read(1, n)]]
  BY Zenon, <1>1, <1>2, <1>3 DEF IsLoop
<1> QED BY Zenon, <1>4, <1>5, <1>6

(* The tags that open and close a group.                                   *)
LEMMA GroupTagAt ==
  ASSUME NEW bs \in Seq(Nat), NEW i \in Nat \ {0}, NEW num \in FieldNumbers, NEW w \in {3, 4},
         At(bs, i, EncodedTag(num, w))
  PROVE  LET c == EncodedTag(num, w) IN
         /\ c \in Seq(Nat) /\ DecodeVarint(bs, i) = Read(8 * num + w, i + Len(c))
         /\ SkipTagged(bs, DecodeVarint(bs, i), IF w = 3 THEN 0 ELSE 1)
              = Read(IF w = 3 THEN 1 ELSE 0, i + Len(c))
<1> DEFINE t == 8 * num + w
           c == EncodedTag(num, w)
<1>1. t \in 0 .. Words - 1 /\ t % 8 = w
  <2>1. w \in 0 .. 7
    OBVIOUS
  <2> QED BY Zenon, <2>1, TagFacts
<1>2. c = EncodeVarint[t]
  BY DEF EncodedTag
<1> HIDE DEF t, c
<1>3. c \in Seq(Nat) /\ DecodeVarint(bs, i) = Read(t, i + Len(c))
  <2>1. At(bs, i, EncodeVarint[t])
    BY Zenon, <1>2 DEF c
  <2>2. DecodeVarint(bs, i) = Read(t, i + Sov[t])
    BY Zenon, <1>1, <2>1, VarintAt
  <2>3. EncodeVarint[t] \in Seq(Nat) /\ Len(EncodeVarint[t]) = Sov[t]
    BY Zenon, <1>1, VarintShape
  <2> QED BY Zenon, <1>2, <2>2, <2>3
<1>4. \A n, depth : /\ w = 3 => SkipTagged(bs, Read(t, n), depth) = Read(depth + 1, n)
                    /\ w = 4 => SkipTagged(bs, Read(t, n), depth) = Read(IF depth = 0 THEN 0 ELSE depth - 1, n)
  BY <1>1, ReadFields DEF SkipTagged
<1>5. SkipTagged(bs, Read(t, i + Len(c)), IF w = 3 THEN 0 ELSE 1) = Read(IF w = 3 THEN 1 ELSE 0, i + Len(c))
  <2>1. CASE w = 3
    BY <1>4, <2>1
  <2>2. CASE w = 4
    BY <1>4, <2>2
  <2> QED BY <2>1, <2>2
<1> QED BY Zenon, <1>3, <1>5 DEF t, c

(* A field of a later version is passed over exactly, whatever its wire    *)
(* type.                                                                   *)
LEMMA LaterFieldSkipped ==
  ASSUME NEW x, LaterField(x)
  PROVE  /\ x \in Seq(Nat)
         /\ \E t \in 0 .. Words - 1, k \in Nat :
              DecodeVarint(x, 1) = Read(t, k) /\ t % 8 # 4 /\ FieldNumber(Read(t, k)) > Len(ResourceFields)
         /\ SkipLocket(x, 1) = Read(0, Len(x) + 1)
<1>1. PICK num \in FieldNumbers : num > Len(ResourceFields) /\ (PlainField(num, x) \/ GroupField(num, x))
  BY Zenon DEF LaterField
<1>2. x \in Strings /\ x \in Seq(Nat) /\ Len(x) \in 0 .. Pow2[WordBits - 5] /\ Len(x) \in Nat
  BY StringsType DEF LaterField
<1>3. At(x, 1, x) /\ 1 \in Nat \ {0} /\ 0 \in Nat /\ 1 + Len(x) = Len(x) + 1 /\ Len(x) + 1 \in Nat \ {0}
  BY <1>2, AtWhole
<1>4. ASSUME NEW w \in {0, 1, 2, 3, 5}, NEW k \in Nat, DecodeVarint(x, 1) = Read(8 * num + w, k)
      PROVE  \E t \in 0 .. Words - 1, n \in Nat :
               DecodeVarint(x, 1) = Read(t, n) /\ t % 8 # 4 /\ FieldNumber(Read(t, n)) > Len(ResourceFields)
  <2>1. w \in 0 .. 7 /\ w # 4
    OBVIOUS
  <2>2. 8 * num + w \in 0 .. Words - 1 /\ (8 * num + w) % 8 = w /\ FieldNumber(Read(8 * num + w, k)) = num
    BY Zenon, <2>1, TagFacts
  <2> QED BY Zenon, <1>1, <1>4, <2>1, <2>2
<1>5. CASE PlainField(num, x)
  <2>1. /\ \E w \in {0, 1, 2, 5}, k \in Nat : DecodeVarint(x, 1) = Read(8 * num + w, k)
        /\ SkipTagged(x, DecodeVarint(x, 1), 0) = Read(0, 1 + Len(x))
    BY SMTT(30), <1>2, <1>3, <1>5, PlainFieldAt
  <2>2. SkipLocket(x, 1) = Read(0, Len(x) + 1)
    <3>1. SkipLocket(x, 1) = SkipLoop(x)[Read(0, Len(x) + 1)]
      BY Zenon, <1>3, <2>1 DEF SkipLocket
    <3> QED BY Zenon, <1>2, <1>3, <3>1, SkipLoopTurn
  <2> QED BY Zenon, <1>2, <1>4, <2>1, <2>2
<1>6. CASE GroupField(num, x)
  <2>1. PICK y \in Endings(x) : /\ x = EncodedTag(num, 3) \o y
                                /\ \E g \in Beginnings(y) : /\ y = g \o EncodedTag(num, 4)
                                                            /\ g = <<>> \/ \E k \in FieldNumbers : PlainField(k, g)
    BY Zenon, <1>6 DEF GroupField
  <2>2. PICK g \in Beginnings(y) : y = g \o EncodedTag(num, 4) /\ (g = <<>> \/ \E k \in FieldNumbers : PlainField(k, g))
    BY Zenon, <2>1
  <2> DEFINE c == EncodedTag(num, 3)
             e == EncodedTag(num, 4)
             a == 1 + Len(c)
             b == a + Len(g)
  <2>3. y \in Seq(Nat) /\ Len(y) <= Len(x) /\ g \in Seq(Nat) /\ Len(g) <= Len(y)
    BY Zenon, <1>2, PartsType
  <2>4. c \in Seq(Nat) /\ e \in Seq(Nat)
    <3>1. ASSUME NEW w \in 0 .. 7 PROVE EncodedTag(num, w) \in Seq(Nat)
      <4>1. 8 * num + w \in 0 .. Words - 1
        BY Zenon, TagFacts
      <4>2. EncodeVarint[8 * num + w] \in Seq(Nat)
        BY Zenon, <4>1, VarintShape
      <4> QED BY Zenon, <4>2 DEF EncodedTag
    <3> QED BY <3>1
  <2>5. x = c \o y /\ y = g \o e
    BY Zenon, <2>1, <2>2
  <2> HIDE DEF c, e
  <2>6. a \in Nat \ {0} /\ b \in Nat \ {0} /\ Len(g) \in Nat /\ Len(e) \in Nat
    BY <2>3, <2>4
  <2>7. At(x, 1, c) /\ At(x, a, g) /\ At(x, b, e) /\ b + Len(e) = Len(x) + 1
    <3>1. At(x, 1, c) /\ At(x, 1 + Len(c), y)
      <4>1. At(x, 1, c \o y)
        BY Zenon, <1>3, <2>5
      <4> QED BY Zenon, <1>2, <1>3, <2>3, <2>4, <4>1, AtJoin
    <3>2. At(x, a, g) /\ At(x, a + Len(g), e)
      <4>1. At(x, a, g \o e)
        BY Zenon, <2>5, <3>1 DEF a
      <4> HIDE DEF a
      <4> QED BY Zenon, <1>2, <2>3, <2>4, <2>6, <4>1, AtJoin
    <3>3. Len(x) = Len(c) + Len(y) /\ Len(y) = Len(g) + Len(e)
      <4>1. Len(c \o y) = Len(c) + Len(y) /\ Len(g \o e) = Len(g) + Len(e)
        BY Zenon, <2>3, <2>4, Join
      <4> QED BY Zenon, <2>5, <4>1
    <3>4. b + Len(e) = Len(x) + 1
      BY <2>3, <2>4, <3>3
    <3> QED BY Zenon, <3>1, <3>2, <3>4 DEF b
  <2>8. /\ DecodeVarint(x, 1) = Read(8 * num + 3, a)
        /\ SkipTagged(x, DecodeVarint(x, 1), 0) = Read(1, a)
    BY SMTT(30), <1>2, <2>7, GroupTagAt DEF c
  <2>9. SkipTagged(x, DecodeVarint(x, b), 1) = Read(0, Len(x) + 1)
    <3> HIDE DEF b
    <3>1. SkipTagged(x, DecodeVarint(x, b), 1) = Read(0, b + Len(e))
      BY SMTT(30), <1>2, <2>6, <2>7, GroupTagAt DEF e
    <3> QED BY Zenon, <2>7, <3>1
  <2> HIDE DEF a, b
  <2>10. SkipLoop(x)[Read(1, b)] = Read(0, Len(x) + 1)
    <3>1. SkipLoop(x)[Read(1, b)] = SkipLoop(x)[Read(0, Len(x) + 1)]
      <4>1. SkipLoop(x)[Read(1, b)] = SkipLoop(x)[SkipTagged(x, DecodeVarint(x, b), 1)]
        BY Zenon, <1>2, <2>6, SkipLoopTurn
      <4> QED BY Zenon, <2>9, <4>1
    <3> QED BY Zenon, <1>2, <1>3, <3>1, SkipLoopTurn
  <2>11. SkipLoop(x)[Read(1, a)] = SkipLoop(x)[Read(1, b)]
    <3>1. CASE g = <<>>
      <4>1. a = b
        BY <2>6, <3>1 DEF b
      <4> QED BY Zenon, <4>1
    <3>2. CASE \E k \in FieldNumbers : PlainField(k, g)
      <4>1. PICK k \in FieldNumbers : PlainField(k, g)
        BY Zenon, <3>2
      <4>2. g \in Strings
        <5>1. Len(g) <= Pow2[WordBits - 5]
          BY <1>2, <2>3, <2>6, Room
        <5> QED BY Zenon, <2>3, <5>1 DEF Strings, Bytes
      <4>3. 1 \in Nat
        OBVIOUS
      <4>4. SkipTagged(x, DecodeVarint(x, a), 1) = Read(1, b)
        <5>1. x \in Seq(Nat) /\ a \in Nat \ {0} /\ PlainField(k, g) /\ At(x, a, g)
          BY Zenon, <1>2, <2>6, <2>7, <4>1
        <5>2. SkipTagged(x, DecodeVarint(x, a), 1) = Read(1, a + Len(g))
          BY SMTT(30), <4>2, <4>3, <5>1, PlainFieldAt
        <5> QED BY Zenon, <5>2 DEF b
      <4>5. SkipLoop(x)[Read(1, a)] = SkipLoop(x)[SkipTagged(x, DecodeVarint(x, a), 1)]
        BY Zenon, <1>2, <2>6, SkipLoopTurn
      <4> QED BY Zenon, <4>4, <4>5
    <3> QED BY Zenon, <2>2, <3>1, <3>2
  <2>12. SkipLocket(x, 1) = Read(0, Len(x) + 1)
    BY Zenon, <2>8, <2>10, <2>11 DEF SkipLocket
  <2>13. 3 \in {0, 1, 2, 3, 5}
    OBVIOUS
  <2>14. a \in Nat
    BY <2>6
  <2> QED BY Zenon, <1>2, <1>4, <2>8, <2>12, <2>13, <2>14
<1> QED BY Zenon, <1>1, <1>5, <1>6

=============================================================================
