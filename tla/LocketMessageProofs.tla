-------------------- MODULE LocketMessageProofs --------------------
(***************************************************************************)
(* Every message of locket.proto arrives as it was sent.                   *)
(*                                                                         *)
(* The turn of an Unmarshal loop at a field Marshal wrote is followed one  *)
(* field at a time, through the nested Resources and past a field that     *)
(* only a later version of locket.proto knows, to the theorems             *)
(* RequestsTravel, RepliesTravel and SizesExact.                           *)
(***************************************************************************)
EXTENDS LocketWireProofs

-----------------------------------------------------------------------------
(* Reading what was written                                                *)

(* An enum has room for the numbers below eight.                           *)
LEMMA EnumRoom ==
  Pow2[EnumBits] >= 8 /\ Pow2[EnumBits - 1] >= 8 /\ Pow2[EnumBits] \in Nat /\ Pow2[EnumBits - 1] \in Nat
<1>1. EnumBits >= 4 /\ EnumBits \in Nat /\ WordBits \in Nat /\ EnumBits < WordBits
  BY WidthAssumption
<1> DEFINE k == EnumBits - 4
<1>2. k \in Nat /\ k + 4 = EnumBits /\ k + 3 = EnumBits - 1 /\ k + 4 < WordBits
  BY <1>1
<1> HIDE DEF k
<1>3. Pow2[k] \in Nat \ {0}
  BY SMTT(30), <1>1, <1>2, Pow2Facts
<1>4. Pow2[k + 1] = 2 * Pow2[k]
  BY <1>1, <1>2, Pow2Facts
<1>5. Pow2[k + 2] = 2 * Pow2[k + 1]
  <2>1. k + 1 \in Nat /\ k + 1 < WordBits /\ k + 1 + 1 = k + 2
    BY <1>1, <1>2
  <2> QED BY <2>1, Pow2Facts
<1>6. Pow2[k + 3] = 2 * Pow2[k + 2]
  <2>1. k + 2 \in Nat /\ k + 2 < WordBits /\ k + 2 + 1 = k + 3
    BY <1>1, <1>2
  <2> QED BY <2>1, Pow2Facts
<1>7. Pow2[k + 4] = 2 * Pow2[k + 3]
  <2>1. k + 3 \in Nat /\ k + 3 < WordBits /\ k + 3 + 1 = k + 4
    BY <1>1, <1>2
  <2> QED BY <2>1, Pow2Facts
<1> QED BY <1>2, <1>3, <1>4, <1>5, <1>6, <1>7

(* Field numbers are below eight, and fit the width of a field number.     *)
LEMMA SmallNumber ==
  ASSUME NEW n \in 0 .. 7
  PROVE  Signed(n, EnumBits) = n
<1> DEFINE p == Pow2[EnumBits]
           q == Pow2[EnumBits - 1]
<1>4. p \in Nat /\ q \in Nat /\ p >= 8 /\ q >= 8
  BY EnumRoom
<1>5. Signed(n, EnumBits) = IF n % p >= q THEN (n % p) - p ELSE n % p
  BY DEF Signed, TwosComplement
<1> HIDE DEF p, q
<1>6. n % p = n
  BY <1>4, Modulo
<1> QED BY <1>4, <1>5, <1>6

(* The tag byte Marshal writes for a field number and a wire type.         *)
Tag(num, wire) == 8 * num + wire

(* A tag Marshal wrote reads as the field number and the wire type it was  *)
(* made of.                                                                *)
LEMMA TagAt ==
  ASSUME NEW bs \in Seq(Nat), NEW i \in Nat \ {0}, NEW num \in 1 .. 5, NEW w \in {0, 2},
         At(bs, i, <<Tag(num, w)>>)
  PROVE  /\ DecodeVarint(bs, i) = Read(Tag(num, w), i + 1)
         /\ FieldNumber(Read(Tag(num, w), i + 1)) = num
         /\ Tag(num, w) % 8 = w
<1> DEFINE t == Tag(num, w)
<1>1. t \in 0 .. 127 /\ t \div 8 = num /\ t % 8 = w
  <2>1. num \in {1, 2, 3, 4, 5}
    OBVIOUS
  <2> QED BY <2>1 DEF Tag
<1> HIDE DEF t
<1>2. t \in 0 .. Words - 1
  <2>1. Words >= 128
    BY Room
  <2> QED BY <1>1, <2>1, WordsType
<1>3. EncodeVarint[t] = <<t>> /\ Sov[t] = 1
  <2>1. EncodeVarint[t] = <<t>>
    BY <1>1, <1>2, EncodeVarintEquation
  <2>2. t \div 128 = 0
    BY <1>1
  <2>3. Sov[t] = 1
    BY <1>2, <2>2, SovEquation
  <2> QED BY <2>1, <2>3
<1>4. DecodeVarint(bs, i) = Read(t, i + 1)
  BY <1>2, <1>3, VarintAt DEF t
<1>5. FieldNumber(Read(t, i + 1)) = num
  <2>1. num \in 0 .. 7
    OBVIOUS
  <2> QED BY SMTT(30), <1>1, <2>1, SmallNumber, ReadFields DEF FieldNumber
<1> QED BY <1>1, <1>4, <1>5 DEF t

(* Length-delimited bytes Marshal wrote read back as themselves, and the   *)
(* index ends just past them.                                              *)
LEMMA PutBytesAt ==
  ASSUME NEW bs \in Seq(Nat), NEW i \in Nat \ {0}, NEW tag \in Nat, NEW s \in Seq(Nat),
         Len(s) < Pow2[WordBits - 1], At(bs, i, PutBytes(tag, Len(s), s))
  PROVE  /\ At(bs, i, <<tag>>)
         /\ DecodeBytes(bs, i + 1) = Read(s, i + SizeBytes(Len(s)))
         /\ i + SizeBytes(Len(s)) \in Nat \ {0}
<1> DEFINE n == Sov[Len(s)]
           e == EncodeVarint[Len(s)]
           h == <<tag>>
<1>1. Len(s) \in 0 .. Words - 1
  <2>1. Pow2[WordBits - 1] <= Words /\ Pow2[WordBits - 1] \in Nat
    BY SMTT(30), Room
  <2> QED BY <2>1, WordsType
<1>2. e \in Seq(Nat) /\ Len(e) = n /\ n \in Nat /\ n > 0
  BY <1>1, VarintShape
<1>3. h \in Seq(Nat) /\ Len(h) = 1
  BY Single
<1>4. At(bs, i, (h \o e) \o s)
  BY DEF PutBytes
<1> HIDE DEF e, h, n
<1>5. h \in Seq(Nat) /\ e \in Seq(Nat)
  BY <1>2, <1>3
<1>6. At(bs, i, h \o e) /\ At(bs, i + (1 + n), s)
  <2> DEFINE he == h \o e
  <2>1. he \in Seq(Nat) /\ Len(he) = Len(h) + Len(e)
    BY <1>5, Join
  <2>2. At(bs, i, he \o s)
    BY <1>4
  <2> HIDE DEF he
  <2>3. At(bs, i, he) /\ At(bs, i + Len(he), s)
    <3>1. he \in Seq(Nat)
      BY <2>1
    <3> QED BY <2>2, <3>1, AtJoin
  <2> QED BY <1>2, <1>3, <2>1, <2>3 DEF he
<1>7. At(bs, i, h) /\ At(bs, i + 1, e)
  <2>1. At(bs, i, h) /\ At(bs, i + Len(h), e)
    BY <1>5, <1>6, AtJoin
  <2> QED BY <1>3, <2>1
<1>8. i + (1 + n) = (i + 1) + n /\ i + 1 \in Nat \ {0}
  BY <1>2
<1>9. DecodeBytes(bs, i + 1) = Read(s, i + 1 + n + Len(s))
  BY SMTT(30), <1>6, <1>7, <1>8, BytesAt DEF e, n
<1>10. i + SizeBytes(Len(s)) = i + 1 + n + Len(s) /\ i + SizeBytes(Len(s)) \in Nat \ {0}
  BY SMTT(30), <1>2 DEF SizeBytes, n
<1> QED BY <1>7, <1>9, <1>10 DEF h

(* A varint field Marshal wrote reads back as its uint64 value, and the    *)
(* index ends just past it.                                                *)
LEMMA PutVarintAt ==
  ASSUME NEW bs \in Seq(Nat), NEW i \in Nat \ {0}, NEW tag \in Nat, NEW x \in Int, x # 0,
         At(bs, i, PutVarint(tag, x))
  PROVE  /\ At(bs, i, <<tag>>)
         /\ DecodeVarint(bs, i + 1) = Read(Uint(x), i + SizeVarint(x))
         /\ i + SizeVarint(x) \in Nat \ {0}
<1> DEFINE u == Uint(x)
           n == Sov[u]
           e == EncodeVarint[u]
           h == <<tag>>
<1>1. u \in 0 .. Words - 1
  <2> DEFINE w == Words
  <2>1. w \in Nat \ {0}
    BY WordsType
  <2> HIDE DEF w
  <2>2. x % w \in 0 .. w - 1
    BY <2>1
  <2> QED BY <2>2 DEF Uint, w
<1> HIDE DEF u
<1>2. e \in Seq(Nat) /\ Len(e) = n /\ n \in Nat /\ n > 0
  BY <1>1, VarintShape
<1>3. h \in Seq(Nat) /\ Len(h) = 1
  BY Single
<1>4. At(bs, i, h \o e) /\ SizeVarint(x) = 1 + n
  BY DEF PutVarint, SizeVarint, u
<1> HIDE DEF e, h, n
<1>7. At(bs, i, h) /\ At(bs, i + 1, e)
  <2>0. h \in Seq(Nat) /\ e \in Seq(Nat)
    BY <1>2, <1>3
  <2>1. At(bs, i, h) /\ At(bs, i + Len(h), e)
    BY <1>4, <2>0, AtJoin
  <2> QED BY <1>3, <2>1
<1>8. i + (1 + n) = (i + 1) + n /\ i + 1 \in Nat \ {0}
  BY <1>2
<1>9. DecodeVarint(bs, i + 1) = Read(u, i + 1 + n)
  BY <1>1, <1>7, <1>8, VarintAt DEF e, n
<1>10. i + SizeVarint(x) = i + 1 + n /\ i + SizeVarint(x) \in Nat \ {0}
  BY <1>2, <1>4
<1> QED BY <1>7, <1>9, <1>10 DEF h, u

(* A turn of a Resource's Unmarshal at a field that was written.           *)
LEMMA ResourceFieldAt ==
  ASSUME NEW bs \in Seq(Nat), NEW m \in Resources, NEW i \in Nat \ {0}, NEW num \in 1 .. 5,
         At(bs, i, <<Tag(num, WireType(ResourceFields[num].kind))>>),
         NEW v, NEW n, DecodePlain(bs, i + 1, ResourceFields[num].kind) = Read(v, n)
  PROVE  ResourceLoop(bs)[Read(m, i)] = ResourceLoop(bs)[Read([m EXCEPT ![ResourceFields[num].name] = v], n)]
<1> DEFINE w == WireType(ResourceFields[num].kind)
           t == Tag(num, w)
<1>1. w \in {0, 2} /\ num \in DOMAIN ResourceFields
  BY DEF WireType, ResourceFields
<1>2. At(bs, i, <<Tag(num, w)>>)
  OBVIOUS
<1> HIDE DEF w
<1>3. DecodeVarint(bs, i) = Read(t, i + 1) /\ FieldNumber(Read(t, i + 1)) = num /\ t % 8 = w
  BY Zenon, <1>1, <1>2, TagAt
<1>4. i <= Len(bs)
  <2>1. Len(<<Tag(num, w)>>) = 1
    OBVIOUS
  <2> QED BY <1>2, <2>1 DEF At
<1> HIDE DEF t
<1>5. ResourceStep(bs, Read(m, i)) = ResourceField(bs, Read(m, i), Read(t, i + 1), num)
  BY <1>3, ReadFields DEF ResourceStep, ResourceTurn
<1>6. ResourceField(bs, Read(m, i), Read(t, i + 1), num)
        = Turn(bs, ResourceFields, Read(m, i), Read(t, i + 1), num, Read(v, n))
  BY ReadFields DEF ResourceField
<1>7. Turn(bs, ResourceFields, Read(m, i), Read(t, i + 1), num, Read(v, n))
        = Read([m EXCEPT ![ResourceFields[num].name] = v], n)
  <2>1. Read(t, i + 1).val = t /\ Read(v, n).ok /\ Read(v, n).val = v /\ Read(v, n).next = n /\ Read(m, i).val = m
    BY ReadFields
  <2>2. ~(t % 8 = 4 \/ num <= 0) /\ ~(num \notin DOMAIN ResourceFields) /\ t % 8 = WireType(ResourceFields[num].kind)
    BY <1>1, <1>3 DEF w
  <2> QED BY <2>1, <2>2, Zenon DEF Turn
<1> QED BY <1>4, <1>5, <1>6, <1>7, ResourceLoopTurn

(* Unmarshal of a message goes on from j with u as it does from i with m.  *)
Goes(bs, fields, messages, m, i, u, j) ==
  MessageLoop(bs, fields, messages)[Read(m, i)] = MessageLoop(bs, fields, messages)[Read(u, j)]

(* A message m of these fields, read up to i.                              *)
Reading(bs, fields, messages, m, i) ==
  /\ bs \in Seq(Nat) /\ HaveFields(messages, fields) /\ DOMAIN fields \subseteq 1 .. 5
  /\ m \in messages /\ i \in Nat \ {0}

(* The tag of the field num is at i.                                       *)
Tagged(bs, fields, messages, m, i, num) ==
  /\ bs \in Seq(Nat) /\ HaveFields(messages, fields) /\ m \in messages /\ i \in Nat \ {0}
  /\ num \in DOMAIN fields /\ num \in 1 .. 5
  /\ At(bs, i, <<Tag(num, WireType(fields[num].kind))>>)

(* A turn of a message's Unmarshal at a known tag sets that field and      *)
(* nothing else.                                                           *)
LEMMA MessageFieldAt ==
  ASSUME NEW bs, NEW fields, NEW messages, NEW m, NEW i, NEW num,
         Tagged(bs, fields, messages, m, i, num)
  PROVE  \A v, n : DecodeField(bs, i + 1, fields[num].kind, m[fields[num].name]) = Read(v, n) =>
           Goes(bs, fields, messages, m, i, [m EXCEPT ![fields[num].name] = v], n)
<1> SUFFICES ASSUME bs \in Seq(Nat), HaveFields(messages, fields), m \in messages, i \in Nat \ {0},
                    num \in DOMAIN fields, num \in 1 .. 5,
                    At(bs, i, <<Tag(num, WireType(fields[num].kind))>>),
                    NEW v, NEW n, DecodeField(bs, i + 1, fields[num].kind, m[fields[num].name]) = Read(v, n)
             PROVE  MessageLoop(bs, fields, messages)[Read(m, i)]
                      = MessageLoop(bs, fields, messages)[Read([m EXCEPT ![fields[num].name] = v], n)]
  BY Zenon DEF Tagged, Goes
<1> DEFINE w == WireType(fields[num].kind)
           t == Tag(num, w)
<1>1. w \in {0, 2}
  BY DEF WireType
<1>2. At(bs, i, <<Tag(num, w)>>)
  OBVIOUS
<1> HIDE DEF w
<1>3. DecodeVarint(bs, i) = Read(t, i + 1) /\ FieldNumber(Read(t, i + 1)) = num /\ t % 8 = w
  BY Zenon, <1>1, <1>2, TagAt
<1>4. i <= Len(bs)
  <2>1. Len(<<Tag(num, w)>>) = 1
    OBVIOUS
  <2> QED BY <1>2, <2>1 DEF At
<1> HIDE DEF t
<1>5. MessageStep(bs, fields, Read(m, i)) = MessageField(bs, fields, Read(m, i), Read(t, i + 1), num)
  BY <1>3, ReadFields DEF MessageStep, MessageTurn
<1>6. MessageField(bs, fields, Read(m, i), Read(t, i + 1), num)
        = Turn(bs, fields, Read(m, i), Read(t, i + 1), num, Read(v, n))
  BY ReadFields DEF MessageField
<1>7. Turn(bs, fields, Read(m, i), Read(t, i + 1), num, Read(v, n))
        = Read([m EXCEPT ![fields[num].name] = v], n)
  <2>1. Read(t, i + 1).val = t /\ Read(v, n).ok /\ Read(v, n).val = v /\ Read(v, n).next = n /\ Read(m, i).val = m
    BY ReadFields
  <2>2. ~(t % 8 = 4 \/ num <= 0) /\ ~(num \notin DOMAIN fields) /\ t % 8 = WireType(fields[num].kind)
    BY <1>1, <1>3 DEF w
  <2> QED BY <2>1, <2>2, Zenon DEF Turn
<1> QED BY <1>4, <1>5, <1>6, <1>7, MessageLoopTurn

(* What the clients send is a Resource.                                    *)
LEMMA SentType == SentResources \subseteq Resources
<1>1. Strings \subseteq Bytes
  BY DEF Strings
<1>2. IntsOf(EnumBits) \subseteq Int
  <2>1. EnumBits - 1 \in 0 .. WordBits
    BY WidthAssumption
  <2>2. Pow2[EnumBits - 1] \in Nat
    BY <2>1, Pow2Facts
  <2> QED BY <2>2 DEF IntsOf
<1> QED BY <1>1, <1>2 DEF SentResources, Resources

(* Unmarshal of a Resource goes on from j with the message u as it does    *)
(* from i with m.                                                          *)
Leads(bs, m, i, u, j) == ResourceLoop(bs)[Read(m, i)] = ResourceLoop(bs)[Read(u, j)]

(* The string s is written at i as the field num, which m lacks.           *)
StringField(bs, m, i, num, s, u, j) ==
  /\ num \in 1 .. 4 /\ m \in Resources /\ i \in Nat \ {0} /\ s \in Strings
  /\ m[ResourceFields[num].name] = <<>> /\ u = [m EXCEPT ![ResourceFields[num].name] = s]
  /\ At(bs, i, PutString(Tag(num, 2), s)) /\ j = i + SizeString(s)

(* A string field of a Resource, at its place in the buffer, reaches the   *)
(* message; an empty one, which Marshal leaves out, is already the zero    *)
(* value.                                                                  *)
LEMMA ResourceStringAt ==
  ASSUME NEW bs \in Seq(Nat), NEW m, NEW i, NEW num, NEW s, NEW u, NEW j,
         StringField(bs, m, i, num, s, u, j)
  PROVE  Leads(bs, m, i, u, j)
<1> DEFINE f == ResourceFields[num].name
           tag == Tag(num, 2)
<1>0. /\ num \in 1 .. 4 /\ m \in Resources /\ i \in Nat \ {0} /\ s \in Strings
      /\ m[f] = <<>> /\ u = [m EXCEPT ![f] = s] /\ At(bs, i, PutString(tag, s)) /\ j = i + SizeString(s)
  BY Zenon DEF StringField
<1>1. CASE s = <<>>
  <2>1. [m EXCEPT ![f] = s] = m
    <3>1. m[f] = s
      BY <1>0, <1>1
    <3>2. m = [x \in DOMAIN m |-> m[x]]
      BY <1>0 DEF Resources
    <3> HIDE DEF f
    <3> QED BY <3>1, <3>2
  <2>2. i + SizeString(s) = i
    BY <1>0, <1>1 DEF SizeString
  <2> QED BY <1>0, <2>1, <2>2, Zenon DEF Leads
<1>2. CASE s # <<>>
  <2>1. s \in Seq(Nat) /\ Len(s) < Pow2[WordBits - 1]
    <3>1. s \in Seq(Nat) /\ Len(s) <= Pow2[WordBits - 5]
      BY <1>0, StringsType
    <3> QED BY <3>1, Room
  <2>2. PutString(tag, s) = PutBytes(tag, Len(s), s) /\ SizeString(s) = SizeBytes(Len(s))
    BY <1>2 DEF PutString, SizeString
  <2>3. tag \in Nat
    BY <1>0 DEF Tag
  <2> HIDE DEF tag
  <2>4. At(bs, i, PutBytes(tag, Len(s), s)) /\ i \in Nat \ {0}
    BY <1>0, <2>2, Zenon
  <2>5. At(bs, i, <<tag>>) /\ DecodeBytes(bs, i + 1) = Read(s, i + SizeBytes(Len(s)))
    BY <2>1, <2>3, <2>4, PutBytesAt
  <2>6. ResourceFields[num].kind = "string" /\ num \in 1 .. 5
    <3>1. num \in {1, 2, 3, 4}
      BY <1>0
    <3> QED BY <3>1 DEF ResourceFields, Field
  <2>7. DecodePlain(bs, i + 1, ResourceFields[num].kind) = Read(s, j)
    <3>1. DecodePlain(bs, i + 1, "string") = DecodeBytes(bs, i + 1)
      BY DEF DecodePlain
    <3> QED BY <1>0, <2>2, <2>5, <2>6, <3>1, Zenon
  <2>8. WireType(ResourceFields[num].kind) = 2
    BY <2>6 DEF WireType
  <2>9. At(bs, i, <<Tag(num, WireType(ResourceFields[num].kind))>>)
    BY <2>5, <2>8, Zenon DEF tag
  <2>10. num \in 1 .. 5 /\ m \in Resources /\ i \in Nat \ {0}
    BY <1>0, <2>6
  <2>11. \A v, n : DecodePlain(bs, i + 1, ResourceFields[num].kind) = Read(v, n) =>
           ResourceLoop(bs)[Read(m, i)] = ResourceLoop(bs)[Read([m EXCEPT ![f] = v], n)]
    BY SMTT(30), <2>9, <2>10, ResourceFieldAt
  <2> QED BY <1>0, <2>7, <2>11, Zenon DEF Leads
<1> QED BY <1>1, <1>2

(* The same for the type code.                                             *)
LEMMA ResourceCodeAt ==
  ASSUME NEW bs \in Seq(Nat), NEW m \in Resources, NEW i \in Nat \ {0},
         NEW x \in IntsOf(EnumBits), m.code = 0, At(bs, i, PutVarint(40, x))
  PROVE  Leads(bs, m, i, [m EXCEPT !.code = x], i + SizeVarint(x))
<1>0. x \in Int
  <2>1. EnumBits - 1 \in 0 .. WordBits
    BY WidthAssumption
  <2>2. Pow2[EnumBits - 1] \in Nat
    BY <2>1, Pow2Facts
  <2> QED BY <2>2 DEF IntsOf
<1>1. CASE x = 0
  <2>1. [m EXCEPT !.code = x] = m
    BY <1>1 DEF Resources
  <2>2. i + SizeVarint(x) = i
    BY <1>1 DEF SizeVarint
  <2> QED BY <2>1, <2>2, Zenon DEF Leads
<1>2. CASE x # 0
  <2>1. 40 \in Nat /\ 40 = Tag(5, 0)
    BY DEF Tag
  <2>2. /\ At(bs, i, <<40>>)
        /\ DecodeVarint(bs, i + 1) = Read(Uint(x), i + SizeVarint(x))
        /\ i + SizeVarint(x) \in Nat \ {0}
    BY <1>0, <1>2, PutVarintAt
  <2>3. ResourceFields[5].kind = "enum" /\ ResourceFields[5].name = "code" /\ 5 \in 1 .. 5
    BY DEF ResourceFields, Field
  <2>4. DecodePlain(bs, i + 1, ResourceFields[5].kind) = DecodeSigned(DecodeVarint(bs, i + 1), EnumBits)
    BY <2>3 DEF DecodePlain
  <2>5. DecodeSigned(DecodeVarint(bs, i + 1), EnumBits) = Read(Signed(Uint(x), EnumBits), i + SizeVarint(x))
    BY <2>2, ReadFields DEF DecodeSigned
  <2>6. DecodePlain(bs, i + 1, ResourceFields[5].kind) = Read(x, i + SizeVarint(x))
    BY <2>4, <2>5, SignedEnum
  <2>8. WireType(ResourceFields[5].kind) = 0
    BY <2>3 DEF WireType
  <2>9. ResourceLoop(bs)[Read(m, i)]
          = ResourceLoop(bs)[Read([m EXCEPT ![ResourceFields[5].name] = x], i + SizeVarint(x))]
    <3>1. At(bs, i, <<Tag(5, WireType(ResourceFields[5].kind))>>)
      BY <2>1, <2>2, <2>8
    <3>2. 5 \in 1 .. 5
      OBVIOUS
    <3> QED BY SMTT(30), <2>6, <3>1, <3>2, ResourceFieldAt
  <2> QED BY <2>3, <2>9, Zenon DEF Leads
<1> QED BY <1>1, <1>2

(* Five byte strings written one after the other are found one after the   *)
(* other.                                                                  *)
LEMMA FiveAt ==
  ASSUME NEW bs \in Seq(Nat), NEW i \in Nat \ {0}, NEW a \in Seq(Nat), NEW b \in Seq(Nat),
         NEW c \in Seq(Nat), NEW d \in Seq(Nat), NEW e \in Seq(Nat), At(bs, i, a \o b \o c \o d \o e)
  PROVE  /\ At(bs, i, a) /\ At(bs, i + Len(a), b) /\ At(bs, i + Len(a) + Len(b), c)
         /\ At(bs, i + Len(a) + Len(b) + Len(c), d)
         /\ At(bs, i + Len(a) + Len(b) + Len(c) + Len(d), e)
<1> DEFINE ab == a \o b
           abc == ab \o c
           abcd == abc \o d
<1>1. ab \in Seq(Nat) /\ Len(ab) = Len(a) + Len(b)
  BY Join
<1>2. At(bs, i, abcd \o e)
  OBVIOUS
<1>3. At(bs, i, ab) => At(bs, i, a) /\ At(bs, i + Len(a), b)
  BY AtJoin
<1> HIDE DEF ab
<1>4. abc \in Seq(Nat) /\ Len(abc) = Len(ab) + Len(c)
  BY Zenon, <1>1, Join
<1>5. At(bs, i, abc) => At(bs, i, ab) /\ At(bs, i + Len(ab), c)
  <2>1. ab \in Seq(Nat)
    BY <1>1
  <2> QED BY <2>1, AtJoin
<1> HIDE DEF abc
<1>6. abcd \in Seq(Nat) /\ Len(abcd) = Len(abc) + Len(d)
  BY Zenon, <1>4, Join
<1>7. At(bs, i, abcd) => At(bs, i, abc) /\ At(bs, i + Len(abc), d)
  <2>1. abc \in Seq(Nat)
    BY <1>4
  <2> QED BY <2>1, AtJoin
<1> HIDE DEF abcd
<1>8. At(bs, i, abcd) /\ At(bs, i + Len(abcd), e)
  <2>1. abcd \in Seq(Nat)
    BY <1>6
  <2> QED BY <1>2, <2>1, AtJoin
<1>9. /\ i + Len(ab) = i + Len(a) + Len(b)
      /\ i + Len(abc) = i + Len(a) + Len(b) + Len(c)
      /\ i + Len(abcd) = i + Len(a) + Len(b) + Len(c) + Len(d)
  BY <1>1, <1>4, <1>6
<1> QED BY <1>3, <1>5, <1>7, <1>8, <1>9, Zenon

(* The Resource with these fields.                                         *)
Made(k, o, v, t, n) == [key |-> k, owner |-> o, value |-> v, type |-> t, code |-> n]

(* Reading and setting each field of a Resource leaves the others alone.   *)
LEMMA MadeFields ==
  ASSUME NEW k, NEW o, NEW v, NEW t, NEW n, NEW x
  PROVE  /\ Made(k, o, v, t, n)["key"] = k /\ [Made(k, o, v, t, n) EXCEPT !["key"] = x] = Made(x, o, v, t, n)
         /\ Made(k, o, v, t, n)["owner"] = o /\ [Made(k, o, v, t, n) EXCEPT !["owner"] = x] = Made(k, x, v, t, n)
         /\ Made(k, o, v, t, n)["value"] = v /\ [Made(k, o, v, t, n) EXCEPT !["value"] = x] = Made(k, o, x, t, n)
         /\ Made(k, o, v, t, n)["type"] = t /\ [Made(k, o, v, t, n) EXCEPT !["type"] = x] = Made(k, o, v, x, n)
         /\ Made(k, o, v, t, n).code = n /\ [Made(k, o, v, t, n) EXCEPT !.code = x] = Made(k, o, v, t, x)
<1>1. Made(k, o, v, t, n)["key"] = k /\ [Made(k, o, v, t, n) EXCEPT !["key"] = x] = Made(x, o, v, t, n)
  BY DEF Made
<1>2. Made(k, o, v, t, n)["owner"] = o /\ [Made(k, o, v, t, n) EXCEPT !["owner"] = x] = Made(k, x, v, t, n)
  BY DEF Made
<1>3. Made(k, o, v, t, n)["value"] = v /\ [Made(k, o, v, t, n) EXCEPT !["value"] = x] = Made(k, o, x, t, n)
  BY DEF Made
<1>4. Made(k, o, v, t, n)["type"] = t /\ [Made(k, o, v, t, n) EXCEPT !["type"] = x] = Made(k, o, v, x, n)
  BY DEF Made
<1>5. Made(k, o, v, t, n).code = n /\ [Made(k, o, v, t, n) EXCEPT !.code = x] = Made(k, o, v, t, x)
  BY DEF Made
<1> QED BY <1>1, <1>2, <1>3, <1>4, <1>5

(* A Resource made of bytes and an integer is a Resource.                  *)
LEMMA MadeType ==
  ASSUME NEW k \in Bytes, NEW o \in Bytes, NEW v \in Bytes, NEW t \in Bytes, NEW n \in Int
  PROVE  Made(k, o, v, t, n) \in Resources
BY DEF Resources, Made

(* Each field is written in exactly the bytes Size counts for it.          *)
LEMMA PutSizes ==
  /\ \A s \in Strings, tag \in Nat :
       PutString(tag, s) \in Seq(Nat) /\ Len(PutString(tag, s)) = SizeString(s) /\ SizeString(s) \in Nat
  /\ \A x \in Int, tag \in Nat :
       PutVarint(tag, x) \in Seq(Nat) /\ Len(PutVarint(tag, x)) = SizeVarint(x) /\ SizeVarint(x) \in Nat
<1>1. Pow2[WordBits - 5] \in Nat
  BY Room
<1>2. \A n : n \in 0 .. 1 + 2 * Pow2[WordBits - 5] => n \in Nat
  BY <1>1
<1>3. \A n : n \in 0 .. 1 + Pow2[WordBits - 5] => n \in Nat
  BY <1>1
<1>4. ASSUME NEW s \in Strings, NEW tag \in Nat
      PROVE  PutString(tag, s) \in Seq(Nat) /\ Len(PutString(tag, s)) = SizeString(s) /\ SizeString(s) \in Nat
  <2>1. PutString(tag, s) \in Seq(Nat) /\ Len(PutString(tag, s)) = SizeString(s)
    BY PutStringSize
  <2>2. SizeString(s) \in 0 .. 1 + 2 * Pow2[WordBits - 5]
    BY PutStringSize
  <2> QED BY <1>2, <2>1, <2>2, Zenon
<1>5. ASSUME NEW x \in Int, NEW tag \in Nat
      PROVE  PutVarint(tag, x) \in Seq(Nat) /\ Len(PutVarint(tag, x)) = SizeVarint(x) /\ SizeVarint(x) \in Nat
  <2>1. PutVarint(tag, x) \in Seq(Nat) /\ Len(PutVarint(tag, x)) = SizeVarint(x)
    BY PutVarintSize
  <2>2. SizeVarint(x) \in 0 .. 1 + Pow2[WordBits - 5]
    BY Zenon, PutVarintSize
  <2> QED BY <1>3, <2>1, <2>2, Zenon
<1> QED BY <1>4, <1>5

(* Resource's Unmarshal, started on a new Resource where Marshal wrote r,  *)
(* arrives at r just past what Marshal wrote.                              *)
LEMMA ResourceAt ==
  ASSUME NEW bs \in Seq(Nat), NEW i \in Nat \ {0}, NEW r \in SentResources, At(bs, i, MarshalResource(r))
  PROVE  Leads(bs, Blank, i, r, i + SizeResource(r)) /\ i + SizeResource(r) \in Nat \ {0}
<1> DEFINE a == PutString(10, r.key)
           b == PutString(18, r.owner)
           c == PutString(26, r.value)
           d == PutString(34, r.type)
           e == PutVarint(40, r.code)
           i1 == i + SizeString(r.key)
           i2 == i1 + SizeString(r.owner)
           i3 == i2 + SizeString(r.value)
           i4 == i3 + SizeString(r.type)
           i5 == i4 + SizeVarint(r.code)
           m0 == Made(<<>>, <<>>, <<>>, <<>>, 0)
           m1 == Made(r.key, <<>>, <<>>, <<>>, 0)
           m2 == Made(r.key, r.owner, <<>>, <<>>, 0)
           m3 == Made(r.key, r.owner, r.value, <<>>, 0)
           m4 == Made(r.key, r.owner, r.value, r.type, 0)
<1>1. /\ r.key \in Strings /\ r.owner \in Strings /\ r.value \in Strings /\ r.type \in Strings
      /\ r.code \in IntsOf(EnumBits) /\ r.code \in Int
  BY SentType DEF SentResources, Resources
<1>2. Blank = m0 /\ r = Made(r.key, r.owner, r.value, r.type, r.code)
  BY DEF SentResources, Made, Blank
<1>3. /\ a \in Seq(Nat) /\ b \in Seq(Nat) /\ c \in Seq(Nat) /\ d \in Seq(Nat) /\ e \in Seq(Nat)
      /\ Len(a) = SizeString(r.key) /\ Len(b) = SizeString(r.owner) /\ Len(c) = SizeString(r.value)
      /\ Len(d) = SizeString(r.type) /\ Len(e) = SizeVarint(r.code)
      /\ SizeString(r.key) \in Nat /\ SizeString(r.owner) \in Nat /\ SizeString(r.value) \in Nat
      /\ SizeString(r.type) \in Nat /\ SizeVarint(r.code) \in Nat
  <2>1. 10 \in Nat /\ 18 \in Nat /\ 26 \in Nat /\ 34 \in Nat /\ 40 \in Nat
    OBVIOUS
  <2> QED BY <1>1, <2>1, PutSizes, Zenon
<1>4. /\ i1 \in Nat \ {0} /\ i2 \in Nat \ {0} /\ i3 \in Nat \ {0} /\ i4 \in Nat \ {0} /\ i5 \in Nat \ {0}
      /\ i + SizeResource(r) = i5
  <2> DEFINE la == SizeString(r.key)
             lb == SizeString(r.owner)
             lc == SizeString(r.value)
             ld == SizeString(r.type)
             le == SizeVarint(r.code)
  <2>1. la \in Nat /\ lb \in Nat /\ lc \in Nat /\ ld \in Nat /\ le \in Nat
    BY <1>3, Zenon
  <2>2. SizeResource(r) = la + lb + lc + ld + le
    BY DEF SizeResource
  <2> HIDE DEF la, lb, lc, ld, le
  <2>3. /\ i + la \in Nat \ {0} /\ i + la + lb \in Nat \ {0} /\ i + la + lb + lc \in Nat \ {0}
        /\ i + la + lb + lc + ld \in Nat \ {0} /\ i + la + lb + lc + ld + le \in Nat \ {0}
        /\ i + (la + lb + lc + ld + le) = i + la + lb + lc + ld + le
    BY <2>1
  <2> QED BY <2>2, <2>3, Zenon DEF la, lb, lc, ld, le
<1>5. At(bs, i, a) /\ At(bs, i1, b) /\ At(bs, i2, c) /\ At(bs, i3, d) /\ At(bs, i4, e)
  <2>1. At(bs, i, a \o b \o c \o d \o e)
    BY DEF MarshalResource
  <2> HIDE DEF a, b, c, d, e
  <2>2. a \in Seq(Nat) /\ b \in Seq(Nat) /\ c \in Seq(Nat) /\ d \in Seq(Nat) /\ e \in Seq(Nat)
    BY <1>3
  <2>3. /\ At(bs, i, a) /\ At(bs, i + Len(a), b) /\ At(bs, i + Len(a) + Len(b), c)
        /\ At(bs, i + Len(a) + Len(b) + Len(c), d)
        /\ At(bs, i + Len(a) + Len(b) + Len(c) + Len(d), e)
    BY Zenon, <2>1, <2>2, FiveAt
  <2> QED BY <1>3, <2>3, Zenon
<1>6. m0 \in Resources /\ m1 \in Resources /\ m2 \in Resources /\ m3 \in Resources /\ m4 \in Resources
  <2>1. <<>> \in Bytes /\ r.key \in Bytes /\ r.owner \in Bytes /\ r.value \in Bytes /\ r.type \in Bytes /\ 0 \in Int
    BY <1>1 DEF Strings, Bytes
  <2> QED BY <2>1, MadeType, Zenon
<1>7. /\ 1 \in 1 .. 4 /\ 2 \in 1 .. 4 /\ 3 \in 1 .. 4 /\ 4 \in 1 .. 4
      /\ 10 = Tag(1, 2) /\ 18 = Tag(2, 2) /\ 26 = Tag(3, 2) /\ 34 = Tag(4, 2)
      /\ "key" = ResourceFields[1].name /\ "owner" = ResourceFields[2].name
      /\ "value" = ResourceFields[3].name /\ "type" = ResourceFields[4].name
  BY DEF ResourceFields, Field, Tag
<1>8. StringField(bs, m0, i, 1, r.key, m1, i1)
  <2>1. m0["key"] = <<>> /\ m1 = [m0 EXCEPT !["key"] = r.key]
    BY MadeFields
  <2> QED BY <1>1, <1>5, <1>6, <1>7, <2>1, Zenon DEF StringField
<1>9. StringField(bs, m1, i1, 2, r.owner, m2, i2)
  <2>1. m1["owner"] = <<>> /\ m2 = [m1 EXCEPT !["owner"] = r.owner]
    BY MadeFields
  <2> QED BY <1>1, <1>4, <1>5, <1>6, <1>7, <2>1, Zenon DEF StringField
<1>10. StringField(bs, m2, i2, 3, r.value, m3, i3)
  <2>1. m2["value"] = <<>> /\ m3 = [m2 EXCEPT !["value"] = r.value]
    BY MadeFields
  <2> QED BY <1>1, <1>4, <1>5, <1>6, <1>7, <2>1, Zenon DEF StringField
<1>11. StringField(bs, m3, i3, 4, r.type, m4, i4)
  <2>1. m3["type"] = <<>> /\ m4 = [m3 EXCEPT !["type"] = r.type]
    BY MadeFields
  <2> QED BY <1>1, <1>4, <1>5, <1>6, <1>7, <2>1, Zenon DEF StringField
<1>12. m4.code = 0 /\ [m4 EXCEPT !.code = r.code] = r
  <2>1. m4.code = 0 /\ [m4 EXCEPT !.code = r.code] = Made(r.key, r.owner, r.value, r.type, r.code)
    BY MadeFields
  <2> QED BY <1>2, <2>1, Zenon
<1> HIDE DEF m0, m1, m2, m3, m4, i1, i2, i3, i4
<1>13. Leads(bs, m0, i, m1, i1) /\ Leads(bs, m1, i1, m2, i2) /\ Leads(bs, m2, i2, m3, i3) /\ Leads(bs, m3, i3, m4, i4)
  BY <1>8, <1>9, <1>10, <1>11, ResourceStringAt
<1>14. Leads(bs, m4, i4, r, i5)
  <2>1. Leads(bs, m4, i4, [m4 EXCEPT !.code = r.code], i5)
    BY SMTT(30), <1>1, <1>4, <1>5, <1>6, <1>12, ResourceCodeAt
  <2> QED BY <1>12, <2>1, Zenon
<1> HIDE DEF i5
<1> QED BY <1>2, <1>4, <1>13, <1>14, Zenon DEF Leads


(* A Resource has five fields.                                             *)
LEMMA ResourceFieldsSize == Len(ResourceFields) = 5 /\ DOMAIN ResourceFields = 1 .. 5
BY DEF ResourceFields

(* A field of a later version is skipped, by Resource and by each message. *)
LEMMA LaterTurn ==
  ASSUME NEW bs \in Seq(Nat), NEW i \in Nat \ {0}, NEW x, LaterField(x), At(bs, i, x)
  PROVE  /\ i <= Len(bs) /\ i + Len(x) \in Nat \ {0}
         /\ DecodeVarint(bs, i).ok
         /\ \A m, v, fields : DOMAIN fields \subseteq 1 .. 5 =>
              Turn(bs, fields, Read(m, i), DecodeVarint(bs, i), FieldNumber(DecodeVarint(bs, i)), v)
                = Read(m, i + Len(x))
<1> DEFINE tag == DecodeVarint(x, 1)
           end == SkipLocket(x, 1)
<1>1. x \in Seq(Nat) /\ tag.ok /\ tag.val % 8 # 4 /\ FieldNumber(tag) > 5 /\ end.ok /\ end.next = Len(x) + 1
  <2>1. PICK t \in 0 .. Words - 1, k \in Nat :
          DecodeVarint(x, 1) = Read(t, k) /\ t % 8 # 4 /\ FieldNumber(Read(t, k)) > Len(ResourceFields)
    BY Zenon, LaterFieldSkipped
  <2>2. x \in Seq(Nat) /\ end.ok /\ end.next = Len(x) + 1
    <3>1. x \in Seq(Nat) /\ SkipLocket(x, 1) = Read(0, Len(x) + 1)
      BY Zenon, LaterFieldSkipped
    <3> QED BY SMTT(30), <3>1, ReadFields
  <2>3. tag.ok /\ tag.val % 8 # 4
    <3>1. tag.ok /\ tag.val = t
      BY SMTT(30), <2>1, ReadFields
    <3> QED BY Zenon, <2>1, <3>1
  <2>4. FieldNumber(tag) > 5
    BY Zenon, <2>1, ResourceFieldsSize
  <2> QED BY Zenon, <2>2, <2>3, <2>4
<1>2. PICK t, k : t \in 0 .. Words - 1 /\ k \in 1 + 1 .. Len(x) + 1 /\ tag = Read(t, k)
  <2>1. IsRead(tag, 0 .. Words - 1, 1 + 1 .. Len(x) + 1)
    BY <1>1, DecodeVarintType
  <2> QED BY Zenon, <1>1, <2>1, ReadFields DEF IsRead
<1>3. DecodeVarint(bs, i) = Read(t, i + k - 1)
  <2>1. 1 \in Nat \ {0} /\ i + 1 - 1 = i
    OBVIOUS
  <2>2. DecodeVarint(bs, i + 1 - 1) = Read(t, i + k - 1)
    <3>1. x \in Seq(Nat) /\ DecodeVarint(x, 1) = Read(t, k)
      BY <1>1, <1>2
    <3> QED BY <2>1, <3>1, DecodeVarintAt
  <2> QED BY <2>1, <2>2
<1>4. PICK v : end = Read(v, Len(x) + 1)
  <2>1. IsRead(end, Nat, {m \in From(1 + 1) : 1 <= Len(x)})
    BY <1>1, SkipLocketType
  <2>2. PICK v, n : end = Read(v, n)
    BY <1>1, <2>1, ReadFields DEF IsRead
  <2> QED BY <1>1, <2>2, ReadFields
<1>5. SkipLocket(bs, i) = Read(v, i + Len(x))
  <2>1. 1 \in Nat \ {0} /\ i + 1 - 1 = i /\ i + (Len(x) + 1) - 1 = i + Len(x)
    BY <1>1
  <2>2. SkipLocket(bs, i + 1 - 1) = Read(v, i + (Len(x) + 1) - 1)
    <3>1. x \in Seq(Nat) /\ SkipLocket(x, 1) = Read(v, Len(x) + 1)
      BY <1>1, <1>4
    <3>2. \A u, n : SkipLocket(x, 1) = Read(u, n) => SkipLocket(bs, i + 1 - 1) = Read(u, i + n - 1)
      BY <2>1, <3>1, SkipLocketAt
    <3> QED BY <3>1, <3>2, Zenon
  <2> QED BY <2>1, <2>2
<1>6. Len(x) >= 1 /\ i + Len(x) - 1 <= Len(bs)
  BY <1>1, <1>2 DEF At
<1>7. i <= Len(bs) /\ i + Len(x) \in Nat \ {0}
  BY <1>1, <1>6
<1>8. FieldNumber(Read(t, i + k - 1)) = FieldNumber(Read(t, k))
  BY ReadFields DEF FieldNumber
<1> DEFINE num == FieldNumber(Read(t, i + k - 1))
<1>9. num > 5 /\ num \in Int /\ t % 8 # 4
  <2>1. num > 5
    <3> DEFINE f == FieldNumber(tag)
    <3>1. f > 5
      BY <1>1
    <3>2. f = num
      BY <1>2, <1>8, Zenon
    <3> HIDE DEF f, num
    <3> QED BY <3>1, <3>2
  <2>2. t % 8 # 4
    <3> DEFINE u == tag.val
    <3>1. u = t
      BY <1>2, ReadFields
    <3>2. u % 8 # 4
      BY <1>1
    <3> HIDE DEF u
    <3> QED BY <3>1, <3>2
  <2>3. t \in Nat
    BY <1>2, WordsType
  <2> QED BY <2>1, <2>2, <2>3, FieldNumberType
<1> HIDE DEF num
<1>10. ASSUME NEW m, NEW y, NEW fields, DOMAIN fields \subseteq 1 .. 5
       PROVE  Turn(bs, fields, Read(m, i), Read(t, i + k - 1), num, y) = Read(m, i + Len(x))
  <2>1. ~(num <= 0) /\ num \notin DOMAIN fields
    BY <1>9, <1>10
  <2>2. Turn(bs, fields, Read(m, i), Read(t, i + k - 1), num, y) = SkipUnknown(bs, m, SkipLocket(bs, i))
    <3>1. Read(t, i + k - 1).val = t /\ Read(m, i).val = m /\ Read(m, i).next = i
      BY ReadFields
    <3> QED BY <1>9, <2>1, <3>1, Zenon DEF Turn
  <2>3. SkipUnknown(bs, m, Read(v, i + Len(x))) = Read(m, i + Len(x))
    BY <1>6, ReadFields DEF SkipUnknown
  <2> QED BY <1>5, <2>2, <2>3
<1> QED BY <1>3, <1>7, <1>10, ReadFields DEF num

(* A field of a later version of locket.proto leaves the Resource as it    *)
(* is.                                                                     *)
LEMMA ResourceLaterAt ==
  ASSUME NEW bs \in Seq(Nat), NEW m \in Resources, NEW i \in Nat \ {0}, NEW x, LaterField(x), At(bs, i, x)
  PROVE  Leads(bs, m, i, m, i + Len(x)) /\ i + Len(x) \in Nat \ {0}
<1>1. /\ i <= Len(bs) /\ i + Len(x) \in Nat \ {0} /\ DecodeVarint(bs, i).ok
      /\ \A y : Turn(bs, ResourceFields, Read(m, i), DecodeVarint(bs, i), FieldNumber(DecodeVarint(bs, i)), y)
                  = Read(m, i + Len(x))
  BY ResourceFieldsSize, LaterTurn
<1>2. ResourceStep(bs, Read(m, i)) = Read(m, i + Len(x))
  <2>1. ResourceStep(bs, Read(m, i))
          = ResourceField(bs, Read(m, i), DecodeVarint(bs, i), FieldNumber(DecodeVarint(bs, i)))
    BY <1>1, ReadFields DEF ResourceStep, ResourceTurn
  <2> QED BY <1>1, <2>1 DEF ResourceField
<1> QED BY <1>1, <1>2, ResourceLoopTurn DEF Leads

(* What Unmarshal of a Resource returns for the bytes of Marshal, with or  *)
(* without a field of a later version behind them.                         *)
LEMMA UnmarshalMarshalled ==
  ASSUME NEW r \in SentResources
  PROVE  UnmarshalResource(MarshalResource(r), Blank) = Read(r, Len(MarshalResource(r)) + 1)
<1> DEFINE bs == MarshalResource(r)
<1>1. bs \in Seq(Nat) /\ Len(bs) = SizeResource(r)
  BY MarshalResourceSize
<1>2. At(bs, 1, MarshalResource(r))
  BY <1>1, AtWhole
<1> HIDE DEF bs
<1>3. Leads(bs, Blank, 1, r, 1 + SizeResource(r))
  BY <1>1, <1>2, ResourceAt
<1>4. 1 + SizeResource(r) = Len(bs) + 1 /\ Len(bs) + 1 \in Nat \ {0} /\ Len(bs) + 1 > Len(bs)
  BY <1>1
<1>5. r \in Resources
  BY SentType
<1>6. ResourceLoop(bs)[Read(r, Len(bs) + 1)] = Read(r, Len(bs) + 1)
  BY <1>1, <1>4, <1>5, ResourceLoopTurn
<1>7. UnmarshalResource(bs, Blank) = Read(r, Len(bs) + 1)
  BY <1>3, <1>4, <1>6, Zenon DEF Leads, UnmarshalResource
<1> QED BY <1>7 DEF bs

(* A Resource written by a later version, with a field this one does not   *)
(* know, is read as the Resource this one knows.                           *)
LEMMA UnmarshalNewer ==
  ASSUME NEW r \in SentResources, NEW x, LaterField(x)
  PROVE  UnmarshalResource(MarshalResource(r) \o x, Blank) = Read(r, Len(MarshalResource(r) \o x) + 1)
<1> DEFINE b == MarshalResource(r)
           bs == b \o x
           n == SizeResource(r)
<1>0. x \in Seq(Nat) /\ r \in Resources
  BY Zenon, SentType, LaterFieldSkipped
<1>1. b \in Seq(Nat) /\ Len(b) = n
  BY MarshalResourceSize
<1>2. bs \in Seq(Nat) /\ Len(bs) = Len(b) + Len(x) /\ At(bs, 1, b) /\ At(bs, 1 + Len(b), x)
  <2> HIDE DEF b
  <2>1. b \in Seq(Nat)
    BY <1>1
  <2>2. bs \in Seq(Nat) /\ Len(bs) = Len(b) + Len(x)
    BY <1>0, <2>1, Join
  <2>3. At(bs, 1, b \o x)
    <3>1. bs \in Seq(Nat)
      BY <2>2
    <3> QED BY Zenon, <3>1, AtWhole
  <2>4. bs \in Seq(Nat)
    BY <2>2
  <2>5. At(bs, 1, b) /\ At(bs, 1 + Len(b), x)
    <3> HIDE DEF bs
    <3>1. Len(bs) \in Nat
      BY <2>4
    <3> QED BY <1>0, <2>1, <2>3, <3>1, AtJoin
  <2> QED BY <2>2, <2>5
<1> HIDE DEF bs, n
<1>3. Leads(bs, Blank, 1, r, 1 + n) /\ 1 + n \in Nat \ {0}
  BY <1>2, ResourceAt DEF n
<1> HIDE DEF b
<1>4. Leads(bs, r, 1 + n, r, (1 + n) + Len(x))
  <2>1. At(bs, 1 + n, x)
    BY <1>1, <1>2
  <2> QED BY SMTT(30), <1>0, <1>2, <1>3, <2>1, ResourceLaterAt
<1>5. (1 + n) + Len(x) = Len(bs) + 1 /\ Len(bs) + 1 \in Nat \ {0} /\ Len(bs) + 1 > Len(bs)
  BY <1>0, <1>1, <1>2
<1>6. ResourceLoop(bs)[Read(r, Len(bs) + 1)] = Read(r, Len(bs) + 1)
  BY <1>0, <1>2, <1>5, ResourceLoopTurn
<1>7. UnmarshalResource(bs, Blank) = Read(r, Len(bs) + 1)
  BY <1>3, <1>4, <1>5, <1>6, Zenon DEF Leads, UnmarshalResource
<1> QED BY <1>7 DEF bs, b

-----------------------------------------------------------------------------
(* The messages and their fields.                                          *)
LEMMA LockRequestHasFields ==
  HaveFields(LockRequests, LockRequestFields) /\ DOMAIN LockRequestFields \subseteq 1 .. 5
<1>1. DOMAIN LockRequestFields = {1, 2}
  BY DEF LockRequestFields
<1>2. LockRequestFields[1].kind = "message" /\ LockRequestFields[1].name = "resource"
  BY DEF LockRequestFields, Field
<1>3. LockRequestFields[2].kind = "int64" /\ LockRequestFields[2].name = "ttl"
  BY DEF LockRequestFields, Field
<1>4. Holds(LockRequests, LockRequestFields[1])
  <2>1. ASSUME NEW m \in LockRequests
        PROVE  m["resource"] \in Resources \cup {Nil}
               /\ \A v \in Resources \cup {Nil} : [m EXCEPT !["resource"] = v] \in LockRequests
    BY DEF LockRequests
  <2>2. Values("message") = Resources \cup {Nil}
    BY DEF Values
  <2> QED BY <1>2, <2>1, <2>2, Zenon DEF Holds
<1>5. Holds(LockRequests, LockRequestFields[2])
  <2>1. ASSUME NEW m \in LockRequests
        PROVE  m["ttl"] \in Int /\ \A v \in Int : [m EXCEPT !["ttl"] = v] \in LockRequests
    BY DEF LockRequests
  <2>2. Values("int64") = Int
    BY DEF Values
  <2> QED BY <1>3, <2>1, <2>2, Zenon DEF Holds
<1>6. "message" \in Kinds /\ "int64" \in Kinds
  BY DEF Kinds, Plain
<1> QED BY <1>1, <1>2, <1>3, <1>4, <1>5, <1>6 DEF HaveFields

(* The messages that carry one Resource have the fields their Unmarshal    *)
(* decodes.                                                                *)
LEMMA CarrierHasFields ==
  HaveFields(Carriers, CarrierFields) /\ DOMAIN CarrierFields \subseteq 1 .. 5
<1>1. DOMAIN CarrierFields = {1}
  BY DEF CarrierFields
<1>2. CarrierFields[1].kind = "message" /\ CarrierFields[1].name = "resource"
  BY DEF CarrierFields, Field
<1>4. Holds(Carriers, CarrierFields[1])
  <2>1. ASSUME NEW m \in Carriers
        PROVE  m["resource"] \in Resources \cup {Nil}
               /\ \A v \in Resources \cup {Nil} : [m EXCEPT !["resource"] = v] \in Carriers
    BY DEF Carriers
  <2>2. Values("message") = Resources \cup {Nil}
    BY DEF Values
  <2> QED BY <1>2, <2>1, <2>2, Zenon DEF Holds
<1>6. "message" \in Kinds
  BY DEF Kinds, Plain
<1> QED BY <1>1, <1>2, <1>4, <1>6 DEF HaveFields

(* So has FetchRequest.                                                    *)
LEMMA FetchRequestHasFields ==
  HaveFields(FetchRequests, FetchRequestFields) /\ DOMAIN FetchRequestFields \subseteq 1 .. 5
<1>1. DOMAIN FetchRequestFields = {1}
  BY DEF FetchRequestFields
<1>2. FetchRequestFields[1].kind = "string" /\ FetchRequestFields[1].name = "key"
  BY DEF FetchRequestFields, Field
<1>4. Holds(FetchRequests, FetchRequestFields[1])
  <2>1. ASSUME NEW m \in FetchRequests
        PROVE  m["key"] \in Bytes /\ \A v \in Bytes : [m EXCEPT !["key"] = v] \in FetchRequests
    BY DEF FetchRequests
  <2>2. Values("string") = Bytes
    BY DEF Values
  <2> QED BY <1>2, <2>1, <2>2, Zenon DEF Holds
<1>6. "string" \in Kinds
  BY DEF Kinds, Plain
<1> QED BY <1>1, <1>2, <1>4, <1>6 DEF HaveFields

(* So has FetchAllRequest.                                                 *)
LEMMA FetchAllRequestHasFields ==
  HaveFields(FetchAllRequests, FetchAllRequestFields) /\ DOMAIN FetchAllRequestFields \subseteq 1 .. 5
<1>1. DOMAIN FetchAllRequestFields = {1, 2}
  BY DEF FetchAllRequestFields
<1>2. FetchAllRequestFields[1].kind = "string" /\ FetchAllRequestFields[1].name = "type"
  BY DEF FetchAllRequestFields, Field
<1>3. FetchAllRequestFields[2].kind = "enum" /\ FetchAllRequestFields[2].name = "code"
  BY DEF FetchAllRequestFields, Field
<1>4. Holds(FetchAllRequests, FetchAllRequestFields[1])
  <2>1. ASSUME NEW m \in FetchAllRequests
        PROVE  m["type"] \in Bytes /\ \A v \in Bytes : [m EXCEPT !["type"] = v] \in FetchAllRequests
    BY DEF FetchAllRequests
  <2>2. Values("string") = Bytes
    BY DEF Values
  <2> QED BY <1>2, <2>1, <2>2, Zenon DEF Holds
<1>5. Holds(FetchAllRequests, FetchAllRequestFields[2])
  <2>1. ASSUME NEW m \in FetchAllRequests
        PROVE  m["code"] \in Int /\ \A v \in Int : [m EXCEPT !["code"] = v] \in FetchAllRequests
    BY DEF FetchAllRequests
  <2>2. Values("enum") = Int
    BY DEF Values
  <2> QED BY <1>3, <2>1, <2>2, Zenon DEF Holds
<1>6. "string" \in Kinds /\ "enum" \in Kinds
  BY DEF Kinds, Plain
<1> QED BY SMTT(30), <1>1, <1>2, <1>3, <1>4, <1>5, <1>6 DEF HaveFields

(* So has FetchAllResponse.                                                *)
LEMMA FetchAllResponseHasFields ==
  HaveFields(FetchAllResponses, FetchAllResponseFields) /\ DOMAIN FetchAllResponseFields \subseteq 1 .. 5
<1>1. DOMAIN FetchAllResponseFields = {1}
  BY DEF FetchAllResponseFields
<1>2. FetchAllResponseFields[1].kind = "repeated" /\ FetchAllResponseFields[1].name = "resources"
  BY DEF FetchAllResponseFields, Field
<1>4. Holds(FetchAllResponses, FetchAllResponseFields[1])
  <2>1. ASSUME NEW m \in FetchAllResponses
        PROVE  m["resources"] \in Seq(Resources)
               /\ \A v \in Seq(Resources) : [m EXCEPT !["resources"] = v] \in FetchAllResponses
    BY DEF FetchAllResponses
  <2>2. Values("repeated") = Seq(Resources)
    BY DEF Values
  <2> QED BY <1>2, <2>1, <2>2, Zenon DEF Holds
<1>6. "repeated" \in Kinds
  BY DEF Kinds, Plain
<1> QED BY <1>1, <1>2, <1>4, <1>6 DEF HaveFields

(* So have the empty replies, LockResponse and ReleaseResponse.            *)
LEMMA EmptyHasFields == HaveFields({<<>>}, <<>>) /\ DOMAIN <<>> \subseteq 1 .. 5
BY DEF HaveFields


-----------------------------------------------------------------------------
(* The same for the other messages                                         *)

(* The bytes s are written at i as the field num, and give it the value v. *)
BytesField(bs, fields, m, i, num, s, v, u, j) ==
  /\ num \in DOMAIN fields /\ WireType(fields[num].kind) = 2
  /\ s \in Seq(Nat) /\ Len(s) < Pow2[WordBits - 1] /\ At(bs, i, PutBytes(Tag(num, 2), Len(s), s))
  /\ \A n : DecodeBytes(bs, i + 1) = Read(s, n) =>
              DecodeField(bs, i + 1, fields[num].kind, m[fields[num].name]) = Read(v, n)
  /\ u = [m EXCEPT ![fields[num].name] = v] /\ j = i + SizeBytes(Len(s))

(* A length-delimited field of a message, at its place in the buffer,      *)
(* reaches the message.                                                    *)
LEMMA BytesFieldAt ==
  ASSUME NEW bs, NEW fields, NEW messages, NEW m, NEW i, NEW num, NEW s, NEW v, NEW u, NEW j,
         Reading(bs, fields, messages, m, i), BytesField(bs, fields, m, i, num, s, v, u, j)
  PROVE  Goes(bs, fields, messages, m, i, u, j)
<1> DEFINE f == fields[num].name
           kind == fields[num].kind
           tag == Tag(num, 2)
<1>1. /\ bs \in Seq(Nat) /\ HaveFields(messages, fields) /\ m \in messages /\ i \in Nat \ {0}
      /\ num \in DOMAIN fields /\ num \in 1 .. 5
  BY DEF Reading, BytesField
<1>2. /\ WireType(kind) = 2 /\ s \in Seq(Nat) /\ Len(s) < Pow2[WordBits - 1]
      /\ At(bs, i, PutBytes(tag, Len(s), s))
      /\ u = [m EXCEPT ![f] = v] /\ j = i + SizeBytes(Len(s))
  BY Zenon DEF BytesField
<1>3. \A n : DecodeBytes(bs, i + 1) = Read(s, n) => DecodeField(bs, i + 1, kind, m[f]) = Read(v, n)
  BY Zenon DEF BytesField
<1>4. tag \in Nat
  BY <1>1 DEF Tag
<1> HIDE DEF tag
<1>5. At(bs, i, <<tag>>) /\ DecodeBytes(bs, i + 1) = Read(s, i + SizeBytes(Len(s)))
  BY <1>1, <1>2, <1>4, PutBytesAt
<1>6. DecodeField(bs, i + 1, kind, m[f]) = Read(v, j)
  BY <1>2, <1>3, <1>5, Zenon
<1>7. At(bs, i, <<Tag(num, WireType(fields[num].kind))>>)
  BY <1>2, <1>5, Zenon DEF tag
<1>8. Tagged(bs, fields, messages, m, i, num)
  BY <1>1, <1>7, Zenon DEF Tagged
<1>9. \A w, n : DecodeField(bs, i + 1, fields[num].kind, m[fields[num].name]) = Read(w, n) =>
        Goes(bs, fields, messages, m, i, [m EXCEPT ![fields[num].name] = w], n)
  BY <1>8, MessageFieldAt
<1> QED BY <1>2, <1>6, <1>9, Zenon

(* The number x is written at i as the field num, which is zero in m.      *)
NumberField(bs, fields, m, i, num, x, u, j) ==
  /\ num \in DOMAIN fields /\ WireType(fields[num].kind) = 0
  /\ x \in Int /\ m[fields[num].name] = 0 /\ At(bs, i, PutVarint(Tag(num, 0), x))
  /\ \A n : DecodeVarint(bs, i + 1) = Read(Uint(x), n) =>
              DecodeField(bs, i + 1, fields[num].kind, m[fields[num].name]) = Read(x, n)
  /\ u = [m EXCEPT ![fields[num].name] = x] /\ m = [m EXCEPT ![fields[num].name] = 0]
  /\ j = i + SizeVarint(x)

(* So does a varint field; a zero, which Marshal leaves out, is already    *)
(* the zero value.                                                         *)
LEMMA NumberFieldAt ==
  ASSUME NEW bs, NEW fields, NEW messages, NEW m, NEW i, NEW num, NEW x, NEW u, NEW j,
         Reading(bs, fields, messages, m, i), NumberField(bs, fields, m, i, num, x, u, j)
  PROVE  Goes(bs, fields, messages, m, i, u, j)
<1> DEFINE f == fields[num].name
           kind == fields[num].kind
           tag == Tag(num, 0)
<1>1. /\ bs \in Seq(Nat) /\ HaveFields(messages, fields) /\ m \in messages /\ i \in Nat \ {0}
      /\ num \in DOMAIN fields /\ num \in 1 .. 5
  BY DEF Reading, NumberField
<1>2. /\ WireType(kind) = 0 /\ x \in Int /\ At(bs, i, PutVarint(tag, x))
      /\ u = [m EXCEPT ![f] = x] /\ m = [m EXCEPT ![f] = 0] /\ j = i + SizeVarint(x)
  BY Zenon DEF NumberField
<1>3. \A n : DecodeVarint(bs, i + 1) = Read(Uint(x), n) => DecodeField(bs, i + 1, kind, m[f]) = Read(x, n)
  BY Zenon DEF NumberField
<1>4. tag \in Nat
  BY <1>1 DEF Tag
<1> HIDE DEF tag
<1>a. CASE x = 0
  <2>1. u = m
    BY <1>2, <1>a, Zenon
  <2>2. i + SizeVarint(x) = i
    BY <1>1, <1>a DEF SizeVarint
  <2> QED BY <1>2, <2>1, <2>2, Zenon DEF Goes
<1>b. CASE x # 0
  <2>5. At(bs, i, <<tag>>) /\ DecodeVarint(bs, i + 1) = Read(Uint(x), i + SizeVarint(x))
    BY <1>b, <1>1, <1>2, <1>4, PutVarintAt
  <2>6. DecodeField(bs, i + 1, kind, m[f]) = Read(x, j)
    BY <1>2, <1>3, <2>5, Zenon
  <2>7. At(bs, i, <<Tag(num, WireType(fields[num].kind))>>)
    BY <1>2, <2>5, Zenon DEF tag
  <2>8. Tagged(bs, fields, messages, m, i, num)
    BY <1>1, <2>7, Zenon DEF Tagged
  <2>9. \A w, n : DecodeField(bs, i + 1, fields[num].kind, m[fields[num].name]) = Read(w, n) =>
          Goes(bs, fields, messages, m, i, [m EXCEPT ![fields[num].name] = w], n)
    BY <2>8, MessageFieldAt
  <2> QED BY <1>2, <2>6, <2>9, Zenon
<1> QED BY <1>a, <1>b

(* A field of a later version of locket.proto leaves the message as it is. *)
LEMMA MessageLaterAt ==
  ASSUME NEW bs, NEW fields, NEW messages, NEW m, NEW i, NEW x,
         Reading(bs, fields, messages, m, i), LaterField(x), At(bs, i, x)
  PROVE  Goes(bs, fields, messages, m, i, m, i + Len(x)) /\ i + Len(x) \in Nat \ {0}
<1>0. /\ bs \in Seq(Nat) /\ HaveFields(messages, fields) /\ m \in messages /\ i \in Nat \ {0}
      /\ DOMAIN fields \subseteq 1 .. 5
  BY DEF Reading
<1>1. /\ i <= Len(bs) /\ i + Len(x) \in Nat \ {0} /\ DecodeVarint(bs, i).ok
      /\ \A y : Turn(bs, fields, Read(m, i), DecodeVarint(bs, i), FieldNumber(DecodeVarint(bs, i)), y)
                  = Read(m, i + Len(x))
  BY SMTT(30), <1>0, LaterTurn
<1>2. MessageStep(bs, fields, Read(m, i)) = Read(m, i + Len(x))
  <2>1. MessageStep(bs, fields, Read(m, i))
          = MessageField(bs, fields, Read(m, i), DecodeVarint(bs, i), FieldNumber(DecodeVarint(bs, i)))
    BY SMTT(30), <1>1, ReadFields DEF MessageStep, MessageTurn
  <2> QED BY <1>1, <2>1 DEF MessageField
<1>3. MessageLoop(bs, fields, messages)[Read(m, i)]
        = MessageLoop(bs, fields, messages)[MessageStep(bs, fields, Read(m, i))]
  BY <1>0, <1>1, MessageLoopTurn
<1> QED BY <1>1, <1>2, <1>3, Zenon DEF Goes

(* At the end of the bytes the message is what has been read.              *)
LEMMA MessageEnd ==
  ASSUME NEW bs, NEW fields, NEW messages, NEW m, NEW m0,
         Reading(bs, fields, messages, m, Len(bs) + 1), Goes(bs, fields, messages, m0, 1, m, Len(bs) + 1)
  PROVE  Decode(bs, fields, messages, m0) = Read(m, Len(bs) + 1)
<1>1. /\ bs \in Seq(Nat) /\ HaveFields(messages, fields) /\ m \in messages /\ Len(bs) + 1 \in Nat \ {0}
  BY DEF Reading
<1>2. Len(bs) + 1 > Len(bs)
  BY <1>1
<1>3. MessageLoop(bs, fields, messages)[Read(m, Len(bs) + 1)] = Read(m, Len(bs) + 1)
  BY <1>1, <1>2, MessageLoopTurn
<1> QED BY <1>3, Zenon DEF Goes, Decode

-----------------------------------------------------------------------------
(* What the fields hold that were written                                  *)

(* The bytes s, read as a nested Resource, are r.                          *)
Unnests(s, r) == \E k : UnmarshalResource(s, Blank) = Read(r, k)

(* A nested field whose bytes unnest to r sets it to r, and a repeated one *)
(* appends r.                                                              *)
LEMMA NestedValue ==
  ASSUME NEW s, NEW r, Unnests(s, r)
  PROVE  \A bs, i, n : DecodeBytes(bs, i) = Read(s, n) =>
           /\ DecodeField(bs, i, "message", Nil) = Read(r, n)
           /\ \A old : DecodeField(bs, i, "repeated", old) = Read(Append(old, r), n)
<1> SUFFICES ASSUME NEW bs, NEW i, NEW n, DecodeBytes(bs, i) = Read(s, n),
                    NEW k, UnmarshalResource(s, Blank) = Read(r, k)
             PROVE  /\ DecodeField(bs, i, "message", Nil) = Read(r, n)
                    /\ \A old : DecodeField(bs, i, "repeated", old) = Read(Append(old, r), n)
  BY DEF Unnests
<1>1. DecodeNested(DecodeBytes(bs, i), Blank) = Read(r, n)
  BY ReadFields DEF DecodeNested, Moved
<1>2. DecodeField(bs, i, "message", Nil) = DecodeNested(DecodeBytes(bs, i), Blank)
  BY DEF DecodeField
<1>3. ASSUME NEW old PROVE DecodeField(bs, i, "repeated", old) = Read(Append(old, r), n)
  <2>1. DecodeField(bs, i, "repeated", old) = Appended(old, DecodeNested(DecodeBytes(bs, i), Blank))
    BY DEF DecodeField
  <2> QED BY <1>1, <2>1, ReadFields DEF Appended
<1> QED BY <1>1, <1>2, <1>3

(* A string field is the bytes it was sent as.                             *)
LEMMA StringValue ==
  ASSUME NEW bs, NEW i, NEW s, NEW n, NEW old, DecodeBytes(bs, i) = Read(s, n)
  PROVE  DecodeField(bs, i, "string", old) = Read(s, n)
BY DEF DecodeField, DecodePlain

(* A number field is the number it was sent as, within the width of its    *)
(* kind.                                                                   *)
LEMMA NumberValue ==
  ASSUME NEW x
  PROVE  \A bs, i, n, old : DecodeVarint(bs, i) = Read(Uint(x), n) =>
           /\ x \in IntsOf(EnumBits) => DecodeField(bs, i, "enum", old) = Read(x, n)
           /\ x \in IntsOf(WordBits) => DecodeField(bs, i, "int64", old) = Read(x, n)
<1> SUFFICES ASSUME NEW bs, NEW i, NEW n, NEW old, DecodeVarint(bs, i) = Read(Uint(x), n)
             PROVE  /\ x \in IntsOf(EnumBits) => DecodeField(bs, i, "enum", old) = Read(x, n)
                    /\ x \in IntsOf(WordBits) => DecodeField(bs, i, "int64", old) = Read(x, n)
  OBVIOUS
<1>1. ASSUME NEW bits PROVE DecodeSigned(DecodeVarint(bs, i), bits) = Read(Signed(Uint(x), bits), n)
  BY ReadFields DEF DecodeSigned
<1>2. /\ DecodeField(bs, i, "enum", old) = DecodeSigned(DecodeVarint(bs, i), EnumBits)
      /\ DecodeField(bs, i, "int64", old) = DecodeSigned(DecodeVarint(bs, i), WordBits)
  BY DEF DecodeField, DecodePlain
<1> QED BY <1>1, <1>2, SignedEnum, SignedWord

(* Fixed-width integers are integers.                                      *)
LEMMA IntsType == IntsOf(EnumBits) \subseteq Int /\ IntsOf(WordBits) \subseteq Int
<1>1. EnumBits - 1 \in 0 .. WordBits /\ WordBits - 1 \in 0 .. WordBits
  BY WidthAssumption
<1>2. Pow2[EnumBits - 1] \in Nat /\ Pow2[WordBits - 1] \in Nat
  BY <1>1, Pow2Facts
<1> QED BY <1>2 DEF IntsOf

(* The LockRequest with this Resource and this ttl.                        *)
LockMessage(r, t) == [resource |-> r, ttl |-> t]
(* The message that carries this Resource: a ReleaseRequest or a           *)
(* FetchResponse.                                                          *)
Carrier(r) == [resource |-> r]
(* The FetchAllRequest with this type and this code.                       *)
TypeMessage(t, c) == [type |-> t, code |-> c]

(* The bytes s, which Unmarshal of a Resource takes to r, are written at i.*)
Nested(bs, i, s, r, j) ==
  /\ bs \in Seq(Nat) /\ i \in Nat \ {0} /\ r \in Resources
  /\ s \in Seq(Nat) /\ Len(s) < Pow2[WordBits - 1] /\ At(bs, i, PutBytes(10, Len(s), s))
  /\ UnmarshalResource(s, Blank) = Read(r, Len(s) + 1) /\ j = i + SizeBytes(Len(s))

(* LockRequest's Unmarshal takes a nested Resource to the request's        *)
(* resource.                                                               *)
LEMMA LockResourceAt ==
  ASSUME NEW bs, NEW i, NEW s, NEW r, NEW j, Nested(bs, i, s, r, j)
  PROVE  Goes(bs, LockRequestFields, LockRequests, LockMessage(Nil, 0), i, LockMessage(r, 0), j)
<1> DEFINE F == LockRequestFields
           m == LockMessage(Nil, 0)
           u == LockMessage(r, 0)
<1>1. F[1].kind = "message" /\ F[1].name = "resource" /\ 1 \in DOMAIN F
  BY DEF LockRequestFields, Field
<1>2. m["resource"] = Nil /\ u = [m EXCEPT !["resource"] = r] /\ m \in LockRequests
  BY DEF LockMessage, LockRequests
<1>3. Reading(bs, F, LockRequests, m, i)
  BY <1>2, LockRequestHasFields, Zenon DEF Reading, Nested
<1>4. WireType("message") = 2 /\ Tag(1, 2) = 10
  BY DEF WireType, Tag
<1>5. \A n : DecodeBytes(bs, i + 1) = Read(s, n) => DecodeField(bs, i + 1, "message", Nil) = Read(r, n)
  <2>1. Unnests(s, r)
    BY DEF Nested, Unnests
  <2> QED BY <2>1, NestedValue
<1> HIDE DEF F, m, u
<1>6. BytesField(bs, F, m, i, 1, s, r, u, j)
  BY <1>1, <1>2, <1>4, <1>5, Zenon DEF BytesField, Nested
<1>7. Goes(bs, F, LockRequests, m, i, u, j)
  BY <1>3, <1>6, BytesFieldAt
<1> QED BY <1>7 DEF F, m, u

(* So does that of the messages that carry one Resource.                   *)
LEMMA CarrierResourceAt ==
  ASSUME NEW bs, NEW i, NEW s, NEW r, NEW j, Nested(bs, i, s, r, j)
  PROVE  Goes(bs, CarrierFields, Carriers, Carrier(Nil), i, Carrier(r), j)
<1> DEFINE F == CarrierFields
           m == Carrier(Nil)
           u == Carrier(r)
<1>1. F[1].kind = "message" /\ F[1].name = "resource" /\ 1 \in DOMAIN F
  BY DEF CarrierFields, Field
<1>2. m["resource"] = Nil /\ u = [m EXCEPT !["resource"] = r] /\ m \in Carriers
  BY DEF Carrier, Carriers
<1>3. Reading(bs, F, Carriers, m, i)
  BY <1>2, CarrierHasFields, Zenon DEF Reading, Nested
<1>4. WireType("message") = 2 /\ Tag(1, 2) = 10
  BY DEF WireType, Tag
<1>5. \A n : DecodeBytes(bs, i + 1) = Read(s, n) => DecodeField(bs, i + 1, "message", Nil) = Read(r, n)
  <2>1. Unnests(s, r)
    BY DEF Nested, Unnests
  <2> QED BY <2>1, NestedValue
<1> HIDE DEF F, m, u
<1>6. BytesField(bs, F, m, i, 1, s, r, u, j)
  BY <1>1, <1>2, <1>4, <1>5, Zenon DEF BytesField, Nested
<1>7. Goes(bs, F, Carriers, m, i, u, j)
  BY <1>3, <1>6, BytesFieldAt
<1> QED BY <1>7 DEF F, m, u

(* FetchAllResponse's Unmarshal appends a nested Resource to the ones read *)
(* before it.                                                              *)
LEMMA ListedAt ==
  ASSUME NEW bs, NEW i, NEW s, NEW r, NEW j, Nested(bs, i, s, r, j), NEW rs \in Seq(Resources)
  PROVE  Goes(bs, FetchAllResponseFields, FetchAllResponses, [resources |-> rs], i,
              [resources |-> Append(rs, r)], j)
<1> DEFINE F == FetchAllResponseFields
           m == [resources |-> rs]
           v == Append(rs, r)
           u == [resources |-> v]
<1>1. F[1].kind = "repeated" /\ F[1].name = "resources" /\ 1 \in DOMAIN F
  BY DEF FetchAllResponseFields, Field
<1>2. m["resources"] = rs /\ u = [m EXCEPT !["resources"] = v] /\ m \in FetchAllResponses
  BY SMTT(30) DEF FetchAllResponses
<1>3. Reading(bs, F, FetchAllResponses, m, i)
  BY <1>2, FetchAllResponseHasFields, Zenon DEF Reading, Nested
<1>4. WireType("repeated") = 2 /\ Tag(1, 2) = 10
  BY DEF WireType, Tag
<1>5. \A n : DecodeBytes(bs, i + 1) = Read(s, n) => DecodeField(bs, i + 1, "repeated", rs) = Read(v, n)
  <2>1. Unnests(s, r)
    BY DEF Nested, Unnests
  <2> QED BY <2>1, NestedValue
<1> HIDE DEF F, m, u, v
<1>6. BytesField(bs, F, m, i, 1, s, v, u, j)
  BY <1>1, <1>2, <1>4, <1>5, Zenon DEF BytesField, Nested
<1>7. Goes(bs, F, FetchAllResponses, m, i, u, j)
  BY <1>3, <1>6, BytesFieldAt
<1> QED BY <1>7 DEF F, m, u, v

(* LockRequest's Unmarshal takes the int64 ttl as it was sent, a negative  *)
(* one included.                                                           *)
LEMMA LockTtlAt ==
  ASSUME NEW bs \in Seq(Nat), NEW i \in Nat \ {0}, NEW r \in Resources \cup {Nil}, NEW x \in IntsOf(WordBits),
         At(bs, i, PutVarint(16, x))
  PROVE  Goes(bs, LockRequestFields, LockRequests, LockMessage(r, 0), i, LockMessage(r, x), i + SizeVarint(x))
<1> DEFINE F == LockRequestFields
           m == LockMessage(r, 0)
           u == LockMessage(r, x)
           j == i + SizeVarint(x)
<1>1. F[2].kind = "int64" /\ F[2].name = "ttl" /\ 2 \in DOMAIN F
  BY DEF LockRequestFields, Field
<1>2. /\ m["ttl"] = 0 /\ u = [m EXCEPT !["ttl"] = x] /\ m = [m EXCEPT !["ttl"] = 0]
      /\ m \in LockRequests /\ x \in Int
  <2>1. x \in Int
    BY IntsType
  <2>2. m["ttl"] = 0 /\ u = [m EXCEPT !["ttl"] = x] /\ m = [m EXCEPT !["ttl"] = 0]
    <3>1. m["ttl"] = 0
      BY DEF LockMessage
    <3>2. u = [m EXCEPT !["ttl"] = x]
      BY DEF LockMessage
    <3>3. m = [m EXCEPT !["ttl"] = 0]
      BY DEF LockMessage
    <3> QED BY SMTT(30), <3>1, <3>2, <3>3
  <2>3. m \in LockRequests
    BY DEF LockMessage, LockRequests
  <2> QED BY <2>1, <2>2, <2>3
<1>3. Reading(bs, F, LockRequests, m, i)
  BY <1>2, LockRequestHasFields, Zenon DEF Reading
<1>4. WireType("int64") = 0 /\ Tag(2, 0) = 16
  BY DEF WireType, Tag
<1>5. \A n : DecodeVarint(bs, i + 1) = Read(Uint(x), n) => DecodeField(bs, i + 1, "int64", m["ttl"]) = Read(x, n)
  BY NumberValue
<1> HIDE DEF F, m, u, j
<1>6. NumberField(bs, F, m, i, 2, x, u, j)
  BY <1>1, <1>2, <1>4, <1>5, Zenon DEF NumberField, j
<1>7. Goes(bs, F, LockRequests, m, i, u, j)
  BY <1>3, <1>6, NumberFieldAt
<1> QED BY <1>7 DEF F, m, u, j

(* FetchAllRequest's Unmarshal takes the type code as it was sent.         *)
LEMMA FetchAllCodeAt ==
  ASSUME NEW bs \in Seq(Nat), NEW i \in Nat \ {0}, NEW t \in Bytes, NEW x \in IntsOf(EnumBits),
         At(bs, i, PutVarint(16, x))
  PROVE  Goes(bs, FetchAllRequestFields, FetchAllRequests, TypeMessage(t, 0), i, TypeMessage(t, x), i + SizeVarint(x))
<1> DEFINE F == FetchAllRequestFields
           m == TypeMessage(t, 0)
           u == TypeMessage(t, x)
           j == i + SizeVarint(x)
<1>1. F[2].kind = "enum" /\ F[2].name = "code" /\ 2 \in DOMAIN F
  BY DEF FetchAllRequestFields, Field
<1>2. /\ m["code"] = 0 /\ u = [m EXCEPT !["code"] = x] /\ m = [m EXCEPT !["code"] = 0]
      /\ m \in FetchAllRequests /\ x \in Int
  <2>1. x \in Int
    BY IntsType
  <2>2. m["code"] = 0 /\ u = [m EXCEPT !["code"] = x] /\ m = [m EXCEPT !["code"] = 0]
    <3>1. m["code"] = 0
      BY DEF TypeMessage
    <3>2. u = [m EXCEPT !["code"] = x]
      BY DEF TypeMessage
    <3>3. m = [m EXCEPT !["code"] = 0]
      BY DEF TypeMessage
    <3> QED BY <3>1, <3>2, <3>3
  <2>3. m \in FetchAllRequests
    BY DEF TypeMessage, FetchAllRequests
  <2> QED BY <2>1, <2>2, <2>3
<1>3. Reading(bs, F, FetchAllRequests, m, i)
  BY <1>2, FetchAllRequestHasFields, Zenon DEF Reading
<1>4. WireType("enum") = 0 /\ Tag(2, 0) = 16
  BY DEF WireType, Tag
<1>5. \A n : DecodeVarint(bs, i + 1) = Read(Uint(x), n) => DecodeField(bs, i + 1, "enum", m["code"]) = Read(x, n)
  BY NumberValue
<1> HIDE DEF F, m, u, j
<1>6. NumberField(bs, F, m, i, 2, x, u, j)
  BY <1>1, <1>2, <1>4, <1>5, Zenon DEF NumberField, j
<1>7. Goes(bs, F, FetchAllRequests, m, i, u, j)
  BY SMTT(30), <1>3, <1>6, NumberFieldAt
<1> QED BY <1>7 DEF F, m, u, j

(* A string of a message, which may be empty.                              *)
LEMMA KeyAt ==
  ASSUME NEW bs \in Seq(Nat), NEW i \in Nat \ {0}, NEW s \in Strings, At(bs, i, PutString(10, s))
  PROVE  /\ Goes(bs, FetchRequestFields, FetchRequests, [key |-> <<>>], i, [key |-> s], i + SizeString(s))
         /\ Goes(bs, FetchAllRequestFields, FetchAllRequests, TypeMessage(<<>>, 0), i,
                 TypeMessage(s, 0), i + SizeString(s))
<1>1. CASE s = <<>>
  <2>1. i + SizeString(s) = i
    BY <1>1 DEF SizeString
  <2> QED BY <1>1, <2>1 DEF Goes
<1>2. CASE s # <<>>
  <2> DEFINE j == i + SizeString(s)
             F == FetchRequestFields
             m == [key |-> <<>>]
             u == [key |-> s]
             G == FetchAllRequestFields
             k == TypeMessage(<<>>, 0)
             l == TypeMessage(s, 0)
  <2>1. s \in Seq(Nat) /\ Len(s) < Pow2[WordBits - 1]
    <3>1. s \in Seq(Nat) /\ Len(s) <= Pow2[WordBits - 5]
      BY StringsType
    <3> QED BY <3>1, Room
  <2>2. j = i + SizeBytes(Len(s)) /\ At(bs, i, PutBytes(10, Len(s), s))
    BY <1>2 DEF PutString, SizeString
  <2>3. \A old, n : DecodeBytes(bs, i + 1) = Read(s, n) => DecodeField(bs, i + 1, "string", old) = Read(s, n)
    BY StringValue
  <2>4. WireType("string") = 2 /\ Tag(1, 2) = 10
    BY DEF WireType, Tag
  <2>5. F[1].kind = "string" /\ F[1].name = "key" /\ 1 \in DOMAIN F
    BY DEF FetchRequestFields, Field
  <2>6. u = [m EXCEPT !["key"] = s]
    OBVIOUS
  <2>7. m \in FetchRequests
    BY DEF FetchRequests, Bytes
  <2>8. G[1].kind = "string" /\ G[1].name = "type" /\ 1 \in DOMAIN G
    BY DEF FetchAllRequestFields, Field
  <2>9. l = [k EXCEPT !["type"] = s]
    BY DEF TypeMessage
  <2>10. k \in FetchAllRequests
    BY DEF FetchAllRequests, Bytes, TypeMessage
  <2>11. Reading(bs, F, FetchRequests, m, i) /\ Reading(bs, G, FetchAllRequests, k, i)
    BY <2>7, <2>10, FetchRequestHasFields, FetchAllRequestHasFields, Zenon DEF Reading
  <2> HIDE DEF j, F, G, m, u, k, l
  <2>12. BytesField(bs, F, m, i, 1, s, s, u, j)
    BY <2>1, <2>2, <2>3, <2>4, <2>5, <2>6, Zenon DEF BytesField
  <2>13. BytesField(bs, G, k, i, 1, s, s, l, j)
    BY <2>1, <2>2, <2>3, <2>4, <2>8, <2>9, Zenon DEF BytesField
  <2>14. Goes(bs, F, FetchRequests, m, i, u, j)
    BY <2>11, <2>12, BytesFieldAt
  <2>15. Goes(bs, G, FetchAllRequests, k, i, l, j)
    BY <2>11, <2>13, BytesFieldAt
  <2> QED BY <2>14, <2>15 DEF j, F, G, m, u, k, l
<1> QED BY <1>1, <1>2

-----------------------------------------------------------------------------
(* Every message is decoded as it was sent                                 *)

(* A resource is nested in a message by its own bytes.                     *)
LEMMA NestedAt ==
  ASSUME NEW bs \in Seq(Nat), NEW i \in Nat \ {0}, NEW r \in SentResources, At(bs, i, PutNested(10, r))
  PROVE  Nested(bs, i, MarshalResource(r), r, i + SizeNested(r)) /\ i + SizeNested(r) \in Nat \ {0}
<1> DEFINE s == MarshalResource(r)
<1>1. s \in Seq(Nat) /\ Len(s) = SizeResource(r) /\ SizeResource(r) \in 0 .. 9 * Pow2[WordBits - 5] + 5
  BY MarshalResourceSize
<1>2. r # Nil /\ r \in Resources
  BY SentType, NilAssumption
<1>3. Len(s) < Pow2[WordBits - 1]
  <2>1. SizeResource(r) \in 0 .. 10 * Pow2[WordBits - 5] + 5
    BY SMTT(30), <1>1, Room
  <2> QED BY <1>1, <2>1, Sizeable
<1>4. PutNested(10, r) = PutBytes(10, Len(s), s) /\ SizeNested(r) = SizeBytes(Len(s))
  BY <1>1, <1>2 DEF PutNested, SizeNested
<1>5. UnmarshalResource(s, Blank) = Read(r, Len(s) + 1)
  BY UnmarshalMarshalled
<1>6. i + SizeNested(r) \in Nat \ {0}
  BY PutNestedSize
<1> HIDE DEF s
<1>7. s \in Seq(Nat)
  BY <1>1
<1> QED BY <1>2, <1>3, <1>4, <1>5, <1>6, <1>7, Zenon DEF Nested, s


(* A partly read LockRequest is a state of its Unmarshal.                  *)
LEMMA LockReads ==
  ASSUME NEW bs \in Seq(Nat), NEW r \in Resources \cup {Nil}, NEW t \in Int, NEW i \in Nat \ {0}
  PROVE  Reading(bs, LockRequestFields, LockRequests, LockMessage(r, t), i)
<1>1. LockMessage(r, t) \in LockRequests
  BY DEF LockMessage, LockRequests
<1> QED BY <1>1, LockRequestHasFields, Zenon DEF Reading

(* A Lock request is decoded as it was sent.                               *)
LEMMA LockTrip ==
  ASSUME NEW r \in SentResources \cup {Nil}, NEW t \in IntsOf(WordBits)
  PROVE  UnmarshalLockRequest(MarshalLockRequest(LockMessage(r, t)))
           = Read(LockMessage(r, t), Len(MarshalLockRequest(LockMessage(r, t))) + 1)
<1> DEFINE a == PutNested(10, r)
           b == PutVarint(16, t)
           bs == MarshalLockRequest(LockMessage(r, t))
           i == 1 + SizeNested(r)
           j == i + SizeVarint(t)
           F == LockRequestFields
           M == LockRequests
<1>0. t \in Int /\ r \in Resources \cup {Nil} /\ 0 \in Int
  BY IntsType, SentType
<1>1. a \in Seq(Nat) /\ Len(a) = SizeNested(r) /\ SizeNested(r) \in Nat
  BY PutNestedSize
<1>2. b \in Seq(Nat) /\ Len(b) = SizeVarint(t) /\ SizeVarint(t) \in Nat
  <2>1. 16 \in Nat
    OBVIOUS
  <2> QED BY <1>0, <2>1, PutSizes
<1>3. bs = a \o b
  BY DEF MarshalLockRequest, LockMessage
<1> HIDE DEF bs, a, b
<1>4. bs \in Seq(Nat) /\ Len(bs) = Len(a) + Len(b) /\ At(bs, 1, a) /\ At(bs, 1 + Len(a), b)
  <2>1. a \in Seq(Nat) /\ b \in Seq(Nat)
    BY <1>1, <1>2
  <2>2. a \o b \in Seq(Nat) /\ Len(a \o b) = Len(a) + Len(b)
    BY <2>1, Join
  <2>3. bs \in Seq(Nat) /\ Len(bs) \in Nat
    BY <1>3, <2>2
  <2>4. At(bs, 1, a \o b)
    BY Zenon, <1>3, <2>3, AtWhole
  <2>5. At(bs, 1, a) /\ At(bs, 1 + Len(a), b)
    BY SMTT(30), <2>1, <2>3, <2>4, AtJoin
  <2> QED BY SMTT(30), <1>3, <2>2, <2>5
<1>5. i \in Nat \ {0} /\ j = Len(bs) + 1 /\ At(bs, i, b) /\ Len(bs) + 1 \in Nat \ {0}
  BY <1>1, <1>2, <1>4
<1>6. Goes(bs, F, M, LockMessage(Nil, 0), 1, LockMessage(r, 0), i)
  <2>1. CASE r = Nil
    <3>1. i = 1
      BY <2>1 DEF SizeNested
    <3> QED BY <2>1, <3>1 DEF Goes
  <2>2. CASE r \in SentResources
    <3>1. Nested(bs, 1, MarshalResource(r), r, i)
      BY SMTT(30), <1>4, <2>2, NestedAt DEF a
    <3> QED BY <3>1, LockResourceAt
  <2> QED BY <2>1, <2>2
<1> HIDE DEF i
<1>7. Goes(bs, F, M, LockMessage(r, 0), i, LockMessage(r, t), j)
  BY SMTT(30), <1>0, <1>4, <1>5, LockTtlAt DEF b
<1>8. Goes(bs, F, M, LockMessage(Nil, 0), 1, LockMessage(r, t), Len(bs) + 1)
  BY <1>5, <1>6, <1>7, Zenon DEF Goes
<1>9. Reading(bs, F, M, LockMessage(r, t), Len(bs) + 1)
  BY SMTT(30), <1>0, <1>4, <1>5, LockReads
<1>10. Decode(bs, F, M, LockMessage(Nil, 0)) = Read(LockMessage(r, t), Len(bs) + 1)
  BY <1>8, <1>9, MessageEnd
<1>11. UnmarshalLockRequest(bs) = Decode(bs, F, M, LockMessage(Nil, 0))
  BY DEF UnmarshalLockRequest, LockMessage
<1> QED BY <1>10, <1>11 DEF bs

(* Two and three strings written one after the other.                      *)
LEMMA TwoAt ==
  ASSUME NEW a \in Seq(Nat), NEW b \in Seq(Nat)
  PROVE  /\ a \o b \in Seq(Nat) /\ Len(a \o b) = Len(a) + Len(b)
         /\ At(a \o b, 1, a) /\ At(a \o b, 1 + Len(a), b)
<1> DEFINE bs == a \o b
<1>1. bs \in Seq(Nat) /\ Len(bs) = Len(a) + Len(b)
  BY Join
<1>2. bs \in Seq(Nat)
  BY <1>1
<1>3. At(bs, 1, a \o b)
  BY Zenon, <1>2, AtWhole
<1> HIDE DEF bs
<1>4. Len(bs) \in Nat
  BY <1>2
<1>5. At(bs, 1, a) /\ At(bs, 1 + Len(a), b)
  BY <1>3, <1>4, AtJoin
<1> QED BY <1>1, <1>5 DEF bs

(* Three byte strings written one after the other are found one after the  *)
(* other.                                                                  *)
LEMMA ThreeAt ==
  ASSUME NEW a \in Seq(Nat), NEW b \in Seq(Nat), NEW c \in Seq(Nat)
  PROVE  LET bs == (a \o b) \o c IN
         /\ bs \in Seq(Nat) /\ Len(bs) = Len(a) + Len(b) + Len(c)
         /\ At(bs, 1, a) /\ At(bs, 1 + Len(a), b) /\ At(bs, 1 + Len(a) + Len(b), c)
<1> DEFINE ab == a \o b
           bs == ab \o c
<1>1. ab \in Seq(Nat) /\ Len(ab) = Len(a) + Len(b)
  BY Join
<1>2. ab \in Seq(Nat)
  BY <1>1
<1>3. At(bs, 1, ab) => At(bs, 1, a \o b)
  OBVIOUS
<1> HIDE DEF ab
<1>4. bs \in Seq(Nat) /\ Len(bs) = Len(ab) + Len(c) /\ At(bs, 1, ab) /\ At(bs, 1 + Len(ab), c)
  BY <1>2, TwoAt
<1> HIDE DEF bs
<1>5. bs \in Seq(Nat)
  BY <1>4
<1>6. Len(bs) \in Nat
  BY <1>5
<1>7. At(bs, 1, a) /\ At(bs, 1 + Len(a), b)
  BY SMTT(30), <1>3, <1>4, <1>6, AtJoin
<1>8. At(bs, 1 + Len(a) + Len(b), c) /\ Len(bs) = Len(a) + Len(b) + Len(c)
  <2>1. 1 + Len(ab) = 1 + Len(a) + Len(b)
    BY <1>1
  <2> QED BY <1>1, <1>4, <2>1
<1> QED BY <1>5, <1>7, <1>8 DEF bs, ab

(* The bytes of a Lock request of a later version, whose resource and      *)
(* itself end with a field that this version does not know.                *)
Newer(r, t, x) ==
  PutBytes(10, SizeResource(r) + Len(x), MarshalResource(r) \o x) \o PutVarint(16, t) \o x

(* It is decoded as the request without those fields.                      *)
LEMMA NewerTrip ==
  ASSUME NEW r \in SentResources, NEW t \in IntsOf(WordBits), NEW x, LaterField(x)
  PROVE  UnmarshalLockRequest(Newer(r, t, x)) = Read(LockMessage(r, t), Len(Newer(r, t, x)) + 1)
<1> DEFINE s == MarshalResource(r) \o x
           a == PutBytes(10, Len(s), s)
           b == PutVarint(16, t)
           bs == Newer(r, t, x)
           i == 1 + SizeBytes(Len(s))
           j == i + SizeVarint(t)
           F == LockRequestFields
           M == LockRequests
<1>0. t \in Int /\ r \in Resources /\ 0 \in Int /\ x \in Seq(Nat) /\ Len(x) <= Pow2[WordBits - 5]
  <2>1. x \in Strings
    BY Zenon DEF LaterField
  <2> QED BY <2>1, IntsType, SentType DEF Strings, Bytes
<1>1. s \in Seq(Nat) /\ Len(s) = SizeResource(r) + Len(x) /\ Len(s) \in 0 .. 10 * Pow2[WordBits - 5] + 5
  <2> DEFINE y == MarshalResource(r)
  <2>1. y \in Seq(Nat) /\ Len(y) = SizeResource(r) /\ SizeResource(r) \in 0 .. 9 * Pow2[WordBits - 5] + 5
    BY MarshalResourceSize
  <2>2. y \in Seq(Nat) /\ x \in Seq(Nat)
    BY <1>0, <2>1
  <2> HIDE DEF y
  <2>3. y \o x \in Seq(Nat) /\ Len(y \o x) = Len(y) + Len(x)
    BY <2>2, Join
  <2>4. Len(y) + Len(x) \in 0 .. 10 * Pow2[WordBits - 5] + 5
    BY SMTT(30), <1>0, <2>1, Room
  <2> QED BY <2>1, <2>3, <2>4 DEF y
<1>2. Len(s) \in 0 .. Words - 1 /\ Len(s) < Pow2[WordBits - 1]
  BY <1>1, Sizeable
<1>3. UnmarshalResource(s, Blank) = Read(r, Len(s) + 1)
  BY UnmarshalNewer
<1>4. bs = (a \o b) \o x
  BY <1>1, Zenon DEF Newer
<1> HIDE DEF s
<1>5. s \in Seq(Nat)
  BY <1>1
<1>6. a \in Seq(Nat) /\ Len(a) = SizeBytes(Len(s)) /\ SizeBytes(Len(s)) \in Nat
  <2>1. 10 \in Nat
    OBVIOUS
  <2>2. a \in Seq(Nat) /\ Len(a) = SizeBytes(Len(s))
    BY SMTT(30), <1>2, <1>5, <2>1, PutBytesSize
  <2>3. Len(a) \in Nat
    <3> HIDE DEF a
    <3> QED BY <2>2
  <2> QED BY <2>2, <2>3
<1>7. b \in Seq(Nat) /\ Len(b) = SizeVarint(t) /\ SizeVarint(t) \in Nat
  <2>1. 16 \in Nat
    OBVIOUS
  <2> QED BY Zenon, <1>0, <2>1, PutSizes
<1> HIDE DEF bs, a, b
<1>8. /\ bs \in Seq(Nat) /\ Len(bs) = Len(a) + Len(b) + Len(x)
      /\ At(bs, 1, a) /\ At(bs, 1 + Len(a), b) /\ At(bs, 1 + Len(a) + Len(b), x)
  <2>1. a \in Seq(Nat) /\ b \in Seq(Nat) /\ x \in Seq(Nat)
    BY SMTT(30), <1>0, <1>6, <1>7
  <2> QED BY <1>4, <2>1, ThreeAt
<1>9. /\ i \in Nat \ {0} /\ j \in Nat \ {0} /\ j + Len(x) = Len(bs) + 1 /\ Len(bs) + 1 \in Nat \ {0}
      /\ At(bs, i, b) /\ At(bs, j, x)
  BY SMTT(30), <1>0, <1>6, <1>7, <1>8
<1>10. Nested(bs, 1, s, r, i)
  <2>1. 1 \in Nat \ {0}
    OBVIOUS
  <2> QED BY <1>0, <1>2, <1>3, <1>5, <1>8, <2>1, Zenon DEF Nested, a
<1> HIDE DEF i
<1>11. Goes(bs, F, M, LockMessage(Nil, 0), 1, LockMessage(r, 0), i)
  BY SMTT(30), <1>10, LockResourceAt
<1>12. Goes(bs, F, M, LockMessage(r, 0), i, LockMessage(r, t), j)
  BY SMTT(30), <1>0, <1>8, <1>9, LockTtlAt DEF b
<1> HIDE DEF j
<1>13. Goes(bs, F, M, LockMessage(r, t), j, LockMessage(r, t), j + Len(x))
  <2>1. Reading(bs, F, M, LockMessage(r, t), j)
    BY SMTT(30), <1>0, <1>8, <1>9, LockReads
  <2> QED BY Zenon, <1>9, <2>1, MessageLaterAt
<1>14. Goes(bs, F, M, LockMessage(Nil, 0), 1, LockMessage(r, t), Len(bs) + 1)
  BY <1>9, <1>11, <1>12, <1>13, Zenon DEF Goes
<1>15. Reading(bs, F, M, LockMessage(r, t), Len(bs) + 1)
  BY SMTT(30), <1>0, <1>8, <1>9, LockReads
<1>16. Decode(bs, F, M, LockMessage(Nil, 0)) = Read(LockMessage(r, t), Len(bs) + 1)
  BY SMTT(30), <1>14, <1>15, MessageEnd
<1>17. UnmarshalLockRequest(bs) = Decode(bs, F, M, LockMessage(Nil, 0))
  BY DEF UnmarshalLockRequest, LockMessage
<1> QED BY <1>16, <1>17 DEF bs

(* A message that carries a resource, or none.                             *)
LEMMA CarrierTrip ==
  ASSUME NEW r \in SentResources \cup {Nil}
  PROVE  Decode(PutNested(10, r), CarrierFields, Carriers, Carrier(Nil))
           = Read(Carrier(r), Len(PutNested(10, r)) + 1)
<1> DEFINE bs == PutNested(10, r)
           F == CarrierFields
           M == Carriers
<1>0. r \in Resources \cup {Nil}
  BY SentType
<1>1. bs \in Seq(Nat) /\ Len(bs) = SizeNested(r) /\ SizeNested(r) \in Nat
  BY PutNestedSize
<1>2. At(bs, 1, PutNested(10, r))
  <2>1. bs \in Seq(Nat)
    BY <1>1
  <2> QED BY <2>1, AtWhole
<1> HIDE DEF bs
<1>3. 1 + SizeNested(r) = Len(bs) + 1 /\ Len(bs) + 1 \in Nat \ {0}
  BY <1>1
<1>4. Goes(bs, F, M, Carrier(Nil), 1, Carrier(r), Len(bs) + 1)
  <2>1. CASE r = Nil
    <3>1. Len(bs) + 1 = 1
      BY <1>1, <2>1 DEF SizeNested
    <3> QED BY <2>1, <3>1 DEF Goes
  <2>2. CASE r \in SentResources
    <3>1. Nested(bs, 1, MarshalResource(r), r, 1 + SizeNested(r))
      BY SMTT(30), <1>1, <1>2, <2>2, NestedAt
    <3> QED BY SMTT(30), <1>3, <3>1, CarrierResourceAt
  <2> QED BY <2>1, <2>2
<1>5. Reading(bs, F, M, Carrier(r), Len(bs) + 1)
  <2>1. Carrier(r) \in Carriers
    BY <1>0 DEF Carrier, Carriers
  <2> QED BY <1>1, <1>3, <2>1, CarrierHasFields, Zenon DEF Reading
<1>6. Decode(bs, F, M, Carrier(Nil)) = Read(Carrier(r), Len(bs) + 1)
  BY SMTT(30), <1>4, <1>5, MessageEnd
<1> QED BY <1>6 DEF bs

(* A FetchRequest is read as it was sent.                                  *)
LEMMA FetchTrip ==
  ASSUME NEW s \in Strings
  PROVE  UnmarshalFetchRequest(PutString(10, s)) = Read([key |-> s], Len(PutString(10, s)) + 1)
<1> DEFINE bs == PutString(10, s)
           F == FetchRequestFields
           M == FetchRequests
           m == [key |-> <<>>]
           u == [key |-> s]
<1>1. bs \in Seq(Nat) /\ Len(bs) = SizeString(s) /\ SizeString(s) \in Nat
  <2>1. 10 \in Nat
    OBVIOUS
  <2> QED BY <2>1, PutSizes
<1>2. At(bs, 1, PutString(10, s))
  <2>1. bs \in Seq(Nat)
    BY <1>1
  <2> QED BY <2>1, AtWhole
<1>3. u \in M
  BY DEF FetchRequests, Strings
<1>4. UnmarshalFetchRequest(bs) = Decode(bs, F, M, m)
  BY DEF UnmarshalFetchRequest
<1> HIDE DEF bs
<1>5. 1 + SizeString(s) = Len(bs) + 1 /\ Len(bs) + 1 \in Nat \ {0} /\ 1 \in Nat \ {0}
  BY <1>1
<1>6. Goes(bs, F, M, m, 1, u, 1 + SizeString(s))
  BY <1>1, <1>2, <1>5, KeyAt
<1> HIDE DEF F, M, m, u
<1>7. Reading(bs, F, M, u, Len(bs) + 1)
  BY <1>1, <1>3, <1>5, FetchRequestHasFields, Zenon DEF Reading, F, M
<1>8. Goes(bs, F, M, m, 1, u, Len(bs) + 1)
  BY <1>5, <1>6, Zenon
<1>9. Decode(bs, F, M, m) = Read(u, Len(bs) + 1)
  BY <1>7, <1>8, MessageEnd
<1> QED BY <1>4, <1>9 DEF bs, u

(* A FetchAllRequest is read as it was sent.                               *)
LEMMA FetchAllTrip ==
  ASSUME NEW s \in Strings, NEW x \in IntsOf(EnumBits)
  PROVE  UnmarshalFetchAllRequest(MarshalFetchAllRequest(TypeMessage(s, x)))
           = Read(TypeMessage(s, x), Len(MarshalFetchAllRequest(TypeMessage(s, x))) + 1)
<1> DEFINE a == PutString(10, s)
           b == PutVarint(16, x)
           bs == MarshalFetchAllRequest(TypeMessage(s, x))
           i == 1 + SizeString(s)
           j == i + SizeVarint(x)
           F == FetchAllRequestFields
           M == FetchAllRequests
<1>0. x \in Int /\ s \in Bytes
  BY IntsType DEF Strings
<1>1. a \in Seq(Nat) /\ Len(a) = SizeString(s) /\ SizeString(s) \in Nat
  <2>1. 10 \in Nat
    OBVIOUS
  <2> QED BY <2>1, PutSizes
<1>2. b \in Seq(Nat) /\ Len(b) = SizeVarint(x) /\ SizeVarint(x) \in Nat
  <2>1. 16 \in Nat
    OBVIOUS
  <2> QED BY <1>0, <2>1, PutSizes
<1>3. bs = a \o b
  BY DEF MarshalFetchAllRequest, TypeMessage
<1> HIDE DEF bs, a, b
<1>4. bs \in Seq(Nat) /\ Len(bs) = Len(a) + Len(b) /\ At(bs, 1, a) /\ At(bs, 1 + Len(a), b)
  <2>1. a \in Seq(Nat) /\ b \in Seq(Nat)
    BY <1>1, <1>2
  <2> QED BY SMTT(30), <1>3, <2>1, TwoAt
<1>5. i \in Nat \ {0} /\ j = Len(bs) + 1 /\ At(bs, i, b) /\ Len(bs) + 1 \in Nat \ {0} /\ 1 \in Nat \ {0}
  BY SMTT(30), <1>1, <1>2, <1>4
<1>6. Goes(bs, F, M, TypeMessage(<<>>, 0), 1, TypeMessage(s, 0), i)
  BY Zenon, <1>4, <1>5, KeyAt DEF a
<1> HIDE DEF i
<1>7. Goes(bs, F, M, TypeMessage(s, 0), i, TypeMessage(s, x), j)
  BY SMTT(30), <1>0, <1>4, <1>5, FetchAllCodeAt DEF b
<1>8. Goes(bs, F, M, TypeMessage(<<>>, 0), 1, TypeMessage(s, x), Len(bs) + 1)
  BY <1>5, <1>6, <1>7, Zenon DEF Goes
<1>9. Reading(bs, F, M, TypeMessage(s, x), Len(bs) + 1)
  <2>1. TypeMessage(s, x) \in M
    BY <1>0 DEF TypeMessage, FetchAllRequests
  <2> QED BY <1>4, <1>5, <2>1, FetchAllRequestHasFields, Zenon DEF Reading
<1>10. Decode(bs, F, M, TypeMessage(<<>>, 0)) = Read(TypeMessage(s, x), Len(bs) + 1)
  BY <1>8, <1>9, MessageEnd
<1>11. UnmarshalFetchAllRequest(bs) = Decode(bs, F, M, TypeMessage(<<>>, 0))
  BY DEF UnmarshalFetchAllRequest, TypeMessage
<1> QED BY <1>10, <1>11 DEF bs

(* An empty reply is read as an empty reply.                               *)
LEMMA EmptyTrip == Decode(<<>>, <<>>, {<<>>}, <<>>) = Read(<<>>, Len(<<>>) + 1)
<1>1. Reading(<<>>, <<>>, {<<>>}, <<>>, Len(<<>>) + 1)
  BY EmptyHasFields DEF Reading
<1>2. Goes(<<>>, <<>>, {<<>>}, <<>>, 1, <<>>, Len(<<>>) + 1)
  BY DEF Goes
<1> QED BY <1>1, <1>2, MessageEnd

(* The bytes of the first n resources are those of the first n - 1, and    *)
(* the nth one.                                                            *)
LEMMA FirstBytes ==
  ASSUME NEW rs \in Seq(SentResources)
  PROVE  /\ MarshalFirst(rs)[0] = <<>>
         /\ \A n \in 1 .. Len(rs) : MarshalFirst(rs)[n] = MarshalFirst(rs)[n - 1] \o PutNested(10, rs[n])
<1> DEFINE p == MarshalFirst(rs)
           put(k) == PutNested(10, rs[k])
<1>1. Len(rs) \in Nat /\ 0 \in 0 .. Len(rs)
  OBVIOUS
<1>2. p = [k \in 0 .. Len(rs) |-> IF k = 0 THEN <<>> ELSE p[k - 1] \o put(k)]
  BY Zenon, <1>1, MarshalFirstEquation
<1> HIDE DEF p, put
<1>3. p[0] = <<>>
  BY <1>1, <1>2
<1>4. ASSUME NEW n \in 1 .. Len(rs) PROVE p[n] = p[n - 1] \o put(n)
  <2>1. n \in 0 .. Len(rs) /\ n # 0
    BY <1>1
  <2> QED BY <1>2, <2>1
<1> QED BY Zenon, <1>3, <1>4 DEF p, put

(* The resources of a list are written one after the other.                *)
LEMMA ListPieces ==
  ASSUME NEW rs \in Seq(SentResources), NEW bs, bs = MarshalFirst(rs)[Len(rs)]
  PROVE  /\ bs \in Seq(Nat)
         /\ \A n \in 1 .. Len(rs) : At(bs, 1 + Len(MarshalFirst(rs)[n - 1]), PutNested(10, rs[n]))
<1> DEFINE p == MarshalFirst(rs)
           T == {k \in Nat : k <= Len(rs) => At(bs, 1, p[Len(rs) - k])}
<1>1. \A n \in 0 .. Len(rs) : p[n] \in Seq(Nat)
  BY Zenon, MarshalFirstSize
<1>2. bs \in Seq(Nat) /\ Len(bs) \in Nat
  <2>1. Len(rs) \in 0 .. Len(rs)
    OBVIOUS
  <2>2. bs \in Seq(Nat)
    BY <1>1, <2>1
  <2> QED BY <2>2
<1>3. \A n \in 1 .. Len(rs) : p[n] = p[n - 1] \o PutNested(10, rs[n])
  BY Zenon, FirstBytes
<1>4. ASSUME NEW n \in 1 .. Len(rs)
      PROVE  n - 1 \in 0 .. Len(rs) /\ n \in 0 .. Len(rs) /\ p[n - 1] \in Seq(Nat) /\ PutNested(10, rs[n]) \in Seq(Nat)
  <2>1. n - 1 \in 0 .. Len(rs) /\ n \in 0 .. Len(rs) /\ rs[n] \in SentResources
    OBVIOUS
  <2> QED BY <1>1, <2>1, PutNestedSize
<1>5. ASSUME NEW n \in 1 .. Len(rs), At(bs, 1, p[n])
      PROVE  At(bs, 1, p[n - 1]) /\ At(bs, 1 + Len(p[n - 1]), PutNested(10, rs[n]))
  <2> DEFINE a == p[n - 1]
             b == PutNested(10, rs[n])
  <2>1. a \in Seq(Nat) /\ b \in Seq(Nat) /\ At(bs, 1, a \o b)
    BY Zenon, <1>3, <1>4, <1>5
  <2> HIDE DEF a, b
  <2>2. At(bs, 1, a) /\ At(bs, 1 + Len(a), b)
    BY SMTT(30), <1>2, <2>1, AtJoin
  <2> QED BY SMTT(30), <2>2 DEF a, b
<1> HIDE DEF p
<1>6. 0 \in T
  <2>1. Len(rs) - 0 = Len(rs)
    BY SMTT(30)
  <2> QED BY SMTT(30), <1>2, <2>1, AtWhole DEF p
<1>7. ASSUME NEW k \in Nat, k \in T PROVE k + 1 \in T
  <2> SUFFICES ASSUME k + 1 <= Len(rs) PROVE At(bs, 1, p[Len(rs) - (k + 1)])
    BY SMTT(30)
  <2>1. Len(rs) - k \in 1 .. Len(rs) /\ (Len(rs) - k) - 1 = Len(rs) - (k + 1) /\ k <= Len(rs)
    BY SMTT(30)
  <2> QED BY SMTT(30), <1>5, <1>7, <2>1
<1>8. \A k \in Nat : k \in T
  <2> HIDE DEF T
  <2> QED BY SMTT(30), <1>6, <1>7, Induction
<1>9. ASSUME NEW n \in 1 .. Len(rs) PROVE At(bs, 1, p[n])
  <2>1. Len(rs) - n \in Nat /\ Len(rs) - n <= Len(rs) /\ Len(rs) - (Len(rs) - n) = n
    BY SMTT(30)
  <2> QED BY SMTT(30), <1>8, <2>1
<1> QED BY SMTT(30), <1>2, <1>5, <1>9 DEF p

(* What a list is marshalled to is read back resource by resource.         *)
LEMMA ListTrip ==
  ASSUME NEW rs \in Seq(SentResources)
  PROVE  UnmarshalFetchAllResponse(MarshalFirst(rs)[Len(rs)])
           = Read([resources |-> rs], Len(MarshalFirst(rs)[Len(rs)]) + 1)
<1> DEFINE p == MarshalFirst(rs)
           bs == p[Len(rs)]
           F == FetchAllResponseFields
           M == FetchAllResponses
           m(n) == [resources |-> SubSeq(rs, 1, n)]
           i(n) == 1 + Len(p[n])
           T == {n \in Nat : n <= Len(rs) => Goes(bs, F, M, m(0), 1, m(n), i(n))}
<1>1. Len(rs) \in Nat /\ rs \in Seq(Resources) /\ SubSeq(rs, 1, Len(rs)) = rs /\ SubSeq(rs, 1, 0) = <<>>
  <2>1. SentResources \subseteq Resources
    BY SMTT(30), SentType
  <2> QED BY SMTT(30), <2>1
<1>2. /\ bs \in Seq(Nat)
      /\ \A n \in 1 .. Len(rs) : At(bs, i(n - 1), PutNested(10, rs[n]))
  BY SMTT(30), ListPieces
<1>3. \A n \in 0 .. Len(rs) : p[n] \in Seq(Nat) /\ Len(p[n]) \in Nat /\ i(n) \in Nat \ {0}
  <2>1. ASSUME NEW n \in 0 .. Len(rs) PROVE p[n] \in Seq(Nat)
    BY Zenon, MarshalFirstSize
  <2> HIDE DEF p
  <2> QED BY SMTT(30), <2>1
<1>4. ASSUME NEW n \in 1 .. Len(rs)
      PROVE  i(n) = i(n - 1) + SizeNested(rs[n]) /\ n - 1 \in 0 .. Len(rs)
  <2> DEFINE put == PutNested(10, rs[n])
  <2>1. n - 1 \in 0 .. Len(rs) /\ n \in 0 .. Len(rs) /\ rs[n] \in SentResources
    BY SMTT(30)
  <2>2. p[n] = p[n - 1] \o put
    BY Zenon, FirstBytes
  <2>3. p[n - 1] \in Seq(Nat)
    BY <1>3, <2>1
  <2>4. put \in Seq(Nat) /\ Len(put) = SizeNested(rs[n]) /\ SizeNested(rs[n]) \in Nat
    BY SMTT(30), <2>1, PutNestedSize
  <2> HIDE DEF p, put
  <2>5. Len(p[n]) = Len(p[n - 1]) + Len(put)
    <3>1. p[n - 1] \in Seq(Nat) /\ put \in Seq(Nat)
      BY SMTT(30), <2>3, <2>4
    <3> QED BY SMTT(30), <2>2, <3>1, Join
  <2>6. Len(p[n - 1]) \in Nat
    BY <2>3
  <2> QED BY SMTT(30), <2>1, <2>4, <2>5, <2>6
<1>5. i(0) = 1
  <2>1. p[0] = <<>>
    BY Zenon, FirstBytes
  <2> HIDE DEF p
  <2> QED BY SMTT(30), <2>1
<1> HIDE DEF p, bs, i
<1>6. 0 \in T
  BY <1>5 DEF Goes
<1>7. ASSUME NEW n \in Nat, n \in T PROVE n + 1 \in T
  <2> SUFFICES ASSUME n + 1 <= Len(rs) PROVE Goes(bs, F, M, m(0), 1, m(n + 1), i(n + 1))
    OBVIOUS
  <2> DEFINE r == rs[n + 1]
             j == i(n) + SizeNested(r)
  <2>1. n + 1 \in 1 .. Len(rs) /\ (n + 1) - 1 = n /\ n \in 0 .. Len(rs) /\ n <= Len(rs)
    BY SMTT(30), <1>1
  <2>2. r \in SentResources
    BY SMTT(30), <2>1
  <2>3. i(n) \in Nat \ {0} /\ At(bs, i(n), PutNested(10, r)) /\ i(n + 1) = j
    BY SMTT(30), <1>2, <1>3, <1>4, <2>1
  <2>4. SubSeq(rs, 1, n) \in Seq(Resources) /\ SubSeq(rs, 1, n + 1) = Append(SubSeq(rs, 1, n), r)
    BY SMTT(30), <1>1, <2>1
  <2> HIDE DEF r
  <2>5. Nested(bs, i(n), MarshalResource(r), r, j)
    BY SMTT(30), <1>2, <2>2, <2>3, NestedAt
  <2> HIDE DEF j
  <2>6. Goes(bs, F, M, [resources |-> SubSeq(rs, 1, n)], i(n), [resources |-> Append(SubSeq(rs, 1, n), r)], j)
    BY Zenon, <2>4, <2>5, ListedAt
  <2>7. Goes(bs, F, M, m(n), i(n), m(n + 1), i(n + 1))
    BY <2>3, <2>4, <2>6, Zenon
  <2>8. Goes(bs, F, M, m(0), 1, m(n), i(n))
    BY SMTT(30), <1>7, <2>1
  <2> HIDE DEF m
  <2> QED BY <2>7, <2>8, Zenon DEF Goes
<1>8. \A n \in Nat : n \in T
  <2> HIDE DEF T
  <2> QED BY SMTT(30), <1>6, <1>7, Induction
<1>9. Goes(bs, F, M, m(0), 1, m(Len(rs)), i(Len(rs)))
  <2>1. Len(rs) <= Len(rs)
    BY <1>1
  <2> QED BY SMTT(30), <1>1, <1>8, <2>1
<1>10. m(0) = [resources |-> <<>>] /\ m(Len(rs)) = [resources |-> rs] /\ [resources |-> rs] \in M
  BY SMTT(30), <1>1 DEF FetchAllResponses
<1>11. i(Len(rs)) = Len(bs) + 1 /\ Len(bs) + 1 \in Nat \ {0}
  <2>1. Len(bs) \in Nat
    BY SMTT(30), <1>2
  <2> QED BY SMTT(30), <2>1 DEF i, bs
<1> HIDE DEF m, T
<1>12. Goes(bs, F, M, [resources |-> <<>>], 1, [resources |-> rs], Len(bs) + 1)
  BY <1>9, <1>10, <1>11, Zenon
<1>13. Reading(bs, F, M, [resources |-> rs], Len(bs) + 1)
  BY <1>2, <1>10, <1>11, FetchAllResponseHasFields, Zenon DEF Reading
<1>14. Decode(bs, F, M, [resources |-> <<>>]) = Read([resources |-> rs], Len(bs) + 1)
  BY <1>12, <1>13, MessageEnd
<1> QED BY SMTT(30), <1>14 DEF UnmarshalFetchAllResponse, bs, p

-----------------------------------------------------------------------------
(* What is sent is received.                                               *)

(* Unmarshal of a request returns the message that Marshal was given and   *)
(* consumes all of its bytes (locket.pb.go:1329-2138 after 827-1080); a    *)
(* Lock request of a client that knows one field more, in the request and  *)
(* in its resource, is decoded as the same request without that field.     *)
THEOREM RequestsTravel ==
  /\ \A m \in SentLockRequests :
       UnmarshalLockRequest(MarshalLockRequest(m)) = Read(m, Len(MarshalLockRequest(m)) + 1)
  /\ \A m \in SentCarriers :
       UnmarshalReleaseRequest(MarshalReleaseRequest(m)) = Read(m, Len(MarshalReleaseRequest(m)) + 1)
  /\ \A m \in SentFetchRequests :
       UnmarshalFetchRequest(MarshalFetchRequest(m)) = Read(m, Len(MarshalFetchRequest(m)) + 1)
  /\ \A m \in SentFetchAllRequests :
       UnmarshalFetchAllRequest(MarshalFetchAllRequest(m)) = Read(m, Len(MarshalFetchAllRequest(m)) + 1)
  /\ \A r \in SentResources, t \in IntsOf(WordBits), x \in Strings : LaterField(x) =>
       UnmarshalLockRequest(Newer(r, t, x)) = Read(LockMessage(r, t), Len(Newer(r, t, x)) + 1)
<1>1. ASSUME NEW m \in SentLockRequests
      PROVE  UnmarshalLockRequest(MarshalLockRequest(m)) = Read(m, Len(MarshalLockRequest(m)) + 1)
  <2>1. m.resource \in SentResources \cup {Nil} /\ m.ttl \in IntsOf(WordBits)
        /\ m = LockMessage(m.resource, m.ttl)
    BY DEF SentLockRequests, LockMessage
  <2> QED BY <2>1, LockTrip
<1>2. ASSUME NEW m \in SentCarriers
      PROVE  UnmarshalReleaseRequest(MarshalReleaseRequest(m)) = Read(m, Len(MarshalReleaseRequest(m)) + 1)
  <2>1. m.resource \in SentResources \cup {Nil} /\ m = Carrier(m.resource)
    BY DEF SentCarriers, Carrier
  <2>2. Decode(PutNested(10, m.resource), CarrierFields, Carriers, Carrier(Nil))
          = Read(Carrier(m.resource), Len(PutNested(10, m.resource)) + 1)
    BY <2>1, CarrierTrip
  <2>3. UnmarshalReleaseRequest(MarshalReleaseRequest(m))
          = Decode(PutNested(10, m.resource), CarrierFields, Carriers, Carrier(Nil))
    BY DEF UnmarshalReleaseRequest, MarshalReleaseRequest, Carrier
  <2> QED BY <2>1, <2>2, <2>3, Zenon DEF MarshalReleaseRequest
<1>3. ASSUME NEW m \in SentFetchRequests
      PROVE  UnmarshalFetchRequest(MarshalFetchRequest(m)) = Read(m, Len(MarshalFetchRequest(m)) + 1)
  <2>1. m.key \in Strings /\ m = [key |-> m.key]
    BY DEF SentFetchRequests
  <2>2. UnmarshalFetchRequest(PutString(10, m.key)) = Read([key |-> m.key], Len(PutString(10, m.key)) + 1)
    BY <2>1, FetchTrip
  <2> QED BY <2>1, <2>2, Zenon DEF MarshalFetchRequest
<1>4. ASSUME NEW m \in SentFetchAllRequests
      PROVE  UnmarshalFetchAllRequest(MarshalFetchAllRequest(m)) = Read(m, Len(MarshalFetchAllRequest(m)) + 1)
  <2>1. m.type \in Strings /\ m.code \in IntsOf(EnumBits) /\ m = TypeMessage(m.type, m.code)
    BY DEF SentFetchAllRequests, TypeMessage
  <2> QED BY <2>1, FetchAllTrip
<1>5. ASSUME NEW r \in SentResources, NEW t \in IntsOf(WordBits), NEW x \in Strings, LaterField(x)
      PROVE  UnmarshalLockRequest(Newer(r, t, x)) = Read(LockMessage(r, t), Len(Newer(r, t, x)) + 1)
  BY <1>5, NewerTrip, Zenon
<1> QED BY <1>1, <1>2, <1>3, <1>4, <1>5, Zenon

(* The same of the replies.                                                *)
THEOREM RepliesTravel ==
  /\ UnmarshalLockResponse(MarshalLockResponse(<<>>)) = Read(<<>>, Len(MarshalLockResponse(<<>>)) + 1)
  /\ UnmarshalReleaseResponse(MarshalReleaseResponse(<<>>)) = Read(<<>>, Len(MarshalReleaseResponse(<<>>)) + 1)
  /\ \A m \in SentCarriers :
       UnmarshalFetchResponse(MarshalFetchResponse(m)) = Read(m, Len(MarshalFetchResponse(m)) + 1)
  /\ \A m \in SentFetchAllResponses :
       UnmarshalFetchAllResponse(MarshalFetchAllResponse(m)) = Read(m, Len(MarshalFetchAllResponse(m)) + 1)
<1>1. UnmarshalLockResponse(MarshalLockResponse(<<>>)) = Read(<<>>, Len(MarshalLockResponse(<<>>)) + 1)
  BY EmptyTrip, Zenon DEF UnmarshalLockResponse, MarshalLockResponse
<1>2. UnmarshalReleaseResponse(MarshalReleaseResponse(<<>>)) = Read(<<>>, Len(MarshalReleaseResponse(<<>>)) + 1)
  BY EmptyTrip, Zenon DEF UnmarshalReleaseResponse, MarshalReleaseResponse
<1>3. ASSUME NEW m \in SentCarriers
      PROVE  UnmarshalFetchResponse(MarshalFetchResponse(m)) = Read(m, Len(MarshalFetchResponse(m)) + 1)
  <2>1. UnmarshalReleaseRequest(MarshalReleaseRequest(m)) = Read(m, Len(MarshalReleaseRequest(m)) + 1)
    BY RequestsTravel
  <2>2. MarshalFetchResponse(m) = MarshalReleaseRequest(m)
    BY DEF MarshalFetchResponse, MarshalReleaseRequest
  <2>3. UnmarshalFetchResponse(MarshalFetchResponse(m)) = UnmarshalReleaseRequest(MarshalReleaseRequest(m))
    BY <2>2, Zenon DEF UnmarshalFetchResponse, UnmarshalReleaseRequest
  <2> QED BY <2>1, <2>2, <2>3, Zenon
<1>4. ASSUME NEW m \in SentFetchAllResponses
      PROVE  UnmarshalFetchAllResponse(MarshalFetchAllResponse(m)) = Read(m, Len(MarshalFetchAllResponse(m)) + 1)
  <2>1. m.resources \in Seq(SentResources) /\ m = [resources |-> m.resources]
    BY DEF SentFetchAllResponses
  <2>2. UnmarshalFetchAllResponse(MarshalFirst(m.resources)[Len(m.resources)])
          = Read([resources |-> m.resources], Len(MarshalFirst(m.resources)[Len(m.resources)]) + 1)
    BY <2>1, ListTrip
  <2> QED BY <2>1, <2>2, Zenon DEF MarshalFetchAllResponse
<1> QED BY <1>1, <1>2, <1>3, <1>4, Zenon

(* MarshalTo fills the buffer that Size measured, for every message        *)
(* (locket.pb.go:827-1080 against 1109-1223).                              *)
THEOREM SizesExact ==
  /\ \A m \in SentLockRequests : Len(MarshalLockRequest(m)) = SizeLockRequest(m)
  /\ \A m \in SentCarriers : /\ Len(MarshalReleaseRequest(m)) = SizeReleaseRequest(m)
                             /\ Len(MarshalFetchResponse(m)) = SizeFetchResponse(m)
  /\ \A m \in SentFetchRequests : Len(MarshalFetchRequest(m)) = SizeFetchRequest(m)
  /\ \A m \in SentFetchAllRequests : Len(MarshalFetchAllRequest(m)) = SizeFetchAllRequest(m)
  /\ \A m \in SentFetchAllResponses : Len(MarshalFetchAllResponse(m)) = SizeFetchAllResponse(m)
<1>1. ASSUME NEW m \in SentLockRequests PROVE Len(MarshalLockRequest(m)) = SizeLockRequest(m)
  <2> DEFINE a == PutNested(10, m.resource)
             b == PutVarint(16, m.ttl)
  <2>1. m.resource \in SentResources \cup {Nil} /\ m.ttl \in Int /\ 16 \in Nat
    BY IntsType DEF SentLockRequests
  <2>2. a \in Seq(Nat) /\ Len(a) = SizeNested(m.resource)
    BY <2>1, PutNestedSize
  <2>3. b \in Seq(Nat) /\ Len(b) = SizeVarint(m.ttl)
    BY <2>1, PutSizes
  <2> HIDE DEF a, b
  <2>4. Len(a \o b) = Len(a) + Len(b)
    <3>1. a \in Seq(Nat) /\ b \in Seq(Nat)
      BY <2>2, <2>3
    <3> QED BY <3>1, Join
  <2> QED BY <2>2, <2>3, <2>4, Zenon DEF MarshalLockRequest, SizeLockRequest, a, b
<1>2. ASSUME NEW m \in SentCarriers
      PROVE  /\ Len(MarshalReleaseRequest(m)) = SizeReleaseRequest(m)
             /\ Len(MarshalFetchResponse(m)) = SizeFetchResponse(m)
  <2>1. m.resource \in SentResources \cup {Nil}
    BY DEF SentCarriers
  <2>2. Len(PutNested(10, m.resource)) = SizeNested(m.resource)
    BY <2>1, PutNestedSize
  <2> QED BY <2>2, Zenon DEF MarshalReleaseRequest, MarshalFetchResponse, SizeReleaseRequest, SizeFetchResponse
<1>3. ASSUME NEW m \in SentFetchRequests PROVE Len(MarshalFetchRequest(m)) = SizeFetchRequest(m)
  <2>1. m.key \in Strings /\ 10 \in Nat
    BY DEF SentFetchRequests
  <2>2. Len(PutString(10, m.key)) = SizeString(m.key)
    BY <2>1, PutSizes
  <2> QED BY <2>2, Zenon DEF MarshalFetchRequest, SizeFetchRequest
<1>4. ASSUME NEW m \in SentFetchAllRequests PROVE Len(MarshalFetchAllRequest(m)) = SizeFetchAllRequest(m)
  <2> DEFINE a == PutString(10, m.type)
             b == PutVarint(16, m.code)
  <2>1. m.type \in Strings /\ m.code \in Int /\ 10 \in Nat /\ 16 \in Nat
    BY IntsType DEF SentFetchAllRequests
  <2>2. a \in Seq(Nat) /\ Len(a) = SizeString(m.type)
    BY <2>1, PutSizes
  <2>3. b \in Seq(Nat) /\ Len(b) = SizeVarint(m.code)
    BY SMTT(30), <2>1, PutSizes
  <2> HIDE DEF a, b
  <2>4. Len(a \o b) = Len(a) + Len(b)
    <3>1. a \in Seq(Nat) /\ b \in Seq(Nat)
      BY <2>2, <2>3
    <3> QED BY <3>1, Join
  <2> QED BY <2>2, <2>3, <2>4, Zenon DEF MarshalFetchAllRequest, SizeFetchAllRequest, a, b
<1>5. ASSUME NEW m \in SentFetchAllResponses PROVE Len(MarshalFetchAllResponse(m)) = SizeFetchAllResponse(m)
  <2>1. m.resources \in Seq(SentResources)
    BY DEF SentFetchAllResponses
  <2>2. Len(m.resources) \in 0 .. Len(m.resources)
    BY <2>1
  <2>3. Len(MarshalFirst(m.resources)[Len(m.resources)]) = SizeFirst(m.resources)[Len(m.resources)]
    BY Zenon, <2>1, <2>2, MarshalFirstSize
  <2> QED BY <2>3, Zenon DEF MarshalFetchAllResponse, SizeFetchAllResponse
<1> QED BY <1>1, <1>2, <1>3, <1>4, <1>5, Zenon
=============================================================================
