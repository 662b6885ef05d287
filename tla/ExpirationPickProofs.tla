------------------------ MODULE ExpirationPickProofs -------------------------
(***************************************************************************)
(* The invariant of Expiration is preserved by lockPick: by RegisterTTL,   *)
(* whether a Lock handler or the burglar calls it, by the lists the        *)
(* burglar fetches, by the goroutines of checkExpiration, and when a       *)
(* process dies or is started.                                             *)
(***************************************************************************)
EXTENDS Expiration, TLAPS

USE DEF Live, Matches, AsRow, checkKeyFromLock, Ids, CheckKeys, Entry, Job

(* What the invariant says of the goroutines and of lockTTLs.              *)
PickTypeOK ==
  /\ lockTTLs \in [Servers -> [CheckKeys -> Entry \cup {NoEntry}]]
  /\ pc \in [Chans -> {"free", "waiting", "fetching", "releasing", "cleanup"}]
  /\ job \in [Chans -> Job \cup {NoJob}]
  /\ \A c \in Chans : pc[c] = "free" <=> job[c] = NoJob
  /\ left \in [Chans -> 0 .. MaxTTL]
  /\ closed \in SUBSET Chans

(* The part of the invariant that lockPick keeps: every goroutine waits on *)
(* a lock that was committed, and a registered lock has a live goroutine.  *)
PickInv ==
  /\ PickTypeOK
  /\ \A c \in Chans : Live(c) => Sound(job[c].lock)
  /\ ClosedLive /\ EntryHasGoroutine /\ NewestRegistered /\ TimersCover

(* A step that leaves lockPick, the table and time alone.                  *)
LEMMA PickUnchanged ==
  ASSUME PickInv, UNCHANGED <<tableVars, pickVars, timeVars>>
  PROVE  PickInv'
<1> USE DEF tableVars, pickVars, timeVars
<1>1. PickTypeOK' /\ ClosedLive'
  BY Zenon DEF PickInv, PickTypeOK, ClosedLive
<1>2. EntryHasGoroutine'
  BY DEF PickInv, EntryHasGoroutine
<1>3. NewestRegistered'
  BY SMTT(30) DEF PickInv, NewestRegistered, Newest
<1>4. TimersCover' /\ \A c \in Chans : Live(c)' => Sound(job[c].lock)'
  BY SMTT(30) DEF PickInv, TimersCover, Sound
<1> QED
  BY <1>1, <1>2, <1>3, <1>4 DEF PickInv

(* RegisterTTL, for a lock that agrees with the table.                     *)
LEMMA Registered ==
  ASSUME IndInv, NEW s \in Servers, NEW l \in Lock, Sound(l), RegisterTTL(s, l),
         UNCHANGED <<tableVars, timeVars>>
  PROVE  PickInv'
<1> USE TableAssumption, ExpirationAssumption DEF tableVars, timeVars
<1> DEFINE ck == <<l.key, l.id>>
           e  == lockTTLs[s][ck]
<1>0. PickInv /\ ck \in CheckKeys
  BY Zenon DEF IndInv, PickInv, PickTypeOK, TypeOK, KnownSound, Lock
<1>1. CASE UNCHANGED pickVars
  BY <1>0, <1>1, PickUnchanged
<1>2. CASE /\ e # NoEntry => e.index < l.index
           /\ closed' = IF e = NoEntry THEN closed ELSE closed \cup {e.channel}
           /\ StartCheck(s, l)
  <2>1. PICK c \in Chans :
                /\ pc[c] = "free"
                /\ closed' = IF e = NoEntry THEN closed ELSE closed \cup {e.channel}
                /\ lockTTLs' = [lockTTLs EXCEPT ![s][ck] = [index |-> l.index, channel |-> c]]
                /\ pc' = [pc EXCEPT ![c] = "waiting"]
                /\ job' = [job EXCEPT ![c] = [server |-> s, lock |-> l]]
                /\ left' = [left EXCEPT ![c] = l.ttl]
    BY Zenon, <1>2 DEF StartCheck
  <2>e. e \in Entry \cup {NoEntry} /\ l.index \in Nat /\ l.ttl \in 0 .. MaxTTL
    BY <1>0 DEF PickInv, PickTypeOK, Lock
  <2>2. /\ pc'[c] = "waiting" /\ job'[c] = [server |-> s, lock |-> l] /\ left'[c] = l.ttl
        /\ \A d \in Chans : d # c => pc'[d] = pc[d] /\ job'[d] = job[d] /\ left'[d] = left[d]
    BY <1>0, <2>1 DEF PickInv, PickTypeOK
  <2>3. /\ lockTTLs'[s][ck] = [index |-> l.index, channel |-> c]
        /\ \A z \in Servers, x \in CheckKeys :
             (z # s \/ x # ck) => lockTTLs'[z][x] = lockTTLs[z][x]
    BY <1>0, <2>1 DEF PickInv, PickTypeOK
  <2>4. PickTypeOK'
    <3>1. lockTTLs' \in [Servers -> [CheckKeys -> Entry \cup {NoEntry}]]
      BY Zenon, <1>0, <2>1, <2>e DEF PickInv, PickTypeOK
    <3>2. job' \in [Chans -> Job \cup {NoJob}] /\ job'[c] # NoJob
      BY <1>0, <2>1, <2>2 DEF PickInv, PickTypeOK
    <3>3. pc' \in [Chans -> {"free", "waiting", "fetching", "releasing", "cleanup"}]
          /\ left' \in [Chans -> 0 .. MaxTTL]
      BY <1>0, <2>1, <2>e DEF PickInv, PickTypeOK
    <3>4. closed' \in SUBSET Chans
      BY Zenon, <1>0, <2>1, <2>e DEF PickInv, PickTypeOK
    <3>5. \A d \in Chans : pc'[d] = "free" <=> job'[d] = NoJob
      <4> TAKE d \in Chans
      <4>1. CASE d = c
        BY <4>1, <2>2, <3>2
      <4>2. CASE d # c
        BY Zenon, <4>2, <2>2, <1>0 DEF PickInv, PickTypeOK
      <4> QED
        BY <4>1, <4>2
    <3> QED
      BY Zenon, <3>1, <3>2, <3>3, <3>4, <3>5 DEF PickTypeOK
  <2>5. \A d \in Chans : Live(d)' => Sound(job[d].lock)'
    BY SMTT(30), <1>0, <2>2 DEF PickInv, Sound
  <2>6. e # NoEntry => /\ e.channel \in Chans /\ Live(e.channel) /\ e.channel # c
                       /\ job[e.channel].server = s
                       /\ <<job[e.channel].lock.key, job[e.channel].lock.id>> = ck
    BY <1>0, <2>1, <2>e DEF PickInv, EntryHasGoroutine
  <2>7. c \notin closed'
    BY SMTT(30), <1>0, <2>1, <2>6 DEF PickInv, ClosedLive
  <2>8. ClosedLive'
    BY SMTT(30), <1>0, <2>1, <2>2, <2>6 DEF PickInv, ClosedLive, PickTypeOK
  <2>9. EntryHasGoroutine'
    <3> SUFFICES ASSUME NEW z \in Servers, NEW x \in CheckKeys, lockTTLs'[z][x] # NoEntry
                 PROVE  LET d == lockTTLs'[z][x].channel IN
                        /\ pc'[d] # "free" /\ d \notin closed' /\ job'[d].server = z
                        /\ <<job'[d].lock.key, job'[d].lock.id>> = x
                        /\ job'[d].lock.index = lockTTLs'[z][x].index
      BY DEF EntryHasGoroutine
    <3>1. CASE z = s /\ x = ck
      <4>1. lockTTLs'[z][x].channel = c /\ lockTTLs'[z][x].index = l.index
        BY <3>1, <2>3
      <4>2. /\ job'[c].server = s /\ job'[c].lock = l /\ pc'[c] # "free"
        BY SMTT(30), <2>2
      <4> QED
        BY SMTT(30), <3>1, <4>1, <4>2, <2>7
    <3>2. CASE z # s \/ x # ck
      <4> DEFINE d == lockTTLs[z][x].channel
      <4>1. lockTTLs'[z][x] = lockTTLs[z][x] /\ lockTTLs[z][x] # NoEntry
        BY SMTT(30), <3>2, <2>3
      <4>2. /\ d \in Chans /\ Live(d) /\ d \notin closed /\ job[d].server = z
            /\ <<job[d].lock.key, job[d].lock.id>> = x
            /\ job[d].lock.index = lockTTLs[z][x].index
        BY SMTT(30), <4>1, <1>0 DEF PickInv, EntryHasGoroutine, PickTypeOK
      <4>3. d # c /\ (e # NoEntry => d # e.channel)
        BY SMTT(30), <4>2, <3>2, <2>1, <2>6
      <4>4. d \notin closed'
        BY SMTT(30), <4>2, <4>3, <2>1
      <4>5. pc'[d] = pc[d] /\ job'[d] = job[d]
        BY SMTT(30), <4>2, <4>3, <2>2
      <4> QED
        BY SMTT(30), <4>1, <4>2, <4>4, <4>5
    <3> QED
      BY SMTT(30), <3>1, <3>2
  <2>10. NewestRegistered'
    <3> SUFFICES ASSUME NEW d \in Chans, Live(d)', Newest(d)'
                 PROVE  lockTTLs'[job'[d].server][<<job'[d].lock.key, job'[d].lock.id>>] =
                          [index |-> job'[d].lock.index, channel |-> d]
      BY DEF NewestRegistered
    <3>1. CASE d = c
      BY SMTT(30), <3>1, <2>2, <2>3
    <3>2. CASE d # c
      <4>0. job'[d] = job[d] /\ pc'[d] = pc[d]
        BY <3>2, <2>2
      <4>1. Live(d) /\ Newest(d) /\ job'[d] = job[d] /\ job[d] \in Job
        BY Zenon, <4>0, <1>0 DEF Newest, PickInv, PickTypeOK
      <4>2. lockTTLs[job[d].server][<<job[d].lock.key, job[d].lock.id>>] =
              [index |-> job[d].lock.index, channel |-> d]
        BY Zenon, <4>1, <1>0 DEF PickInv, NewestRegistered
      <4>3. ~(job[d].server = s /\ <<job[d].lock.key, job[d].lock.id>> = ck)
        <5> SUFFICES ASSUME job[d].server = s, <<job[d].lock.key, job[d].lock.id>> = ck PROVE FALSE
          OBVIOUS
        <5>1. e = [index |-> job[d].lock.index, channel |-> d]
          BY <4>2
        <5>2. e # NoEntry
          BY <5>1, <4>1 DEF Lock
        <5>3. job[d].lock.index < l.index
          BY SMTT(30), <5>1, <5>2, <1>2
        <5>4. job[d].lock.index = version[l.key][l.id]
          BY SMTT(30), <4>1 DEF Newest
        <5>5. l.index <= version[l.key][l.id] /\ version[l.key][l.id] \in Nat
          BY SMTT(30) DEF Sound, IndInv, TypeOK, Lock
        <5> QED
          BY <5>3, <5>4, <5>5, <2>e
      <4> QED
        BY <4>1, <4>2, <4>3, <2>3 DEF Lock
    <3> QED
      BY <3>1, <3>2
  <2>11. TimersCover'
    <3> SUFFICES ASSUME NEW d \in Chans
                 PROVE  LET m == job'[d].lock IN
                        /\ (pc'[d] = "waiting" /\ Matches(rows[m.key], m)) => age[m.key] + left'[d] >= m.ttl
                        /\ (pc'[d] = "fetching" /\ Matches(rows[m.key], m)) => age[m.key] >= m.ttl
                        /\ pc'[d] = "releasing" => m.owner \in lapsed[m.key]
      BY DEF TimersCover
    <3>1. CASE d = c
      <4>1. age[l.key] \in 0 .. MaxTTL
        BY SMTT(30) DEF IndInv, TypeOK, Lock
      <4> QED
        BY <3>1, <4>1, <2>2, <2>e
    <3>2. CASE d # c
      BY Zenon, <3>2, <2>2, <1>0 DEF PickInv, TimersCover
    <3> QED
      BY SMTT(30), <3>1, <3>2
  <2> QED
    BY <2>4, <2>5, <2>8, <2>9, <2>10, <2>11 DEF PickInv
<1> QED
  BY Zenon, <1>1, <1>2 DEF RegisterTTL

(* The parts of the invariant that no step of lockPick can disturb.        *)
LEMMA PickStep ==
  ASSUME IndInv, PickInv', UNCHANGED <<tableVars, timeVars>>,
         registering' \in [Servers -> SUBSET Lock], burglar' \in [Servers -> SUBSET Lock],
         up' \in [Servers -> BOOLEAN], faults' \in 0 .. MaxFaults,
         \A z \in Servers : \A l \in registering'[z] \cup burglar'[z] : Sound(l)
  PROVE  IndInv'
<1> USE DEF tableVars, timeVars
<1>1. TypeOK'
  BY Zenon DEF IndInv, TypeOK, PickInv, PickTypeOK
<1>2. RowsNewest' /\ OverdueLapsed'
  BY SMTT(30) DEF IndInv, RowsNewest, OverdueLapsed, Overdue
<1>3. KnownSound'
  BY SMTT(30) DEF PickInv, KnownSound, Sound
<1> QED
  BY <1>1, <1>2, <1>3 DEF IndInv, PickInv

(* The part of the invariant that is about lockPick.                       *)
LEMMA IndInvPick == IndInv => PickInv
  BY Zenon DEF IndInv, PickInv, PickTypeOK, TypeOK, KnownSound

(* The RegisterTTL call of a Lock handler.                                 *)
LEMMA HandlerRegisterStep ==
  ASSUME IndInv, NEW s \in Servers, HandlerRegister(s)
  PROVE  IndInv'
<1>1. PICK l \in registering[s] :
        /\ RegisterTTL(s, l)
        /\ registering' = [registering EXCEPT ![s] = @ \ {l}]
        /\ UNCHANGED <<tableVars, burglar, up, timeVars, faults>>
  BY Zenon DEF HandlerRegister
<1>2. l \in Lock /\ Sound(l)
  BY DEF IndInv, TypeOK, KnownSound
<1>3. PickInv'
  BY <1>1, <1>2, Registered
<1>4. registering' \in [Servers -> SUBSET Lock] /\ \A z \in Servers : registering'[z] \subseteq registering[z]
  BY <1>1 DEF IndInv, TypeOK
<1> QED
  BY Zenon, <1>1, <1>3, <1>4, PickStep DEF IndInv, TypeOK, KnownSound

(* The RegisterTTL call of the burglar.                                    *)
LEMMA BurglarRegisterStep ==
  ASSUME IndInv, NEW s \in Servers, BurglarRegister(s)
  PROVE  IndInv'
<1>1. PICK l \in burglar[s] :
        /\ RegisterTTL(s, l)
        /\ burglar' = [burglar EXCEPT ![s] = @ \ {l}]
        /\ UNCHANGED <<tableVars, registering, up, timeVars, faults>>
  BY Zenon DEF BurglarRegister
<1>2. l \in Lock /\ Sound(l)
  BY DEF IndInv, TypeOK, KnownSound
<1>3. PickInv'
  BY <1>1, <1>2, Registered
<1>4. burglar' \in [Servers -> SUBSET Lock] /\ \A z \in Servers : burglar'[z] \subseteq burglar[z]
  BY <1>1 DEF IndInv, TypeOK
<1> QED
  BY Zenon, <1>1, <1>3, <1>4, PickStep DEF IndInv, TypeOK, KnownSound

(* A list the burglar fetches holds copies of the rows themselves.         *)
LEMMA FetchAllSound == IndInv => \A l \in FetchAll(Types) : l \in Lock /\ Sound(l)
<1> SUFFICES ASSUME IndInv, NEW l \in FetchAll(Types) PROVE l \in Lock /\ Sound(l)
  OBVIOUS
<1>1. PICK k \in Keys : Held(rows[k]) /\ l = AsLock(k, rows[k])
  BY DEF FetchAll
<1>2. rows[k] \in Row /\ rows[k] # NoRow
  BY <1>1 DEF IndInv, TypeOK, Held
<1>3. l \in Lock
  BY <1>1, <1>2 DEF AsLock, Lock, Row
<1>4. l.key = k /\ l.index = rows[k].index /\ l.id = rows[k].id
  BY <1>1 DEF AsLock
<1>5. rows[k] = AsRow(l)
  BY <1>1, <1>2 DEF AsLock, Row
<1>6. /\ l.index <= version[l.key][l.id]
      /\ l.id \in Guids => l.index >= 1
  BY SMTT(30), <1>2, <1>4 DEF IndInv, RowsNewest, Row
<1> QED
  BY <1>3, <1>4, <1>5, <1>6 DEF Sound

(* The burglar fetches the locks, all of them or fewer.                    *)
LEMMA BurglarFetchStep ==
  ASSUME IndInv, NEW s \in Servers, BurglarFetchAll(s) \/ BurglarFetchCutShort(s)
  PROVE  IndInv'
<1> USE ExpirationAssumption
<1>1. PICK ls \in SUBSET FetchAll(Types) : burglar' = [burglar EXCEPT ![s] = ls]
  BY DEF BurglarFetchAll, BurglarFetchCutShort
<1>2. UNCHANGED <<tableVars, pickVars, registering, up, timeVars>> /\ faults' \in 0 .. MaxFaults
  BY DEF BurglarFetchAll, BurglarFetchCutShort, IndInv, TypeOK
<1>3. \A l \in ls : l \in Lock /\ Sound(l)
  BY <1>1, FetchAllSound
<1>4. /\ burglar' \in [Servers -> SUBSET Lock]
      /\ \A z \in Servers : \A l \in burglar'[z] : l \in ls \/ l \in burglar[z]
  BY <1>1, <1>3 DEF IndInv, TypeOK
<1>5. PickInv'
  BY <1>2, IndInvPick, PickUnchanged
<1> QED
  BY Zenon, <1>2, <1>3, <1>4, <1>5, PickStep DEF IndInv, TypeOK, KnownSound

-----------------------------------------------------------------------------
(* checkExpiration                                                         *)

(* A goroutine returns, once no entry of lockTTLs refers to it.            *)
LEMMA Returned ==
  ASSUME PickInv, NEW c \in Chans, Return(c), UNCHANGED <<tableVars, timeVars>>,
         lockTTLs' \in [Servers -> [CheckKeys -> Entry \cup {NoEntry}]],
         \A z \in Servers, x \in CheckKeys : lockTTLs'[z][x] # NoEntry =>
           lockTTLs'[z][x] = lockTTLs[z][x] /\ lockTTLs[z][x].channel # c,
         \A d \in Chans : (d # c /\ Live(d) /\ Newest(d)) =>
           lockTTLs'[job[d].server][checkKeyFromLock(job[d].lock)] =
             lockTTLs[job[d].server][checkKeyFromLock(job[d].lock)]
  PROVE  PickInv'
<1> USE TableAssumption DEF tableVars, timeVars
<1>1. /\ pc'[c] = "free" /\ job'[c] = NoJob /\ left'[c] = 0 /\ closed' = closed \ {c}
      /\ \A d \in Chans : d # c => pc'[d] = pc[d] /\ job'[d] = job[d] /\ left'[d] = left[d]
  BY SMTT(30) DEF Return, PickInv, PickTypeOK
<1>2. PickTypeOK'
  <2>1. /\ pc' \in [Chans -> {"free", "waiting", "fetching", "releasing", "cleanup"}]
        /\ job' \in [Chans -> Job \cup {NoJob}]
        /\ left' \in [Chans -> 0 .. MaxTTL]
        /\ closed' \in SUBSET Chans
    BY DEF Return, PickInv, PickTypeOK
  <2>2. \A d \in Chans : pc'[d] = "free" <=> job'[d] = NoJob
    BY SMTT(30), <1>1 DEF PickInv, PickTypeOK
  <2> QED
    BY Zenon, <2>1, <2>2 DEF PickTypeOK
<1>3. ClosedLive' /\ \A d \in Chans : Live(d)' => Sound(job[d].lock)'
  BY SMTT(30), <1>1 DEF PickInv, PickTypeOK, ClosedLive, Sound
<1>4. EntryHasGoroutine'
  <2> SUFFICES ASSUME NEW z \in Servers, NEW x \in CheckKeys, lockTTLs'[z][x] # NoEntry
               PROVE  LET d == lockTTLs'[z][x].channel IN
                      /\ pc'[d] # "free" /\ d \notin closed' /\ job'[d].server = z
                      /\ <<job'[d].lock.key, job'[d].lock.id>> = x
                      /\ job'[d].lock.index = lockTTLs'[z][x].index
    BY SMTT(30) DEF EntryHasGoroutine
  <2>1. lockTTLs'[z][x] = lockTTLs[z][x] /\ lockTTLs[z][x].channel \in Chans \ {c}
    BY DEF PickInv, PickTypeOK
  <2> QED
    BY SMTT(30), <2>1, <1>1 DEF PickInv, EntryHasGoroutine
<1>5. NewestRegistered'
  <2> SUFFICES ASSUME NEW d \in Chans, pc'[d] # "free", Newest(d)'
               PROVE  lockTTLs'[job'[d].server][<<job'[d].lock.key, job'[d].lock.id>>] =
                        [index |-> job'[d].lock.index, channel |-> d]
    BY Zenon DEF NewestRegistered
  <2>1. d # c /\ job'[d] = job[d] /\ pc'[d] = pc[d]
    BY SMTT(30), <1>1
  <2>2. Live(d) /\ Newest(d)
    BY SMTT(30), <2>1 DEF Newest
  <2> QED
    BY Zenon, <2>1, <2>2 DEF PickInv, NewestRegistered
<1>6. TimersCover'
  BY SMTT(30), <1>1 DEF PickInv, TimersCover
<1> QED
  BY SMTT(30), <1>2, <1>3, <1>4, <1>5, <1>6 DEF PickInv

(* A goroutine returns because its channel was closed.                     *)
LEMMA CancelledStep ==
  ASSUME IndInv, NEW c \in Chans, Cancelled(c)
  PROVE  IndInv'
<1>1. PickInv
  BY IndInvPick
<1>2. \A z \in Servers, x \in CheckKeys : lockTTLs[z][x] # NoEntry => lockTTLs[z][x].channel # c
  BY SMTT(30) DEF Cancelled, IndInv, EntryHasGoroutine
<1>3. Return(c) /\ UNCHANGED <<tableVars, lockTTLs, procVars, timeVars, faults>>
  BY DEF Cancelled
<1>4. PickInv'
  BY Zenon, <1>1, <1>2, <1>3, Returned DEF PickInv, PickTypeOK
<1> QED
  BY Zenon, <1>3, <1>4, PickStep DEF IndInv, TypeOK, KnownSound, procVars

(* A goroutine runs its deferred function and returns.                     *)
LEMMA CleanupStep ==
  ASSUME IndInv, NEW c \in Chans, Cleanup(c)
  PROVE  IndInv'
<1> USE TableAssumption, ExpirationAssumption
<1> DEFINE s  == job[c].server
           ck == <<job[c].lock.key, job[c].lock.id>>
           e  == lockTTLs[s][ck]
<1>1. PickInv
  BY IndInvPick
<1>2. /\ lockTTLs' = IF e # NoEntry /\ e.index = job[c].lock.index
                     THEN [lockTTLs EXCEPT ![s][ck] = NoEntry] ELSE lockTTLs
      /\ Return(c) /\ UNCHANGED <<tableVars, procVars, timeVars, faults>>
  BY DEF Cleanup
<1>3. job[c] \in Job /\ s \in Servers /\ ck \in CheckKeys /\ Live(c)
  BY <1>1 DEF Cleanup, PickInv, PickTypeOK, Lock
<1> HIDE DEF s, ck
<1>4. /\ lockTTLs' \in [Servers -> [CheckKeys -> Entry \cup {NoEntry}]]
      /\ \A z \in Servers, x \in CheckKeys :
           lockTTLs'[z][x] # NoEntry => lockTTLs'[z][x] = lockTTLs[z][x]
      /\ \A z \in Servers, x \in CheckKeys :
           (z # s \/ x # ck) => lockTTLs'[z][x] = lockTTLs[z][x]
      /\ (e # NoEntry /\ e.index = job[c].lock.index) => lockTTLs'[s][ck] = NoEntry
      /\ ~(e # NoEntry /\ e.index = job[c].lock.index) => lockTTLs'[s][ck] = e
  BY Zenon, <1>1, <1>2, <1>3 DEF PickInv, PickTypeOK
<1>5. ASSUME NEW z \in Servers, NEW x \in CheckKeys, lockTTLs'[z][x] # NoEntry
      PROVE  lockTTLs[z][x].channel # c
  <2> SUFFICES ASSUME lockTTLs[z][x].channel = c PROVE FALSE
    OBVIOUS
  <2>1. lockTTLs[z][x] # NoEntry
    BY SMTT(30), <1>4, <1>5
  <2>2. z = s /\ x = ck /\ e.index = job[c].lock.index
    BY SMTT(30), <2>1, <1>1 DEF PickInv, EntryHasGoroutine, s, ck
  <2> QED
    BY <2>1, <2>2, <1>4, <1>5
<1>6. ASSUME NEW d \in Chans, d # c, Live(d), Newest(d)
      PROVE  lockTTLs'[job[d].server][<<job[d].lock.key, job[d].lock.id>>] =
               lockTTLs[job[d].server][<<job[d].lock.key, job[d].lock.id>>]
  <2>0. job[d] \in Job /\ <<job[d].lock.key, job[d].lock.id>> \in CheckKeys
    BY <1>6, <1>1 DEF PickInv, PickTypeOK, Lock
  <2>1. CASE ~(job[d].server = s /\ <<job[d].lock.key, job[d].lock.id>> = ck)
    BY Zenon, <2>0, <2>1, <1>4
  <2>2. CASE job[d].server = s /\ <<job[d].lock.key, job[d].lock.id>> = ck
    <3>1. e = [index |-> job[d].lock.index, channel |-> d]
      BY Zenon, <2>2, <1>6, <1>1 DEF PickInv, NewestRegistered
    <3>2. job[c].lock.index # job[d].lock.index
      <4> SUFFICES ASSUME job[c].lock.index = job[d].lock.index PROVE FALSE
        OBVIOUS
      <4>1. job[c].lock.key = job[d].lock.key /\ job[c].lock.id = job[d].lock.id
        BY <2>2 DEF ck
      <4>2. Newest(c)
        BY <4>1, <1>6 DEF Newest
      <4>3. e = [index |-> job[c].lock.index, channel |-> c]
        BY SMTT(30), <4>2, <1>1, <1>3 DEF PickInv, NewestRegistered, s, ck
      <4> QED
        BY <4>3, <3>1, <1>6
    <3>3. lockTTLs'[s][ck] = e
      BY SMTT(30), <3>1, <3>2, <1>4
    <3> QED
      BY <3>3, <2>2
  <2> QED
    BY <2>1, <2>2
<1>7. PickInv'
  BY Zenon, <1>1, <1>2, <1>4, <1>5, <1>6, Returned
<1> QED
  BY Zenon, <1>2, <1>7, PickStep DEF IndInv, TypeOK, KnownSound, procVars

(* A goroutine moves on with the timer fired, or with a lock found expired. *)
LEMMA MovedOn ==
  ASSUME IndInv, NEW c \in Chans, pc[c] # "free", NEW label \in {"fetching", "releasing", "cleanup"},
         Goto(c, label), UNCHANGED <<tableVars, procVars, timeVars, faults>>,
         label = "fetching" =>
           (Matches(rows[job[c].lock.key], job[c].lock) => age[job[c].lock.key] >= job[c].lock.ttl),
         label = "releasing" => job[c].lock.owner \in lapsed[job[c].lock.key]
  PROVE  IndInv'
<1> USE DEF Goto, tableVars, timeVars
<1>1. PickInv
  BY SMTT(30), IndInvPick
<1>2. /\ pc' \in [Chans -> {"free", "waiting", "fetching", "releasing", "cleanup"}]
      /\ pc'[c] = label /\ \A d \in Chans : d # c => pc'[d] = pc[d]
      /\ \A d \in Chans : Live(d)' <=> Live(d)
  BY SMTT(30), <1>1 DEF PickInv, PickTypeOK
<1>3. PickTypeOK' /\ ClosedLive' /\ NewestRegistered'
  BY Zenon, <1>1, <1>2 DEF PickInv, PickTypeOK, ClosedLive, NewestRegistered, Newest
<1>4. EntryHasGoroutine'
  <2>1. \A s \in Servers, ck \in CheckKeys :
          lockTTLs[s][ck] # NoEntry => lockTTLs[s][ck].channel \in Chans
    BY SMTT(30), <1>1 DEF PickInv, PickTypeOK
  <2> QED
    BY SMTT(30), <2>1, <1>1, <1>2 DEF PickInv, EntryHasGoroutine
<1>5. \A d \in Chans : Live(d)' => Sound(job[d].lock)'
  BY SMTT(30), <1>1, <1>2 DEF PickInv, Sound
<1>6. TimersCover'
  <2> SUFFICES ASSUME NEW d \in Chans
               PROVE  LET m == job[d].lock IN
                      /\ (pc'[d] = "waiting" /\ Matches(rows[m.key], m)) => age[m.key] + left[d] >= m.ttl
                      /\ (pc'[d] = "fetching" /\ Matches(rows[m.key], m)) => age[m.key] >= m.ttl
                      /\ pc'[d] = "releasing" => m.owner \in lapsed[m.key]
    BY SMTT(30) DEF TimersCover
  <2>1. CASE d = c
    BY SMTT(30), <2>1, <1>2
  <2>2. CASE d # c
    BY SMTT(30), <2>2, <1>1, <1>2 DEF PickInv, TimersCover
  <2> QED
    BY SMTT(30), <2>1, <2>2
<1>7. PickInv'
  BY SMTT(30), <1>3, <1>4, <1>5, <1>6 DEF PickInv
<1> QED
  BY Zenon, <1>7, PickStep DEF IndInv, TypeOK, KnownSound, procVars

(* The timer of checkExpiration fires.                                     *)
LEMMA TimerFiresStep ==
  ASSUME IndInv, NEW c \in Chans, TimerFires(c)
  PROVE  IndInv'
<1>1. /\ pc[c] = "waiting" /\ left[c] = 0 /\ Goto(c, "fetching")
      /\ UNCHANGED <<tableVars, procVars, timeVars, faults>>
  BY DEF TimerFires
<1>2. job[c].lock.key \in Keys /\ age[job[c].lock.key] \in Nat
  BY SMTT(30), <1>1, TableAssumption DEF IndInv, TypeOK, Lock
<1>3. Matches(rows[job[c].lock.key], job[c].lock) => age[job[c].lock.key] >= job[c].lock.ttl
  BY SMTT(30), <1>1, <1>2 DEF IndInv, TimersCover
<1> QED
  BY <1>1, <1>3, MovedOn

(* The Fetch of checkExpiration: a lock found unchanged is overdue.        *)
LEMMA FetchExpiredStep ==
  ASSUME IndInv, NEW c \in Chans, FetchExpired(c)
  PROVE  IndInv'
<1> DEFINE l == job[c].lock
           label == IF SameVersion(rows[l.key], l) THEN "releasing" ELSE "cleanup"
<1>1. /\ pc[c] = "fetching" /\ Goto(c, label)
      /\ UNCHANGED <<tableVars, procVars, timeVars, faults>>
  BY DEF FetchExpired
<1>2. l \in Lock /\ Sound(l)
  BY SMTT(30), <1>1 DEF IndInv, TypeOK, KnownSound
<1>3. label = "releasing" => l.owner \in lapsed[l.key]
  <2> SUFFICES ASSUME SameVersion(rows[l.key], l) PROVE l.owner \in lapsed[l.key]
    OBVIOUS
  <2>1. Matches(rows[l.key], l)
    BY SMTT(30) DEF SameVersion, Held
  <2>2. rows[l.key].owner = l.owner /\ rows[l.key].ttl = l.ttl /\ rows[l.key] # NoRow
    BY SMTT(30), <2>1, <1>2 DEF Sound
  <2>3. age[l.key] >= l.ttl
    BY SMTT(30), <2>1, <1>1 DEF IndInv, TimersCover
  <2> QED
    BY <2>2, <2>3, <1>2 DEF IndInv, OverdueLapsed, Overdue, Lock
<1>4. label \in {"fetching", "releasing", "cleanup"} /\ label # "fetching"
  BY SMTT(30)
<1> HIDE DEF label
<1> QED
  BY SMTT(30), <1>1, <1>3, <1>4, MovedOn

(* A crash: what remains belongs to the other processes.                   *)
LEMMA CrashStep ==
  ASSUME IndInv, NEW s \in Servers, Crash(s)
  PROVE  IndInv'
<1> USE TableAssumption, ExpirationAssumption
<1> DEFINE gone == {c \in Chans : job[c] # NoJob /\ job[c].server = s}
<1>1. /\ lockTTLs' = [lockTTLs EXCEPT ![s] = [ck \in CheckKeys |-> NoEntry]]
      /\ pc' = [c \in Chans |-> IF c \in gone THEN "free" ELSE pc[c]]
      /\ job' = [c \in Chans |-> IF c \in gone THEN NoJob ELSE job[c]]
      /\ left' = [c \in Chans |-> IF c \in gone THEN 0 ELSE left[c]]
      /\ closed' = closed \ gone
      /\ registering' = [registering EXCEPT ![s] = {}]
      /\ burglar' = [burglar EXCEPT ![s] = {}]
      /\ up' = [up EXCEPT ![s] = FALSE]
      /\ UNCHANGED <<rows, version, age, lapsed>>
  BY DEF Crash, tableVars, timeVars
<1>2. PickInv
  BY IndInvPick
<1>g. gone \subseteq Chans /\ \A c \in Chans : Live(c) => (c \in gone <=> job[c].server = s)
  BY <1>2 DEF PickInv, PickTypeOK
<1> HIDE DEF gone
<1>3. PickTypeOK'
  <2>1. lockTTLs' \in [Servers -> [CheckKeys -> Entry \cup {NoEntry}]]
    BY <1>1, <1>2 DEF PickInv, PickTypeOK
  <2>2. /\ pc' \in [Chans -> {"free", "waiting", "fetching", "releasing", "cleanup"}]
        /\ job' \in [Chans -> Job \cup {NoJob}]
        /\ \A c \in Chans : pc'[c] = "free" <=> job'[c] = NoJob
    BY <1>1, <1>2, <1>g DEF PickInv, PickTypeOK
  <2>3. left' \in [Chans -> 0 .. MaxTTL] /\ closed' \in SUBSET Chans
    BY <1>1, <1>2, <1>g DEF PickInv, PickTypeOK
  <2> QED
    BY Zenon, <2>1, <2>2, <2>3 DEF PickTypeOK
<1>4. \A c \in Chans : pc'[c] # "free" =>
        /\ c \notin gone /\ pc'[c] = pc[c] /\ job'[c] = job[c] /\ left'[c] = left[c]
        /\ job[c] \in Job /\ job[c].server # s
  BY <1>1, <1>2, <1>g DEF PickInv, PickTypeOK
<1>5. /\ \A ck \in CheckKeys : lockTTLs'[s][ck] = NoEntry
      /\ \A z \in Servers : z # s => lockTTLs'[z] = lockTTLs[z]
  BY SMTT(30), <1>1, <1>2 DEF PickInv, PickTypeOK
<1>6. ClosedLive' /\ \A c \in Chans : Live(c)' => Sound(job[c].lock)'
  BY SMTT(30), <1>1, <1>2, <1>4, <1>g DEF PickInv, PickTypeOK, ClosedLive, Sound
<1>7. EntryHasGoroutine'
  <2> SUFFICES ASSUME NEW z \in Servers, NEW x \in CheckKeys, lockTTLs'[z][x] # NoEntry
               PROVE  LET d == lockTTLs'[z][x].channel IN
                      /\ pc'[d] # "free" /\ d \notin closed' /\ job'[d].server = z
                      /\ <<job'[d].lock.key, job'[d].lock.id>> = x
                      /\ job'[d].lock.index = lockTTLs'[z][x].index
    BY DEF EntryHasGoroutine
  <2>1. z # s /\ lockTTLs'[z][x] = lockTTLs[z][x]
    BY SMTT(30), <1>5
  <2> DEFINE d == lockTTLs[z][x].channel
  <2>2. /\ d \in Chans /\ Live(d) /\ d \notin closed /\ job[d].server = z
        /\ <<job[d].lock.key, job[d].lock.id>> = x
        /\ job[d].lock.index = lockTTLs[z][x].index
    BY SMTT(30), <2>1, <1>2 DEF PickInv, PickTypeOK, EntryHasGoroutine
  <2>3. d \notin gone
    BY Zenon, <2>1, <2>2, <1>g
  <2>4. pc'[d] = pc[d] /\ job'[d] = job[d] /\ d \notin closed'
    BY SMTT(30), <2>2, <2>3, <1>1
  <2> QED
    BY SMTT(30), <2>1, <2>2, <2>4
<1>8. NewestRegistered'
  <2> SUFFICES ASSUME NEW d \in Chans, pc'[d] # "free", Newest(d)'
               PROVE  lockTTLs'[job'[d].server][<<job'[d].lock.key, job'[d].lock.id>>] =
                        [index |-> job'[d].lock.index, channel |-> d]
    BY Zenon DEF NewestRegistered
  <2>1. job'[d] = job[d] /\ Live(d) /\ job[d] \in Job /\ job[d].server # s
    BY <1>4
  <2>2. Newest(d)
    <3>1. version' = version
      BY <1>1
    <3> QED
      BY Zenon, <2>1, <3>1 DEF Newest
  <2>3. lockTTLs'[job[d].server] = lockTTLs[job[d].server]
    <3>1. job[d].server \in Servers
      BY <2>1 DEF Job
    <3> QED
      BY Zenon, <3>1, <2>1, <1>5
  <2>4. lockTTLs[job[d].server][<<job[d].lock.key, job[d].lock.id>>] =
          [index |-> job[d].lock.index, channel |-> d]
    BY Zenon, <2>1, <2>2, <1>2 DEF PickInv, NewestRegistered
  <2> QED
    BY Zenon, <2>1, <2>3, <2>4
<1>9. TimersCover'
  <2>1. TimersCover /\ rows' = rows /\ age' = age /\ lapsed' = lapsed
    BY <1>1, <1>2 DEF PickInv
  <2>2. ASSUME NEW c \in Chans, pc'[c] # "free"
        PROVE  pc'[c] = pc[c] /\ job'[c] = job[c] /\ left'[c] = left[c]
    BY SMTT(30), <2>2, <1>4
  <2>3. ASSUME NEW c \in Chans
        PROVE  LET l == job'[c].lock IN
               /\ (pc'[c] = "waiting" /\ Matches(rows[l.key], l)) => age[l.key] + left'[c] >= l.ttl
               /\ (pc'[c] = "fetching" /\ Matches(rows[l.key], l)) => age[l.key] >= l.ttl
               /\ pc'[c] = "releasing" => l.owner \in lapsed[l.key]
    <3>1. CASE pc'[c] = "free"
      BY <3>1
    <3>2. CASE pc'[c] # "free"
      BY Zenon, <3>2, <2>1, <2>2 DEF TimersCover
    <3> QED
      BY <3>1, <3>2
  <2> QED
    BY Zenon, <2>1, <2>3 DEF TimersCover, Matches
<1>10. PickInv'
  BY <1>3, <1>6, <1>7, <1>8, <1>9 DEF PickInv
<1>11. /\ registering' \in [Servers -> SUBSET Lock] /\ burglar' \in [Servers -> SUBSET Lock]
       /\ \A z \in Servers : registering'[z] \subseteq registering[z] /\ burglar'[z] \subseteq burglar[z]
       /\ up' \in [Servers -> BOOLEAN]
  BY <1>1 DEF IndInv, TypeOK
<1>12. faults' \in 0 .. MaxFaults
  BY SMTT(30) DEF Crash, IndInv, TypeOK
<1> QED
  BY Zenon, <1>1, <1>10, <1>11, <1>12, PickStep DEF IndInv, KnownSound, tableVars, timeVars

(* A process is started again.                                             *)
LEMMA RestartStep ==
  ASSUME IndInv, NEW s \in Servers, Restart(s)
  PROVE  IndInv'
<1>1. /\ UNCHANGED <<tableVars, pickVars, registering, burglar, timeVars, faults>>
      /\ up' \in [Servers -> BOOLEAN]
  BY DEF Restart, IndInv, TypeOK
<1>2. PickInv'
  BY <1>1, IndInvPick, PickUnchanged
<1> QED
  BY Zenon, <1>1, <1>2, PickStep DEF IndInv, TypeOK, KnownSound

(* The Release of lock_pick.go:111 deletes only the lock that was found    *)
(* expired, or a later version of it by the same owner, and that owner has *)
(* once let a whole ttl pass.                                              *)
LEMMA ExpiryDeletesLapsed ==
  ASSUME IndInv, Next, NEW c \in Chans, NEW k \in Keys, ReleaseStep(c), Deletes(k)
  PROVE  rows[k].owner \in lapsed[k]
<1>p. pc \in [Chans -> {"free", "waiting", "fetching", "releasing", "cleanup"}]
      /\ rows \in [Keys -> Row \cup {NoRow}]
  BY DEF IndInv, TypeOK
<1>d. pc[c] = "releasing" /\ pc'[c] = "cleanup" /\ rows[k] # NoRow /\ rows'[k] = NoRow
  BY Zenon DEF ReleaseStep, Deletes
<1>n. pc' # pc /\ rows' # rows
  BY Zenon, <1>d
<1>1. ASSUME NEW d \in Chans, CheckNext(d) PROVE ReleaseExpired(d) /\ d = c
  <2>1. ReleaseExpired(d)
    <3>1. tableVars' # tableVars
      BY Zenon, <1>n DEF tableVars
    <3>2. ~Cancelled(d) /\ ~TimerFires(d)
      BY Zenon, <3>1 DEF Cancelled, TimerFires
    <3>3. ~FetchExpired(d) /\ ~CheckFails(d)
      BY Zenon, <3>1 DEF FetchExpired, CheckFails
    <3>4. ~Cleanup(d)
      BY Zenon, <3>1 DEF Cleanup
    <3> QED
      BY Zenon, <1>1, <3>2, <3>3, <3>4 DEF CheckNext
  <2>2. d = c
    BY SMTT(30), <2>1, <1>d, <1>p DEF ReleaseExpired, Goto
  <2> QED
    BY <2>1, <2>2
<1>2. ASSUME NEW s \in Servers, ServerNext(s) PROVE FALSE
  BY <1>2, <1>n DEF ServerNext, HandlerLock, HandlerLockUnacknowledged, HandlerRelease,
       HandlerRegister, BurglarFetchAll, BurglarFetchCutShort, BurglarRegister, Crash,
       Restart, tableVars, pickVars
<1>3. ~Tick
  BY Zenon, <1>n DEF Tick
<1>4. ReleaseExpired(c)
  BY SMTT(30), <1>1, <1>2, <1>3 DEF Next
<1>5. job[c].lock.key = k /\ job[c].lock.owner = rows[k].owner
  <2> DEFINE l == job[c].lock
  <2>1. Releasable(rows[l.key], l.owner) /\ rows' = [rows EXCEPT ![l.key] = NoRow]
    <3>1. IF Releasable(rows[l.key], l.owner) THEN DBRelease(l.key, l.owner) ELSE UNCHANGED tableVars
      BY Zenon, <1>4 DEF ReleaseExpired
    <3> HIDE DEF l
    <3>2. Releasable(rows[l.key], l.owner) /\ DBRelease(l.key, l.owner)
      <4>1. tableVars' # tableVars
        BY Zenon, <1>n DEF tableVars
      <4> QED
        BY Zenon, <3>1, <4>1
    <3> QED
      BY Zenon, <3>2 DEF DBRelease
  <2>2. l.key = k
    BY <1>d, <2>1, <1>p
  <2> QED
    BY SMTT(30), <2>1, <2>2 DEF Releasable
<1> QED
  BY SMTT(30), <1>4, <1>5 DEF IndInv, TimersCover, ReleaseExpired
=============================================================================
