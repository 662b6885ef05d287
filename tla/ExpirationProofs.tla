-------------------------- MODULE ExpirationProofs ---------------------------
(***************************************************************************)
(* The theorems about Expiration, for any sets of keys, owners, processes  *)
(* and channels and any bounds.  IndInv is inductive: it holds at first,   *)
(* and is preserved by time and by every step that writes or deletes a     *)
(* row, as shown here, and by the steps of ExpirationPickProofs.           *)
(***************************************************************************)
EXTENDS ExpirationPickProofs, LockDBProofs

USE DEF Live, Matches, AsRow, checkKeyFromLock, Ids, CheckKeys, Entry, Job

(* The initial states (an empty table or one with legacy rows, no          *)
(* goroutine running) satisfy the invariant.                               *)
LEMMA InitInv == Init => IndInv
<1> SUFFICES ASSUME Init PROVE IndInv
  OBVIOUS
<1> USE TableAssumption, ExpirationAssumption
<1>0. rows \in [Keys -> Row \cup {NoRow}]
  <2>1. LegacyRow \subseteq Row
    <3>1. {0, MaxTTL} \subseteq 0 .. MaxTTL
      BY SMT
    <3> QED
      BY <3>1, Zenon DEF LegacyRow, Row
  <2> QED
    BY <2>1 DEF Init, TableInit
<1>1. TypeOK
  <2>1. version \in [Keys -> [Ids -> Nat]]
    BY <1>0 DEF Init, TableInit, LegacyRow, Row
  <2>2. lapsed \in [Keys -> SUBSET (Owners \cup {NoOwner})]
    <3>1. \A k \in Keys : rows[k] # NoRow => rows[k].owner \in Owners \cup {NoOwner}
      BY <1>0 DEF Row
    <3>2. \A k \in Keys : lapsed[k] \in SUBSET (Owners \cup {NoOwner})
      BY <3>1 DEF Init, Overdue
    <3> QED
      BY <3>2 DEF Init
  <2>3. /\ lockTTLs \in [Servers -> [CheckKeys -> Entry \cup {NoEntry}]]
        /\ registering \in [Servers -> SUBSET Lock]
        /\ burglar \in [Servers -> SUBSET Lock]
        /\ up \in [Servers -> BOOLEAN]
    BY DEF Init
  <2>4. /\ pc \in [Chans -> {"free", "waiting", "fetching", "releasing", "cleanup"}]
        /\ job \in [Chans -> Job \cup {NoJob}]
        /\ \A c \in Chans : pc[c] = "free" <=> job[c] = NoJob
        /\ left \in [Chans -> 0 .. MaxTTL]
        /\ closed \in SUBSET Chans
    BY DEF Init
  <2>5. age \in [Keys -> 0 .. MaxTTL] /\ faults \in 0 .. MaxFaults
    BY DEF Init
  <2> QED
    BY Zenon, <1>0, <2>1, <2>2, <2>3, <2>4, <2>5 DEF TypeOK
<1>2. RowsNewest
  BY DEF Init, TableInit, LegacyRow, RowsNewest
<1>3. KnownSound /\ ClosedLive /\ EntryHasGoroutine /\ NewestRegistered /\ TimersCover
  BY DEF Init, KnownSound, ClosedLive, EntryHasGoroutine, NewestRegistered, TimersCover
<1>4. OverdueLapsed
  BY DEF Init, OverdueLapsed, Overdue
<1> QED
  BY <1>1, <1>2, <1>3, <1>4 DEF IndInv

(* A unit of time.                                                         *)
LEMMA TickStep == IndInv /\ Tick => IndInv'
<1> SUFFICES ASSUME IndInv, Tick PROVE IndInv'
  OBVIOUS
<1> USE TableAssumption, ExpirationAssumption
<1> USE DEF Tick, IndInv, tableVars, procVars
<1>1. TypeOK'
  <2>1. age' \in [Keys -> 0 .. MaxTTL]
    BY DEF TypeOK
  <2>2. left' \in [Chans -> 0 .. MaxTTL]
    BY DEF TypeOK
  <2>3. lapsed' \in [Keys -> SUBSET (Owners \cup {NoOwner})]
    <3>1. \A k \in Keys : rows[k] # NoRow => rows[k].owner \in Owners \cup {NoOwner}
      BY DEF TypeOK, Row
    <3> QED
      BY <3>1 DEF TypeOK, Overdue
  <2> QED
    BY Zenon, <2>1, <2>2, <2>3 DEF TypeOK
<1>2. RowsNewest' /\ ClosedLive'
  BY SMTT(30) DEF RowsNewest, ClosedLive
<1>5. KnownSound'
  BY DEF KnownSound, Sound
<1>6. EntryHasGoroutine' /\ NewestRegistered'
  <2>1. /\ EntryHasGoroutine /\ NewestRegistered
        /\ lockTTLs' = lockTTLs /\ pc' = pc /\ job' = job /\ closed' = closed
        /\ version' = version
    OBVIOUS
  <2> HIDE DEF Tick, IndInv
  <2>2. EntryHasGoroutine'
    BY ZenonT(60), <2>1 DEF EntryHasGoroutine
  <2>3. NewestRegistered'
    BY Zenon, <2>1 DEF NewestRegistered, Newest
  <2> QED
    BY <2>2, <2>3
<1>3. OverdueLapsed'
  BY DEF OverdueLapsed, Overdue, TypeOK, Row
<1>4. TimersCover'
  BY DEF TimersCover, TypeOK, Row, Lock, KnownSound, Sound
<1> QED
  BY <1>1, <1>2, <1>3, <1>4, <1>5, <1>6

-----------------------------------------------------------------------------
(* A committed Lock makes every copy of an older lock stale: the commit    *)
(* part of both Lock handler steps.                                        *)
LEMMA LockCommitted ==
  ASSUME IndInv,
         NEW k \in Keys, NEW o \in Owners, NEW ty \in Types, NEW t \in 1 .. MaxTTL,
         DBLock(k, o, ty, t),
         age' = [age EXCEPT ![k] = 0],
         UNCHANGED <<pickVars, lapsed>>
  PROVE  /\ rows' \in [Keys -> Row \cup {NoRow}]
         /\ version' \in [Keys -> [Ids -> Nat]]
         /\ age' \in [Keys -> 0 .. MaxTTL]
         /\ RowsNewest' /\ ClosedLive' /\ EntryHasGoroutine' /\ NewestRegistered'
         /\ OverdueLapsed' /\ TimersCover'
         /\ \A l \in Lock : Sound(l) => Sound(l)'
         /\ AsLock(k, rows'[k]) \in Lock
         /\ \A l \in Lock : l = AsLock(k, rows'[k]) => Sound(l)'
<1> USE TableAssumption, ExpirationAssumption
<1> DEFINE new == rows'[k]
<1>1. /\ rows' \in [Keys -> Row \cup {NoRow}]
      /\ version' \in [Keys -> [Ids -> Nat]]
      /\ new \in Row /\ new # NoRow
      /\ new.owner = o /\ new.ttl = t
      /\ new.index = Scanned(rows[k]).index + 1
      /\ version[k][new.id] < new.index
      /\ version'[k][new.id] = new.index
      /\ \A j \in Keys : j # k => rows'[j] = rows[j]
      /\ \A j \in Keys, i \in Ids :
           (j # k \/ i # new.id) => version'[j][i] = version[j][i]
  <2>1. TableInv
    BY Zenon DEF IndInv, TypeOK, TableInv
  <2> QED
    BY Zenon, <2>1, LockWrites
<1> HIDE DEF new
<1>n. new = rows'[k]
  BY DEF new
<1>2. age' \in [Keys -> 0 .. MaxTTL] /\ age'[k] = 0 /\ \A j \in Keys : j # k => age'[j] = age[j]
  BY DEF IndInv, TypeOK
<1>t. /\ version \in [Keys -> [Ids -> Nat]] /\ rows \in [Keys -> Row \cup {NoRow}]
      /\ job \in [Chans -> Job \cup {NoJob}]
      /\ \A c \in Chans : pc[c] = "free" <=> job[c] = NoJob
  BY Zenon DEF IndInv, TypeOK
<1>l. \A c \in Chans : Live(c) => job[c].lock \in Lock /\ Sound(job[c].lock)
  BY <1>t DEF IndInv, KnownSound
<1>3. \A l \in Lock : Sound(l) => Sound(l)' /\ ~(l.key = k /\ Matches(new, l))
  BY <1>1, <1>n, <1>t DEF Sound, Lock, Row
<1>4. RowsNewest'
  BY SMTT(30), <1>1, <1>n, <1>t DEF IndInv, RowsNewest, Row
<1>5. ClosedLive' /\ EntryHasGoroutine'
  BY SMTT(30) DEF IndInv, ClosedLive, EntryHasGoroutine, pickVars
<1>6. NewestRegistered'
  <2> SUFFICES ASSUME NEW c \in Chans, Live(c), Newest(c)' PROVE Newest(c)
    BY DEF IndInv, NewestRegistered, pickVars
  <2>1. job[c].lock \in Lock /\ Sound(job[c].lock)
    BY <1>l
  <2> QED
    BY <2>1, <1>1, <1>n, <1>t DEF Newest, Sound, Lock, pickVars, Row
<1>7. OverdueLapsed'
  BY <1>1, <1>n, <1>2 DEF IndInv, OverdueLapsed, Overdue
<1>8. TimersCover'
  <2> SUFFICES ASSUME NEW c \in Chans, Live(c), Matches(rows'[job[c].lock.key], job[c].lock)
               PROVE  Matches(rows[job[c].lock.key], job[c].lock) /\ job[c].lock.key # k
    BY Zenon, <1>2, <1>l DEF IndInv, TimersCover, pickVars, Lock
  <2> QED
    BY SMTT(30), <1>l, <1>3, <1>1, <1>n DEF Lock
<1>9. AsLock(k, new) \in Lock
  BY <1>1 DEF AsLock, Lock, Row
<1>10. ASSUME NEW l \in Lock, l = AsLock(k, new) PROVE Sound(l)'
  <2>1. l.key = k /\ l.index = new.index /\ l.id = new.id
    BY <1>10 DEF AsLock
  <2>2. new = AsRow(l)
    BY <1>10, <1>1 DEF AsLock, Row
  <2>3. new.index \in Nat /\ new.index >= 1
    BY <1>1, <1>t DEF Row
  <2>4. l.index <= version'[l.key][l.id] /\ l.index >= 1
    BY <2>1, <2>3, <1>1
  <2>5. rows'[l.key] = AsRow(l)
    BY Zenon, <2>1, <2>2, <1>n
  <2> QED
    BY <2>4, <2>5 DEF Sound
<1> QED
  BY Zenon, <1>1, <1>2, <1>3, <1>4, <1>5, <1>6, <1>7, <1>8, <1>9, <1>10, <1>n

(* The Lock handler up to its commit.                                      *)
LEMMA HandlerLockStep ==
  ASSUME IndInv, NEW s \in Servers,
         NEW k \in Keys, NEW o \in Owners, NEW ty \in Types, NEW t \in 1 .. MaxTTL,
         HandlerLock(s, k, o, ty, t)
  PROVE  IndInv'
<1>1. /\ DBLock(k, o, ty, t) /\ age' = [age EXCEPT ![k] = 0]
      /\ UNCHANGED <<pickVars, lapsed>>
      /\ UNCHANGED <<pickVars, burglar, up, lapsed, faults>>
      /\ registering' = [registering EXCEPT ![s] = @ \cup {AsLock(k, rows'[k])}]
  BY DEF HandlerLock
<1> DEFINE l0 == AsLock(k, rows'[k])
<1>2. /\ rows' \in [Keys -> Row \cup {NoRow}]
      /\ version' \in [Keys -> [Ids -> Nat]]
      /\ age' \in [Keys -> 0 .. MaxTTL]
      /\ RowsNewest' /\ ClosedLive' /\ EntryHasGoroutine' /\ NewestRegistered'
      /\ OverdueLapsed' /\ TimersCover'
      /\ \A l \in Lock : Sound(l) => Sound(l)'
      /\ l0 \in Lock
      /\ \A l \in Lock : l = l0 => Sound(l)'
  BY Zenon, <1>1, LockCommitted
<1> HIDE DEF l0
<1>3. registering' = [registering EXCEPT ![s] = @ \cup {l0}]
  BY <1>1 DEF l0
<1>4. registering' \in [Servers -> SUBSET Lock]
  BY <1>2, <1>3 DEF IndInv, TypeOK
<1>5. TypeOK'
  BY Zenon, <1>1, <1>2, <1>4 DEF IndInv, TypeOK, pickVars
<1>6. KnownSound'
  <2>1. ASSUME NEW z \in Servers, NEW l \in registering'[z] \cup burglar'[z] PROVE Sound(l)'
    <3>1. l = l0 \/ l \in registering[z] \cup burglar[z]
      BY <1>1, <1>3 DEF IndInv, TypeOK
    <3>2. l \in registering[z] \cup burglar[z] => l \in Lock /\ Sound(l)
      BY DEF IndInv, KnownSound, TypeOK
    <3> QED
      BY <3>1, <3>2, <1>2
  <2>2. \A c \in Chans : Live(c) => Sound(job[c].lock)'
    BY <1>1, <1>2 DEF IndInv, KnownSound, TypeOK, pickVars
  <2> QED
    BY <2>1, <2>2, <1>1 DEF KnownSound, pickVars
<1> QED
  BY <1>2, <1>5, <1>6 DEF IndInv

(* A Lock whose commit is not acknowledged to the handler.                 *)
LEMMA UnacknowledgedStep ==
  ASSUME IndInv, NEW s \in Servers,
         NEW k \in Keys, NEW o \in Owners, NEW ty \in Types, NEW t \in 1 .. MaxTTL,
         HandlerLockUnacknowledged(s, k, o, ty, t)
  PROVE  IndInv'
<1>1. /\ DBLock(k, o, ty, t) /\ age' = [age EXCEPT ![k] = 0]
      /\ UNCHANGED <<pickVars, lapsed>>
      /\ UNCHANGED <<pickVars, procVars, lapsed>>
      /\ faults > 0 /\ faults' = faults - 1
  BY DEF HandlerLockUnacknowledged
<1>2. /\ rows' \in [Keys -> Row \cup {NoRow}]
      /\ version' \in [Keys -> [Ids -> Nat]]
      /\ age' \in [Keys -> 0 .. MaxTTL]
      /\ RowsNewest' /\ ClosedLive' /\ EntryHasGoroutine' /\ NewestRegistered'
      /\ OverdueLapsed' /\ TimersCover'
      /\ \A l \in Lock : Sound(l) => Sound(l)'
  BY Zenon, <1>1, LockCommitted
<1>3. faults' \in 0 .. MaxFaults
  BY <1>1, ExpirationAssumption DEF IndInv, TypeOK
<1>5. TypeOK'
  BY Zenon, <1>1, <1>2, <1>3 DEF IndInv, TypeOK, pickVars, procVars
<1>6. KnownSound'
  <2>1. \A z \in Servers : \A l \in registering[z] \cup burglar[z] : Sound(l)'
    BY <1>2 DEF IndInv, KnownSound, TypeOK
  <2>2. \A c \in Chans : Live(c) => Sound(job[c].lock)'
    BY <1>1, <1>2 DEF IndInv, KnownSound, TypeOK, pickVars
  <2> QED
    BY <2>1, <2>2, <1>1 DEF KnownSound, pickVars, procVars
<1> QED
  BY <1>2, <1>5, <1>6 DEF IndInv

-----------------------------------------------------------------------------
(* A deleted row takes nothing away that the invariant asks for, and       *)
(* neither does a goroutine that goes on to its deferred function.         *)
LEMMA RowsDeleted ==
  ASSUME IndInv,
         rows' \in [Keys -> Row \cup {NoRow}],
         \A j \in Keys : rows'[j] = rows[j] \/ rows'[j] = NoRow,
         pc' \in [Chans -> {"free", "waiting", "fetching", "releasing", "cleanup"}],
         \A d \in Chans : pc'[d] = pc[d] \/ (pc[d] # "free" /\ pc'[d] = "cleanup"),
         UNCHANGED <<version, lockTTLs, job, left, closed, procVars, timeVars>>,
         faults' \in 0 .. MaxFaults
  PROVE  IndInv'
<1> USE DEF procVars, timeVars, IndInv
<1>1. TypeOK'
  BY Zenon DEF TypeOK
<1>l. /\ \A c \in Chans : Live(c) => job[c].lock \in Lock
      /\ \A s \in Servers : \A l \in registering[s] \cup burglar[s] : l \in Lock
      /\ \A c \in Chans : Live(c)' <=> Live(c)
  BY DEF TypeOK
<1>2. RowsNewest' /\ OverdueLapsed'
  BY SMTT(30) DEF RowsNewest, OverdueLapsed, Overdue
<1>3. KnownSound'
  <2>1. KnownSound
    BY Zenon
  <2> HIDE DEF IndInv
  <2> QED
    BY SMTT(30), <1>l, <2>1 DEF KnownSound, Sound, Lock
<1>4. TimersCover'
  BY SMTT(30), <1>l DEF TimersCover, Lock
<1>5. ClosedLive' /\ NewestRegistered'
  BY SMTT(30), <1>l DEF ClosedLive, NewestRegistered, Newest, TypeOK
<1>6. EntryHasGoroutine'
  <2>1. \A s \in Servers, ck \in CheckKeys :
          lockTTLs[s][ck] # NoEntry => lockTTLs[s][ck].channel \in Chans
    BY SMTT(30) DEF TypeOK
  <2> QED
    BY <2>1, <1>l DEF EntryHasGoroutine
<1> QED
  BY <1>1, <1>2, <1>3, <1>4, <1>5, <1>6

(* The Release handler.                                                    *)
LEMMA HandlerReleaseStep ==
  ASSUME IndInv, NEW s \in Servers, NEW k \in Keys, NEW o, HandlerRelease(s, k, o)
  PROVE  IndInv'
<1>1. /\ rows' \in [Keys -> Row \cup {NoRow}]
      /\ \A j \in Keys : rows'[j] = rows[j] \/ rows'[j] = NoRow
  BY DEF HandlerRelease, DBRelease, IndInv, TypeOK
<1>2. UNCHANGED <<version, lockTTLs, job, left, closed, procVars, timeVars, pc, faults>>
  BY DEF HandlerRelease, DBRelease, pickVars
<1> QED
  BY Zenon, <1>1, <1>2, RowsDeleted DEF IndInv, TypeOK

(* The Release of checkExpiration, whatever it finds.                      *)
LEMMA ReleaseExpiredStep ==
  ASSUME IndInv, NEW c \in Chans, ReleaseExpired(c)
  PROVE  IndInv'
<1>1. /\ rows' \in [Keys -> Row \cup {NoRow}]
      /\ \A j \in Keys : rows'[j] = rows[j] \/ rows'[j] = NoRow
      /\ version' = version
  BY Zenon DEF ReleaseExpired, DBRelease, IndInv, TypeOK, tableVars
<1>2. UNCHANGED <<version, lockTTLs, job, left, closed, procVars, timeVars, faults>>
  BY <1>1 DEF ReleaseExpired, Goto
<1>3. /\ pc' \in [Chans -> {"free", "waiting", "fetching", "releasing", "cleanup"}]
      /\ \A d \in Chans : pc'[d] = pc[d] \/ (pc[d] # "free" /\ pc'[d] = "cleanup")
  BY SMTT(30) DEF ReleaseExpired, Goto, IndInv, TypeOK
<1> QED
  BY Zenon, <1>1, <1>2, <1>3, RowsDeleted DEF IndInv, TypeOK

(* A failed Fetch or Release.                                              *)
LEMMA CheckFailsStep ==
  ASSUME IndInv, NEW c \in Chans, CheckFails(c)
  PROVE  IndInv'
<1>1. /\ pc' \in [Chans -> {"free", "waiting", "fetching", "releasing", "cleanup"}]
      /\ \A d \in Chans : pc'[d] = pc[d] \/ (pc[d] # "free" /\ pc'[d] = "cleanup")
  BY DEF CheckFails, Goto, IndInv, TypeOK
<1>2. faults' \in 0 .. MaxFaults
  BY ExpirationAssumption DEF CheckFails, IndInv, TypeOK
<1>3. UNCHANGED <<rows, version, lockTTLs, job, left, closed, procVars, timeVars>>
  BY DEF CheckFails, Goto, tableVars
<1> QED
  BY Zenon, <1>1, <1>2, <1>3, RowsDeleted DEF IndInv, TypeOK

-----------------------------------------------------------------------------
(* The theorems                                                            *)

(* Every step of a locket process, a goroutine or the clock preserves the  *)
(* invariant.                                                              *)
LEMMA NextInv == IndInv /\ [Next]_vars => IndInv'
<1> SUFFICES ASSUME IndInv, [Next]_vars PROVE IndInv'
  OBVIOUS
<1>1. ASSUME NEW s \in Servers, ServerNext(s) PROVE IndInv'
  <2>1. ASSUME NEW r \in Requests, HandlerLock(s, r[1], r[2], r[3], r[4]) PROVE IndInv'
    BY <2>1, HandlerLockStep DEF Requests
  <2>2. ASSUME NEW r \in Requests, HandlerLockUnacknowledged(s, r[1], r[2], r[3], r[4]) PROVE IndInv'
    BY <2>2, UnacknowledgedStep DEF Requests
  <2>3. ASSUME NEW k \in Keys, NEW o, HandlerRelease(s, k, o) PROVE IndInv'
    BY <2>3, HandlerReleaseStep
  <2> QED
    BY <1>1, <2>1, <2>2, <2>3, HandlerRegisterStep, BurglarFetchStep, BurglarRegisterStep,
       CrashStep, RestartStep DEF ServerNext
<1>2. ASSUME NEW c \in Chans, CheckNext(c) PROVE IndInv'
  BY <1>2, CancelledStep, TimerFiresStep, FetchExpiredStep, ReleaseExpiredStep,
     CheckFailsStep, CleanupStep DEF CheckNext
<1>3. CASE Tick
  BY SMTT(30), <1>3, TickStep
<1>4. CASE UNCHANGED vars
  <2>1. UNCHANGED <<tableVars, pickVars, procVars, timeVars, faults>>
    BY <1>4 DEF vars
  <2>2. PickInv'
    BY <2>1, IndInvPick, PickUnchanged
  <2> QED
    BY Zenon, <2>1, <2>2, PickStep DEF IndInv, TypeOK, KnownSound, procVars
<1> QED
  BY <1>1, <1>2, <1>3, <1>4 DEF Next

(* IndInv holds throughout, for any number of locket processes that share  *)
(* the table, any faults and any interleaving of their goroutines.         *)
THEOREM Invariance == Spec => []IndInv
  BY InitInv, NextInv, PTL DEF Spec

(* Type correctness of the table, lockTTLs, the goroutines and the timers. *)
THEOREM TypeCorrect == Spec => []TypeOK
<1>1. IndInv => TypeOK
  BY DEF IndInv
<1> QED
  BY <1>1, Invariance, PTL

(* lock_pick.go:62-73: an entry of lockTTLs always stands for a running    *)
(* goroutine with an open channel.  So RegisterTTL never turns a lock away *)
(* that nothing will expire, and never closes a channel twice.             *)
THEOREM EntriesAreServed == Spec => []EntryHasGoroutine
<1>1. IndInv => EntryHasGoroutine
  BY DEF IndInv
<1> QED
  BY <1>1, Invariance, PTL

(* lock_pick.go:85-92: the deferred delete never removes the entry of the  *)
(* goroutine that waits for the newest version of a lock.                  *)
THEOREM NewestStaysRegistered == Spec => []NewestRegistered
<1>1. IndInv => NewestRegistered
  BY DEF IndInv
<1> QED
  BY <1>1, Invariance, PTL

(* lock_pick.go:99: no lock is found expired before its ttl has elapsed    *)
(* since it was last acquired.                                             *)
THEOREM ExpiryIsNeverEarly == Spec => []NoEarlyExpiry
<1>1. IndInv => NoEarlyExpiry
  <2> SUFFICES ASSUME IndInv, NEW c \in Chans, pc[c] = "fetching",
                      SameVersion(rows[job[c].lock.key], job[c].lock)
               PROVE  age[job[c].lock.key] >= rows[job[c].lock.key].ttl
    BY SMTT(30) DEF NoEarlyExpiry
  <2>1. Matches(rows[job[c].lock.key], job[c].lock)
    BY SMTT(30) DEF SameVersion, Held
  <2>2. age[job[c].lock.key] >= job[c].lock.ttl
    BY SMTT(30), <2>1 DEF IndInv, TimersCover
  <2>s. Sound(job[c].lock)
    BY SMTT(30) DEF IndInv, KnownSound
  <2>3. rows[job[c].lock.key].ttl = job[c].lock.ttl
    BY <2>1, <2>s DEF Sound
  <2> QED
    BY <2>2, <2>3
<1> QED
  BY <1>1, Invariance, PTL

(* doc/README.md:26: the Release of lock_pick.go:111 deletes only locks of *)
(* owners that once let a whole ttl pass.                                  *)
THEOREM PunctualOwnersKeepLocks == Spec => OnlyLapsedOwnersExpire
<1> DEFINE Kept == \A c \in Chans, k \in Keys :
                     (ReleaseStep(c) /\ Deletes(k)) => rows[k].owner \in lapsed[k]
<1>1. IndInv /\ [Next]_vars => [Kept]_vars
  BY ExpiryDeletesLapsed
<1> QED
  BY <1>1, Invariance, PTL DEF Spec, OnlyLapsedOwnersExpire
-----------------------------------------------------------------------------
(* lock_pick.go, burglar.go, handler.go: whatever the handlers, goroutines *)
(* and burglars of any number of locket processes do to the shared table,  *)
(* crashes included, is a Lock or a Release of db/lock_db.go.              *)
THEOREM ProcessesUseTable == Spec => TableSpec
<1>1. Init => TableInit
  BY DEF Init
<1>2. IndInv /\ [Next]_vars => [TableNext]_tableVars
  <2> SUFFICES ASSUME IndInv, [Next]_vars, ~UNCHANGED tableVars PROVE TableNext
    OBVIOUS
  <2>1. ASSUME NEW s \in Servers, ServerNext(s) PROVE TableNext
    <3>1. ASSUME NEW r \in Requests,
                 \/ HandlerLock(s, r[1], r[2], r[3], r[4])
                 \/ HandlerLockUnacknowledged(s, r[1], r[2], r[3], r[4])
          PROVE  TableNext
      BY <3>1 DEF HandlerLock, HandlerLockUnacknowledged, Requests, TableNext
    <3>2. ASSUME NEW k \in Keys, NEW o \in Owners \cup {NoOwner}, HandlerRelease(s, k, o)
          PROVE  TableNext
      BY <3>2 DEF HandlerRelease, TableNext
    <3> QED
      BY <2>1, <3>1, <3>2 DEF ServerNext, HandlerRegister, BurglarFetchAll,
           BurglarFetchCutShort, BurglarRegister, Crash, Restart
  <2>2. ASSUME NEW c \in Chans, CheckNext(c) PROVE TableNext
    <3>1. ReleaseExpired(c)
      BY <2>2 DEF CheckNext, Cancelled, TimerFires, FetchExpired, CheckFails, Cleanup
    <3>2. DBRelease(job[c].lock.key, job[c].lock.owner)
      BY <3>1 DEF ReleaseExpired
    <3>3. job[c].lock \in Lock
      BY <3>1 DEF ReleaseExpired, IndInv, TypeOK
    <3>4. job[c].lock.key \in Keys /\ job[c].lock.owner \in Owners \cup {NoOwner}
      BY <3>3 DEF Lock
    <3> QED
      BY <3>2, <3>4 DEF TableNext
  <2> QED
    BY <2>1, <2>2 DEF Next, Tick, vars
<1> QED
  BY <1>1, <1>2, Invariance, PTL DEF Spec, TableSpec

(* So any number of locket processes on one database are one lock service: *)
(* a lock changes hands only by way of nobody, and no version of a lock is *)
(* granted twice, although every process expires the locks of all.         *)
THEOREM ProcessesAreService == Spec => ImplementsService
  BY ProcessesUseTable, TableIsService
=============================================================================
