----------------------------- MODULE Expiration ------------------------------
(***************************************************************************)
(* Locket processes that share one locks table: the Lock and Release       *)
(* handlers, and the two parts that expire locks.  The lockPick of a       *)
(* process keeps, for each (key, modified_id), one goroutine that waits    *)
(* for the ttl of the lock (expiration/lock_pick.go).  The burglar of a    *)
(* process registers with it every lock it finds in the table, at start    *)
(* and at every tick (expiration/burglar.go).                              *)
(*                                                                         *)
(* Each database operation is one step of LockTable; LockDB.tla justifies  *)
(* it.  Between any two of them other goroutines and other processes run.  *)
(* A goroutine of checkExpiration is named after the channel made for it.  *)
(* Time passes in ticks: left counts a timer down, age counts the time     *)
(* since the last commit to a row.  Nothing has to happen on time.         *)
(***************************************************************************)
EXTENDS LockTable

CONSTANTS
  Servers,    \* locket processes
  Chans,      \* channels, one per checkExpiration goroutine (bounds them);
              \* numbers, and the least free one is the next to be made
  NoEntry,    \* no entry in lockTTLs
  NoJob,      \* a channel not in use
  MaxFaults,  \* database errors and crashes that may happen
  MaxInFlight \* Lock handlers of a process between commit and RegisterTTL

ASSUME ExpirationAssumption ==
  /\ Chans \subseteq Nat
  /\ MaxFaults \in Nat /\ MaxInFlight \in Nat
  /\ NoEntry \notin [index : Nat, channel : Chans]
  /\ NoJob \notin [server : Servers, lock : Lock]

VARIABLES
  lockTTLs,     \* lockPick.lockTTLs of each process: (key, id) -> chanAndIndex
  pc,           \* where the checkExpiration goroutine of a channel is
  job,          \* the process it runs in and the lock it was started with
  left,         \* time until its timer fires
  closed,       \* the channels that have been closed
  registering,  \* locks that Lock handlers have committed and not registered
  burglar,      \* locks the burglar has fetched and not registered
  up,           \* whether the process runs
  age,          \* time since the row of a key was last written
  lapsed,       \* owners that have held a key for a whole ttl without refresh
  faults        \* faults still allowed

pickVars == <<lockTTLs, pc, job, left, closed>>
procVars == <<registering, burglar, up>>
timeVars == <<age, lapsed>>
vars == <<tableVars, pickVars, procVars, timeVars, faults>>

CheckKeys == Keys \X Ids
Entry == [index : Nat, channel : Chans]
Job == [server : Servers, lock : Lock]

TypeOK ==
  /\ rows \in [Keys -> Row \cup {NoRow}]
  /\ version \in [Keys -> [Ids -> Nat]]
  /\ lockTTLs \in [Servers -> [CheckKeys -> Entry \cup {NoEntry}]]
  /\ pc \in [Chans -> {"free", "waiting", "fetching", "releasing", "cleanup"}]
  /\ job \in [Chans -> Job \cup {NoJob}]
  /\ \A c \in Chans : pc[c] = "free" <=> job[c] = NoJob
  /\ left \in [Chans -> 0 .. MaxTTL]
  /\ closed \in SUBSET Chans
  /\ registering \in [Servers -> SUBSET Lock]
  /\ burglar \in [Servers -> SUBSET Lock]
  /\ up \in [Servers -> BOOLEAN]
  /\ age \in [Keys -> 0 .. MaxTTL]
  /\ lapsed \in [Keys -> SUBSET (Owners \cup {NoOwner})]
  /\ faults \in 0 .. MaxFaults

-----------------------------------------------------------------------------
(* lockPick                                                                *)

checkKeyFromLock(l) == <<l.key, l.id>>

(* Mutant of StartCheck: the timer is a unit short.                        *)
StartCheckShort(s, l) ==
  \E c \in Chans :
    /\ pc[c] = "free"
    /\ \A d \in Chans : pc[d] = "free" => c <= d
    /\ lockTTLs' = [lockTTLs EXCEPT ![s][checkKeyFromLock(l)] = [index |-> l.index, channel |-> c]]
    /\ pc' = [pc EXCEPT ![c] = "waiting"]
    /\ job' = [job EXCEPT ![c] = [server |-> s, lock |-> l]]
    /\ left' = [left EXCEPT ![c] = IF l.ttl = 0 THEN 0 ELSE l.ttl - 1]

(* Starts a goroutine on the next free channel and stores the entry.       *)
StartCheck(s, l) ==
  \E c \in Chans :
    /\ pc[c] = "free"
    /\ \A d \in Chans : pc[d] = "free" => c <= d
    /\ lockTTLs' = [lockTTLs EXCEPT ![s][checkKeyFromLock(l)] = [index |-> l.index, channel |-> c]]
    /\ pc' = [pc EXCEPT ![c] = "waiting"]
    /\ job' = [job EXCEPT ![c] = [server |-> s, lock |-> l]]
    /\ left' = [left EXCEPT ![c] = l.ttl]

(* Mutant of RegisterTTL: "ok" is not consulted, so that a lock without an *)
(* entry is compared with the zero chanAndIndex.                           *)
RegisterTTLIgnoresOk(s, l) ==
  LET e == lockTTLs[s][checkKeyFromLock(l)]
      n == IF e = NoEntry THEN 0 ELSE e.index
  IN  \/ /\ n >= l.index
         /\ UNCHANGED pickVars
      \/ /\ n < l.index
         /\ closed' = IF e = NoEntry THEN closed ELSE closed \cup {e.channel}
         /\ StartCheck(s, l)

(* RegisterTTL, under lockMutex from end to end.  The goroutine it starts  *)
(* makes its timer at once; a later start only delays what it does.        *)
RegisterTTL(s, l) ==
  LET e == lockTTLs[s][checkKeyFromLock(l)]
  IN  \/ /\ e # NoEntry /\ e.index >= l.index
         /\ UNCHANGED pickVars
      \/ /\ e # NoEntry => e.index < l.index
         /\ closed' = IF e = NoEntry THEN closed ELSE closed \cup {e.channel}
         /\ StartCheck(s, l)

(* Mutant of Return: the goroutine is left behind, parked for ever.        *)
ReturnKeepsJob(c) ==
  /\ pc' = [pc EXCEPT ![c] = "free"]
  /\ UNCHANGED <<job, left, closed>>

(* The goroutine returns and nothing refers to its channel from it.        *)
Return(c) ==
  /\ pc' = [pc EXCEPT ![c] = "free"]
  /\ job' = [job EXCEPT ![c] = NoJob]
  /\ left' = [left EXCEPT ![c] = 0]
  /\ closed' = closed \ {c}

Goto(c, label) ==
  /\ pc' = [pc EXCEPT ![c] = label]
  /\ UNCHANGED <<lockTTLs, job, left, closed>>

(* checkExpiration: <-closeChan.                                           *)
Cancelled(c) ==
  /\ pc[c] = "waiting"
  /\ c \in closed
  /\ Return(c)
  /\ UNCHANGED <<tableVars, lockTTLs, procVars, timeVars, faults>>

(* checkExpiration: <-lockTimer.C().  Taken as well when the channel is    *)
(* closed by then: select chooses among the ready cases.                   *)
TimerFires(c) ==
  /\ pc[c] = "waiting"
  /\ left[c] = 0
  /\ Goto(c, "fetching")
  /\ UNCHANGED <<tableVars, procVars, timeVars, faults>>

(* Mutant of SameVersion: the ids are not compared.                        *)
SameIndexOnly(r, l) == Held(r) /\ r.index = l.index

SameVersion(r, l) == Held(r) /\ r.index = l.index /\ r.id = l.id

(* The Fetch, and the comparison with the lock the goroutine started with. *)
FetchExpired(c) ==
  /\ pc[c] = "fetching"
  /\ LET l == job[c].lock IN
     Goto(c, IF SameVersion(rows[l.key], l) THEN "releasing" ELSE "cleanup")
  /\ UNCHANGED <<tableVars, procVars, timeVars, faults>>

(* The Release: a transaction of its own, which compares only the owner.   *)
ReleaseExpired(c) ==
  /\ pc[c] = "releasing"
  /\ LET l == job[c].lock IN
     IF Releasable(rows[l.key], l.owner) THEN DBRelease(l.key, l.owner)
                                         ELSE UNCHANGED tableVars
  /\ Goto(c, "cleanup")
  /\ UNCHANGED <<procVars, timeVars, faults>>

(* Fetch or Release returns an error and has changed nothing.              *)
CheckFails(c) ==
  /\ pc[c] \in {"fetching", "releasing"}
  /\ faults > 0
  /\ faults' = faults - 1
  /\ Goto(c, "cleanup")
  /\ UNCHANGED <<tableVars, procVars, timeVars>>

(* Mutants of Cleanup: no delete, and a delete whatever the index is.      *)
CleanupKeepsEntry(c) ==
  /\ pc[c] = "cleanup"
  /\ Return(c)
  /\ UNCHANGED <<tableVars, lockTTLs, procVars, timeVars, faults>>

CleanupAnyIndex(c) ==
  /\ pc[c] = "cleanup"
  /\ lockTTLs' = [lockTTLs EXCEPT ![job[c].server][checkKeyFromLock(job[c].lock)] = NoEntry]
  /\ Return(c)
  /\ UNCHANGED <<tableVars, procVars, timeVars, faults>>

(* The deferred function, under lockMutex.                                 *)
Cleanup(c) ==
  /\ pc[c] = "cleanup"
  /\ LET s  == job[c].server
         ck == checkKeyFromLock(job[c].lock)
         e  == lockTTLs[s][ck]
     IN  lockTTLs' = IF e # NoEntry /\ e.index = job[c].lock.index
                     THEN [lockTTLs EXCEPT ![s][ck] = NoEntry] ELSE lockTTLs
  /\ Return(c)
  /\ UNCHANGED <<tableVars, procVars, timeVars, faults>>

-----------------------------------------------------------------------------
(* The handlers                                                            *)

(* Lock, up to the commit of its transaction.                              *)
HandlerLock(s, k, o, ty, t) ==
  /\ up[s]
  /\ Cardinality(registering[s]) < MaxInFlight
  /\ DBLock(k, o, ty, t)
  /\ age' = [age EXCEPT ![k] = 0]
  /\ registering' = [registering EXCEPT ![s] = @ \cup {AsLock(k, rows'[k])}]
  /\ UNCHANGED <<pickVars, burglar, up, lapsed, faults>>

(* The commit took effect but db.Lock returned an error: no RegisterTTL.   *)
HandlerLockUnacknowledged(s, k, o, ty, t) ==
  /\ up[s]
  /\ faults > 0
  /\ faults' = faults - 1
  /\ DBLock(k, o, ty, t)
  /\ age' = [age EXCEPT ![k] = 0]
  /\ UNCHANGED <<pickVars, procVars, lapsed>>

(* Lock, its RegisterTTL and its return.                                   *)
HandlerRegister(s) ==
  \E l \in registering[s] :
    /\ RegisterTTL(s, l)
    /\ registering' = [registering EXCEPT ![s] = @ \ {l}]
    /\ UNCHANGED <<tableVars, burglar, up, timeVars, faults>>

HandlerRelease(s, k, o) ==
  /\ up[s]
  /\ DBRelease(k, o)
  /\ UNCHANGED <<pickVars, procVars, timeVars, faults>>

-----------------------------------------------------------------------------
(* The burglar                                                             *)

(* The FetchAll at start and at every tick, once the last list is done.    *)
BurglarFetchAll(s) ==
  /\ up[s]
  /\ burglar[s] = {}
  /\ burglar' = [burglar EXCEPT ![s] = FetchAll(Types)]
  /\ UNCHANGED <<tableVars, pickVars, registering, up, timeVars, faults>>

(* FetchAll fails (no lock is registered), or rows.Next ends early and     *)
(* FetchAll returns the locks read so far without an error.                *)
BurglarFetchCutShort(s) ==
  /\ up[s]
  /\ burglar[s] = {}
  /\ faults > 0
  /\ faults' = faults - 1
  /\ burglar' \in {[burglar EXCEPT ![s] = ls] : ls \in SUBSET FetchAll(Types)}
  /\ UNCHANGED <<tableVars, pickVars, registering, up, timeVars>>

BurglarRegister(s) ==
  \E l \in burglar[s] :
    /\ RegisterTTL(s, l)
    /\ burglar' = [burglar EXCEPT ![s] = @ \ {l}]
    /\ UNCHANGED <<tableVars, registering, up, timeVars, faults>>

-----------------------------------------------------------------------------
(* Processes and time                                                      *)

(* The process dies and with it lockTTLs and every goroutine.              *)
Crash(s) ==
  /\ up[s]
  /\ faults > 0
  /\ faults' = faults - 1
  /\ up' = [up EXCEPT ![s] = FALSE]
  /\ lockTTLs' = [lockTTLs EXCEPT ![s] = [ck \in CheckKeys |-> NoEntry]]
  /\ LET gone == {c \in Chans : job[c] # NoJob /\ job[c].server = s} IN
     /\ pc' = [c \in Chans |-> IF c \in gone THEN "free" ELSE pc[c]]
     /\ job' = [c \in Chans |-> IF c \in gone THEN NoJob ELSE job[c]]
     /\ left' = [c \in Chans |-> IF c \in gone THEN 0 ELSE left[c]]
     /\ closed' = closed \ gone
  /\ registering' = [registering EXCEPT ![s] = {}]
  /\ burglar' = [burglar EXCEPT ![s] = {}]
  /\ UNCHANGED <<tableVars, timeVars>>

Restart(s) ==
  /\ ~up[s]
  /\ up' = [up EXCEPT ![s] = TRUE]
  /\ UNCHANGED <<tableVars, pickVars, registering, burglar, timeVars, faults>>

Overdue(k, a) == rows[k] # NoRow /\ a >= rows[k].ttl

(* One unit of time; ages stop at MaxTTL and timers at 0.                  *)
Tick ==
  /\ age' = [k \in Keys |-> IF age[k] < MaxTTL THEN age[k] + 1 ELSE age[k]]
  /\ left' = [c \in Chans |-> IF left[c] > 0 THEN left[c] - 1 ELSE 0]
  /\ lapsed' = [k \in Keys |-> IF Overdue(k, age'[k]) THEN lapsed[k] \cup {rows[k].owner}
                                                      ELSE lapsed[k]]
  /\ UNCHANGED <<tableVars, lockTTLs, pc, job, closed, procVars, faults>>

-----------------------------------------------------------------------------
Init ==
  /\ TableInit
  /\ lockTTLs = [s \in Servers |-> [ck \in CheckKeys |-> NoEntry]]
  /\ pc = [c \in Chans |-> "free"]
  /\ job = [c \in Chans |-> NoJob]
  /\ left = [c \in Chans |-> 0]
  /\ closed = {}
  /\ registering = [s \in Servers |-> {}]
  /\ burglar = [s \in Servers |-> {}]
  /\ up = [s \in Servers |-> TRUE]
  /\ age = [k \in Keys |-> 0]
  /\ lapsed = [k \in Keys |-> IF Overdue(k, 0) THEN {rows[k].owner} ELSE {}]
  /\ faults = MaxFaults

Requests == Keys \X Owners \X Types \X (1 .. MaxTTL)

ServerNext(s) ==
  \/ \E r \in Requests : HandlerLock(s, r[1], r[2], r[3], r[4])
  \/ \E r \in Requests : HandlerLockUnacknowledged(s, r[1], r[2], r[3], r[4])
  \/ \E k \in Keys, o \in Owners \cup {NoOwner} : HandlerRelease(s, k, o)
  \/ HandlerRegister(s)
  \/ BurglarFetchAll(s)
  \/ BurglarFetchCutShort(s)
  \/ BurglarRegister(s)
  \/ Crash(s)
  \/ Restart(s)

CheckNext(c) ==
  \/ Cancelled(c)
  \/ TimerFires(c)
  \/ FetchExpired(c)
  \/ ReleaseExpired(c)
  \/ CheckFails(c)
  \/ Cleanup(c)

Next ==
  \/ \E s \in Servers : ServerNext(s)
  \/ \E c \in Chans : CheckNext(c)
  \/ Tick

Spec == Init /\ [][Next]_vars

(* Goroutines that can run do run, the ticker ticks, a process that died   *)
(* is started again, and time passes.  Clients need not do anything.       *)
Fairness ==
  /\ \A s \in Servers :
       /\ WF_vars(HandlerRegister(s))
       /\ WF_vars(BurglarFetchAll(s))
       /\ WF_vars(BurglarRegister(s))
       /\ WF_vars(Restart(s))
  /\ \A c \in Chans :
       /\ WF_vars(Cancelled(c) \/ TimerFires(c))
       /\ WF_vars(FetchExpired(c))
       /\ WF_vars(ReleaseExpired(c))
       /\ WF_vars(Cleanup(c))
  /\ WF_vars(Tick)

FairSpec == Spec /\ Fairness

-----------------------------------------------------------------------------
Live(c) == pc[c] # "free"

(* The lock of a goroutine is the newest one committed under its id.       *)
Newest(c) == job[c].lock.index = version[job[c].lock.key][job[c].lock.id]

(* An entry of lockTTLs stands for a goroutine that is still running for   *)
(* that very lock and whose channel is open.  RegisterTTL relies on both:  *)
(* it ignores a lock that has an entry (lock_pick.go:63-66), which would   *)
(* otherwise never expire, and closes the channel of an older one (:69),   *)
(* which panics on a closed channel.                                       *)
EntryHasGoroutine ==
  \A s \in Servers, ck \in CheckKeys :
    lockTTLs[s][ck] # NoEntry =>
      LET c == lockTTLs[s][ck].channel IN
      /\ Live(c)
      /\ c \notin closed
      /\ job[c].server = s
      /\ checkKeyFromLock(job[c].lock) = ck
      /\ job[c].lock.index = lockTTLs[s][ck].index

(* A goroutine for the newest version of a lock is the registered one: the *)
(* deferred delete of another goroutine (lock_pick.go:85-92) never removes *)
(* its entry, so a process never runs two for the same version.            *)
NewestRegistered ==
  \A c \in Chans :
    (Live(c) /\ Newest(c)) =>
      lockTTLs[job[c].server][checkKeyFromLock(job[c].lock)] =
        [index |-> job[c].lock.index, channel |-> c]

(* A lock is found expired (lock_pick.go:99) only when its ttl has elapsed *)
(* since its owner last acquired it, whichever process registered it, from *)
(* whatever list and however late.                                         *)
NoEarlyExpiry ==
  \A c \in Chans :
    (pc[c] = "fetching" /\ SameVersion(rows[job[c].lock.key], job[c].lock)) =>
      age[job[c].lock.key] >= rows[job[c].lock.key].ttl

ReleaseStep(c) == pc[c] = "releasing" /\ pc'[c] = "cleanup"

Deletes(k) == rows[k] # NoRow /\ rows'[k] = NoRow

(* "the client is required to acquire the lock again before the TTL        *)
(* elapses" (doc/README.md:26): an owner that has always done so never has *)
(* its lock deleted by the Release of lock_pick.go:111, although it is not *)
(* one transaction with the Fetch.                                         *)
OnlyLapsedOwnersExpire ==
  [][\A c \in Chans, k \in Keys :
       (ReleaseStep(c) /\ Deletes(k)) => rows[k].owner \in lapsed[k]]_vars

(* "when the modified index has been incremented ... does not release the  *)
(* lock" (lock_pick_test.go:125-141): what the Release of lock_pick.go:111 *)
(* deletes is the version of the lock that was found expired.              *)
OnlyExpiredVersionDeleted ==
  [][\A c \in Chans, k \in Keys :
       (ReleaseStep(c) /\ Deletes(k)) => SameVersion(rows[k], job[c].lock)]_vars

(* No version of a lock stays for ever: "the client is required to acquire *)
(* the lock again before the TTL elapses, otherwise the lock will be       *)
(* released" (doc/README.md:26), whatever errors and crashes come between. *)
EveryVersionEnds ==
  \A k \in Keys, i \in Ids, n \in 0 .. MaxIndex :
    (Held(rows[k]) /\ rows[k].id = i /\ rows[k].index = n) ~>
      ~(Held(rows[k]) /\ rows[k].id = i /\ rows[k].index = n)

-----------------------------------------------------------------------------
(* The inductive invariant behind the safety properties                    *)

Matches(r, l) == r # NoRow /\ r.index = l.index /\ r.id = l.id

(* A lock some goroutine holds a copy of was committed once, and the row   *)
(* with its index and id, if it is still there, is that very lock.         *)
Sound(l) ==
  /\ l.index <= version[l.key][l.id]
  /\ l.id \in Guids => l.index >= 1
  /\ Matches(rows[l.key], l) => rows[l.key] = AsRow(l)

KnownSound ==
  /\ \A s \in Servers : \A l \in registering[s] \cup burglar[s] : Sound(l)
  /\ \A c \in Chans : Live(c) => Sound(job[c].lock)

ClosedLive == \A c \in closed : Live(c)

OverdueLapsed ==
  \A k \in Keys : Overdue(k, age[k]) => rows[k].owner \in lapsed[k]

(* A timer covers what remains of the ttl of the row it was started for.   *)
TimersCover ==
  \A c \in Chans :
    LET l == job[c].lock IN
    /\ (pc[c] = "waiting" /\ Matches(rows[l.key], l)) => age[l.key] + left[c] >= l.ttl
    /\ (pc[c] = "fetching" /\ Matches(rows[l.key], l)) => age[l.key] >= l.ttl
    /\ pc[c] = "releasing" => l.owner \in lapsed[l.key]

(* Every copy of a lock in lockPick, the burglar and the handlers agrees   *)
(* with the table, the goroutines with lockTTLs, and the timers with the   *)
(* age of the rows.                                                        *)
IndInv ==
  /\ TypeOK
  /\ RowsNewest
  /\ KnownSound
  /\ ClosedLive
  /\ EntryHasGoroutine
  /\ NewestRegistered
  /\ OverdueLapsed
  /\ TimersCover
=============================================================================
