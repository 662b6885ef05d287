-------------------------- MODULE LockRunnerProofs ---------------------------
(***************************************************************************)
(* Proofs about LockRunner.tla, for any number of runners, any TTL, retry  *)
(* interval and delay, and any number of faults.                           *)
(***************************************************************************)
EXTENDS LockRunner, TLAPS

-----------------------------------------------------------------------------
(* Type correctness                                                        *)

(* Init is well typed.                                                     *)
LEMMA TypeInit == Init => TypeOK
  BY RunnerAssumption DEF Init, TypeOK, StaleLimit

(* A commit of a Lock (lock_db.go:40-97) is well typed, and makes r the    *)
(* holder of a lock that is new.                                           *)
LEMMA CommitType ==
  ASSUME TypeOK, NEW r \in Runners, CommitLock(r)
  PROVE  /\ holder' \in Runners \cup {Nobody} /\ age' \in 0 .. TTL
         /\ expiring' = expiring
         /\ stale' \in [Runners -> 0 .. StaleLimit + 1]
  BY RunnerAssumption DEF TypeOK, CommitLock, StaleLimit

(* The steps of the server and of the network are well typed.              *)
LEMMA ServerType ==
  ASSUME TypeOK, NEW r \in Runners,
         ServeLock(r) \/ ServeError(r) \/ ServeRelease(r) \/ ServeLate(r) \/ SlowCall(r)
           \/ FindExpired \/ ReleaseExpired(r)
  PROVE  TypeOK'
<1> USE RunnerAssumption
<1>1. CASE ServeLock(r)
  BY <1>1, CommitType DEF TypeOK, ServeLock, serverVars, runVars
<1>2. CASE ServeError(r)
  BY <1>2, CommitType DEF TypeOK, ServeError, serverVars, runVars, Fault
<1>3. CASE ServeRelease(r)
  BY <1>3 DEF TypeOK, ServeRelease, runVars, Fault
<1>4. CASE ServeLate(r)
  BY <1>4, CommitType DEF TypeOK, ServeLate, serverVars, callVars, runVars
<1>5. CASE SlowCall(r)
  BY <1>5 DEF TypeOK, SlowCall, serverVars, runVars, Fault
<1>6. CASE FindExpired
  BY <1>6 DEF TypeOK, FindExpired, callVars, runVars
<1>7. CASE ReleaseExpired(r)
  BY <1>7 DEF TypeOK, ReleaseExpired, callVars, runVars
<1> QED
  BY <1>1, <1>2, <1>3, <1>4, <1>5, <1>6, <1>7

(* What Run does when its Lock has returned (lock.go:99-118).              *)
LEMMA LockedType ==
  ASSUME TypeOK, NEW r \in Runners, NEW ok \in BOOLEAN, Locked(r, ok), late' \subseteq Runners
  PROVE  TypeOK'
<1>1. acquired' \in [Runners -> BOOLEAN]
  BY Zenon DEF TypeOK, Locked, LostLock
<1> QED
  BY <1>1, RunnerAssumption DEF TypeOK, Locked, EndCall, serverVars

(* The steps of Run are well typed.                                        *)
LEMMA RunType ==
  ASSUME TypeOK, NEW r \in Runners,
         FirstLock(r) \/ OnRetry(r) \/ LockReturns(r) \/ LockTimesOut(r)
           \/ Signal(r) \/ OnSignal(r) \/ Released(r)
  PROVE  TypeOK'
<1> USE RunnerAssumption
<1>1. CASE FirstLock(r)
  <2>1. acquired' \in [Runners -> BOOLEAN]
    BY Zenon, <1>1 DEF TypeOK, FirstLock
  <2> QED
    BY <1>1, <2>1 DEF TypeOK, FirstLock, EndCall, serverVars
<1>2. CASE OnRetry(r)
  BY <1>2 DEF TypeOK, OnRetry, Send, serverVars
<1>3. CASE LockReturns(r)
  BY Zenon, <1>3, LockedType DEF LockReturns, TypeOK
<1>4. CASE LockTimesOut(r)
  <2>1. late' \subseteq Runners
    BY <1>4 DEF LockTimesOut, TypeOK
  <2> QED
    BY Zenon, <1>4, <2>1, LockedType DEF LockTimesOut
<1>5. CASE Signal(r)
  BY <1>5 DEF TypeOK, Signal, serverVars, callVars
<1>6. CASE OnSignal(r)
  BY <1>6 DEF TypeOK, OnSignal, Send, serverVars
<1>7. CASE Released(r)
  BY <1>7 DEF TypeOK, Released, EndCall, serverVars
<1> QED
  BY <1>1, <1>2, <1>3, <1>4, <1>5, <1>6, <1>7

(* A tick is well typed: no timer that is due is kept waiting.             *)
LEMMA TickType ==
  ASSUME TypeOK, Tick
  PROVE  TypeOK'
  BY RunnerAssumption DEF TypeOK, Tick, AtMost, StaleLimit

(* Every step is well typed.                                               *)
LEMMA TypeStep == TypeOK /\ [Next]_vars => TypeOK'
<1> SUFFICES ASSUME TypeOK, [Next]_vars PROVE TypeOK'
  OBVIOUS
<1>1. CASE UNCHANGED vars
  BY <1>1 DEF TypeOK, vars, serverVars, callVars, runVars
<1>2. CASE FindExpired
  <2>1. holder \in Runners
    BY <1>2 DEF FindExpired, TypeOK
  <2> QED
    BY <1>2, <2>1, ServerType
<1> QED
  BY <1>1, <1>2, ServerType, RunType, TickType DEF Next

(* Type correctness of the runners and the server.                         *)
THEOREM TypeCorrect == Spec => []TypeOK
  BY TypeInit, TypeStep, PTL DEF Spec

-----------------------------------------------------------------------------
(* StaleBounded                                                            *)

(* The inductive invariant of the runner.                                  *)
StaleInv == TypeOK /\ StaleBounded /\ StaleSoFar

(* A commit ends the time for which r has acted without the lock; nobody   *)
(* else's changes.                                                         *)
LEMMA CommitStale ==
  ASSUME TypeOK, NEW r \in Runners, CommitLock(r)
  PROVE  \A q \in Runners : stale'[q] = IF q = r THEN 0 ELSE stale[q]
  BY DEF TypeOK, CommitLock

(* The steps of the server and of the network preserve StaleInv: an answer *)
(* "ok" comes with a commit.                                               *)
LEMMA ServerStale ==
  ASSUME StaleInv, TypeOK', NEW r \in Runners,
         ServeLock(r) \/ ServeError(r) \/ ServeRelease(r) \/ ServeLate(r) \/ SlowCall(r)
           \/ FindExpired \/ ReleaseExpired(r)
  PROVE  StaleBounded' /\ StaleSoFar'
<1> USE RunnerAssumption
<1>1. UNCHANGED <<pc, acquired, timer, waited>>
  BY DEF ServeLock, ServeError, ServeRelease, ServeLate, SlowCall, FindExpired, ReleaseExpired,
         callVars, runVars
<1>2. \A q \in Runners : stale'[q] = stale[q] \/ stale'[q] = 0
  BY CommitStale DEF StaleInv, ServeLock, ServeError, ServeRelease, ServeLate, SlowCall,
         FindExpired, ReleaseExpired, serverVars
<1>3. \A q \in Runners :
        pc[q] \in {"first", "locking"} /\ call'[q] = "ok" => call[q] = "ok" \/ stale'[q] = 0
  BY CommitStale DEF StaleInv, TypeOK, ServeLock, ServeError, ServeRelease, ServeLate, SlowCall,
         FindExpired, ReleaseExpired, callVars
<1>4. StaleBounded'
  BY <1>2 DEF StaleInv, StaleBounded, StaleLimit, TypeOK
<1>5. StaleSoFar'
  BY <1>1, <1>2, <1>3 DEF StaleInv, StaleSoFar, Acting, TypeOK
<1> QED
  BY <1>4, <1>5

(* A Lock that returned in time with "ok" leaves r acting for at most TTL  *)
(* without the lock; after any other end of the call r does not act.       *)
LEMMA LockedStale ==
  ASSUME StaleInv, NEW r \in Runners, pc[r] = "locking",
         Locked(r, call[r] = "ok") \/ Locked(r, FALSE)
  PROVE  StaleBounded' /\ StaleSoFar'
<1> USE RunnerAssumption
<1>1. /\ stale' = stale
      /\ \A q \in Runners \ {r} : /\ pc'[q] = pc[q] /\ acquired'[q] = acquired[q]
                                   /\ timer'[q] = timer[q] /\ waited'[q] = waited[q]
                                   /\ call'[q] = call[q]
      /\ timer'[r] = Retry
      /\ call'[r] = "none"
  BY Zenon DEF Locked, EndCall, StaleInv, TypeOK
<1>2. Acting(r)' => pc'[r] = "select" /\ call[r] = "ok"
  BY Zenon DEF Locked, LostLock, Acting, StaleInv, TypeOK
<1>3. StaleBounded'
  BY <1>1 DEF StaleInv, StaleBounded, StaleLimit
<1>4. StaleSoFar'
  BY <1>1, <1>2 DEF StaleInv, StaleSoFar, Acting, TypeOK
<1> QED
  BY <1>3, <1>4

(* The steps of Run preserve StaleInv.                                     *)
LEMMA RunStale ==
  ASSUME StaleInv, NEW r \in Runners,
         FirstLock(r) \/ OnRetry(r) \/ LockReturns(r) \/ LockTimesOut(r)
           \/ Signal(r) \/ OnSignal(r) \/ Released(r)
  PROVE  StaleBounded' /\ StaleSoFar'
<1> USE RunnerAssumption
<1>1. CASE FirstLock(r)
  <2>1. acquired'[r] => call[r] = "ok"
    BY Zenon, <1>1 DEF FirstLock, StaleInv, TypeOK
  <2> QED
    BY <1>1, <2>1 DEF FirstLock, EndCall, StaleInv, StaleBounded, StaleSoFar, Acting, TypeOK,
                      StaleLimit
<1>2. CASE OnRetry(r)
  BY <1>2 DEF OnRetry, Send, StaleInv, StaleBounded, StaleSoFar, Acting, TypeOK, StaleLimit
<1>3. CASE LockReturns(r) \/ LockTimesOut(r)
  BY Zenon, <1>3, LockedStale DEF LockReturns, LockTimesOut
<1>4. CASE Signal(r)
  BY <1>4 DEF Signal, callVars, StaleInv, StaleBounded, StaleSoFar, Acting, StaleLimit
<1>5. CASE OnSignal(r)
  BY <1>5 DEF OnSignal, Send, StaleInv, StaleBounded, StaleSoFar, Acting, TypeOK, StaleLimit
<1>6. CASE Released(r)
  BY <1>6 DEF Released, EndCall, StaleInv, StaleBounded, StaleSoFar, Acting, TypeOK, StaleLimit
<1> QED
  BY <1>1, <1>2, <1>3, <1>4, <1>5, <1>6

(* A tick preserves StaleInv: what a runner acts without the lock grows as *)
(* fast as what it has waited, and no deadline is passed.                  *)
LEMMA TickStale ==
  ASSUME StaleInv, Tick
  PROVE  StaleBounded' /\ StaleSoFar'
<1> USE RunnerAssumption
<1>1. ASSUME NEW r \in Runners
      PROVE  /\ pc'[r] = pc[r] /\ acquired'[r] = acquired[r] /\ call'[r] = call[r]
             /\ pc[r] = "select" => timer[r] > 0 /\ timer'[r] = timer[r] - 1
             /\ pc[r] # "select" => timer'[r] = timer[r]
             /\ pc[r] = "locking" => waited[r] < TTL /\ waited'[r] = waited[r] + 1
             /\ ~Acting(r) => stale'[r] = 0
             /\ stale'[r] = 0 \/ stale'[r] = stale[r] + 1
             /\ waited'[r] \in Nat
  BY DEF Tick, StaleInv, TypeOK, AtMost, Calling, StaleBounded, StaleLimit
<1>2. StaleSoFar'
  BY <1>1 DEF StaleSoFar, StaleInv, TypeOK, Acting
<1>3. ASSUME NEW r \in Runners
      PROVE  stale'[r] <= StaleLimit
  <2>1. TTL \in Nat /\ Retry \in Nat /\ stale[r] \in Nat /\ timer[r] \in Nat /\ waited[r] \in Nat
    BY DEF StaleInv, TypeOK
  <2>2. CASE ~Acting(r)
    BY <1>1, <2>1, <2>2 DEF StaleLimit
  <2>3. CASE Acting(r) /\ pc[r] = "select"
    BY <1>1, <2>1, <2>3 DEF StaleLimit, StaleInv, StaleSoFar
  <2>4. CASE Acting(r) /\ pc[r] = "locking"
    BY <1>1, <2>1, <2>4 DEF StaleLimit, StaleInv, StaleSoFar
  <2> QED
    BY <2>2, <2>3, <2>4 DEF Acting
<1> QED
  BY <1>2, <1>3 DEF StaleBounded

(* Every step preserves StaleInv.                                          *)
LEMMA StaleStep == StaleInv /\ [Next]_vars => StaleInv'
<1> SUFFICES ASSUME StaleInv, [Next]_vars PROVE StaleInv'
  OBVIOUS
<1>1. TypeOK'
  BY TypeStep DEF StaleInv
<1>2. CASE UNCHANGED vars
  BY <1>1, <1>2 DEF StaleInv, StaleBounded, StaleSoFar, Acting, StaleLimit, vars, callVars, runVars
<1>3. CASE FindExpired
  <2>1. holder \in Runners
    BY <1>3 DEF FindExpired, StaleInv, TypeOK
  <2> QED
    BY <1>1, <1>3, <2>1, ServerStale DEF StaleInv
<1> QED
  BY <1>1, <1>2, <1>3, ServerStale, RunStale, TickStale DEF Next, StaleInv

(* No runner acts as owner without the lock for longer than 2 * TTL +      *)
(* Retry (lock.go:96-118), whatever fails and however many compete.        *)
THEOREM StaleOwnersStop == Spec => []StaleBounded
<1>1. Init => StaleInv
  BY TypeInit, RunnerAssumption
     DEF Init, StaleInv, StaleBounded, StaleSoFar, StaleLimit, Acting
<1>2. StaleInv => StaleBounded
  BY DEF StaleInv
<1> QED
  BY <1>1, <1>2, StaleStep, PTL DEF Spec

-----------------------------------------------------------------------------
(* PromptRunnerHolds                                                       *)

(* The same, as long as no call is late.                                   *)
PromptInv == StaleInv /\ Unfaulted

(* The steps of the server that are no faults preserve Unfaulted: a lock   *)
(* is given only to its holder or when nobody holds it, and one that is in *)
(* use is too young to be found expired.                                   *)
LEMMA ServerPrompt ==
  ASSUME Prompt, PromptInv, NEW r \in Runners, faults' = faults,
         ServeLock(r) \/ ServeError(r) \/ ServeRelease(r) \/ ServeLate(r) \/ SlowCall(r)
           \/ FindExpired \/ ReleaseExpired(r)
  PROVE  Unfaulted'
<1> USE RunnerAssumption
<1>1. faults \in Nat
  BY DEF PromptInv, StaleInv, TypeOK
<1>2. CASE ServeLock(r)
  BY <1>2 DEF ServeLock, CommitLock, Free, serverVars, runVars, PromptInv, StaleInv, TypeOK,
              Unfaulted, StaleSoFar, Acting, Calling
<1>3. CASE ServeError(r) \/ SlowCall(r)
  BY <1>1, <1>3 DEF ServeError, SlowCall, Fault
<1>4. CASE ServeRelease(r)
  BY SMTT(30), <1>4 DEF ServeRelease, runVars, PromptInv, StaleInv, TypeOK, Unfaulted, Acting, Calling
<1>5. CASE ServeLate(r)
  BY SMTT(30), <1>5 DEF ServeLate, PromptInv, Unfaulted
<1>6. CASE FindExpired
  <2>1. holder \in Runners /\ age = TTL
    BY <1>6 DEF FindExpired, PromptInv, StaleInv, TypeOK
  <2>2. pc[holder] \in {"releasing", "exited"}
    BY <2>1 DEF PromptInv, StaleInv, TypeOK, Unfaulted, Prompt, Calling
  <2> QED
    BY <1>6, <2>2 DEF FindExpired, callVars, runVars, PromptInv, Unfaulted, Acting, Calling
<1>7. CASE ReleaseExpired(r)
  BY SMTT(30), <1>7 DEF ReleaseExpired, callVars, runVars, PromptInv, StaleInv, TypeOK, Unfaulted,
              Acting, Calling
<1> QED
  BY <1>2, <1>3, <1>4, <1>5, <1>6, <1>7

(* Run of q is where it was.                                               *)
SameRun(q) ==
  /\ pc'[q] = pc[q] /\ acquired'[q] = acquired[q] /\ timer'[q] = timer[q]
  /\ waited'[q] = waited[q] /\ call'[q] = call[q]

(* A runner whose Lock has returned goes into the select with the lock and *)
(* a timer, or without the lock (lock.go:99-118).                          *)
LEMMA IntoSelect ==
  ASSUME PromptInv, NEW r \in Runners, pc[r] \in {"first", "locking"}, call[r] \in {"ok", "err"},
         acquired'[r] = (call[r] = "ok"), pc'[r] = "select", timer'[r] = Retry,
         slow' = slow \ {r}, UNCHANGED <<holder, age, expiring, late>>,
         \A q \in Runners \ {r} : SameRun(q)
  PROVE  Unfaulted'
<1> USE RunnerAssumption
<1>1. slow' = {} /\ late' = {}
  BY DEF PromptInv, Unfaulted
<1>2. \A q \in expiring' : pc'[q] \in {"releasing", "exited"}
  BY DEF PromptInv, StaleInv, TypeOK, Unfaulted, SameRun
<1>3. call[r] = "ok" => holder = r /\ age <= MaxDelay
  BY SMTT(30) DEF PromptInv, StaleInv, TypeOK, Unfaulted, Calling
<1>4. call[r] # "ok" => holder # r
  BY DEF PromptInv, Unfaulted
<1>5. age \in Nat /\ MaxDelay + Retry - timer'[r] = MaxDelay
  BY SMTT(30) DEF PromptInv, StaleInv, TypeOK
<1>6. ASSUME NEW q \in Runners
      PROVE  /\ Acting(q)' => holder' = q
             /\ Calling(q)' => waited'[q] <= MaxDelay
             /\ pc'[q] \in {"first", "locking"} =>
                  /\ call'[q] = "ok" => holder' = q /\ age' <= waited'[q]
                  /\ call'[q] = "err" => holder' # q
             /\ holder' = q =>
                  /\ pc'[q] = "first" => call'[q] = "ok"
                  /\ pc'[q] = "select" => acquired'[q] /\ age' <= MaxDelay + Retry - timer'[q]
                  /\ pc'[q] = "locking" => /\ acquired'[q] \/ call'[q] = "ok"
                                           /\ age' <= MaxDelay + Retry + waited'[q]
  <2>1. CASE q = r
    BY Zenon, <1>3, <1>4, <1>5, <2>1 DEF Acting, Calling
  <2>2. CASE q # r
    <3>1. SameRun(q)
      BY <2>2
    <3> QED
      BY <3>1 DEF PromptInv, Unfaulted, Acting, Calling, SameRun
  <2> QED
    BY SMTT(30), <2>1, <2>2
<1> QED
  BY <1>1, <1>2, <1>6 DEF Unfaulted

(* The steps of Run preserve Unfaulted: a Lock that returns an error was   *)
(* made by a runner without the lock, and none runs into its deadline.     *)
LEMMA RunPrompt ==
  ASSUME Prompt, PromptInv, NEW r \in Runners,
         FirstLock(r) \/ OnRetry(r) \/ LockReturns(r) \/ LockTimesOut(r)
           \/ Signal(r) \/ OnSignal(r) \/ Released(r)
  PROVE  Unfaulted'
<1> USE RunnerAssumption
<1>1. CASE FirstLock(r)
  <2>1. acquired'[r] = (call[r] = "ok") /\ pc'[r] = "select" /\ timer'[r] = Retry
    BY <1>1 DEF FirstLock, PromptInv, StaleInv, TypeOK
  <2>2. slow' = slow \ {r} /\ UNCHANGED <<holder, age, expiring, late>>
    BY <1>1 DEF FirstLock, EndCall, serverVars
  <2>3. \A q \in Runners \ {r} : SameRun(q)
    BY SMTT(30), <1>1 DEF FirstLock, EndCall, SameRun, PromptInv, StaleInv, TypeOK
  <2>4. pc[r] = "first" /\ call[r] \in {"ok", "err"}
    BY SMTT(30), <1>1 DEF FirstLock, Answered
  <2> QED
    BY <2>1, <2>2, <2>3, <2>4, IntoSelect
<1>2. CASE OnRetry(r)
  BY SMTT(30), <1>2 DEF OnRetry, Send, serverVars, PromptInv, StaleInv, TypeOK, Unfaulted, Acting, Calling
<1>3. CASE LockReturns(r)
  <2>1. pc[r] = "locking" /\ call[r] \in {"ok", "err"} /\ Locked(r, call[r] = "ok")
    BY SMTT(30), <1>3 DEF LockReturns, Answered
  <2>2. call[r] # "ok" => ~acquired[r]
    BY <2>1 DEF PromptInv, Unfaulted, Acting
  <2>3. ~LostLock(r, call[r] = "ok")
    BY <2>2 DEF LostLock
  <2>4. acquired'[r] = (call[r] = "ok") /\ pc'[r] = "select" /\ timer'[r] = Retry
    BY <2>1, <2>3 DEF Locked, PromptInv, StaleInv, TypeOK
  <2>5. slow' = slow \ {r} /\ UNCHANGED <<holder, age, expiring, late>>
    BY <1>3 DEF LockReturns, Locked, EndCall, serverVars
  <2>6. \A q \in Runners \ {r} : SameRun(q)
    BY SMTT(30), <2>1 DEF Locked, EndCall, SameRun, PromptInv, StaleInv, TypeOK
  <2> QED
    BY Zenon, <2>1, <2>4, <2>5, <2>6, IntoSelect
<1>4. CASE LockTimesOut(r)
  BY SMTT(30), <1>4 DEF LockTimesOut, PromptInv, StaleInv, TypeOK, Unfaulted, Calling, Prompt
<1>5. CASE Signal(r)
  BY SMTT(30), <1>5 DEF Signal, serverVars, callVars, PromptInv, Unfaulted, Acting, Calling
<1>6. CASE OnSignal(r)
  BY SMTT(30), <1>6 DEF OnSignal, Send, serverVars, PromptInv, StaleInv, TypeOK, Unfaulted, Acting, Calling
<1>7. CASE Released(r)
  BY SMTT(30), <1>7 DEF Released, EndCall, serverVars, PromptInv, StaleInv, TypeOK, Unfaulted, Acting, Calling
<1> QED
  BY <1>1, <1>2, <1>3, <1>4, <1>5, <1>6, <1>7

(* A tick preserves Unfaulted: a lock grows older no faster than its       *)
(* holder's timer runs down or its call is waited for.                     *)
LEMMA TickPrompt ==
  ASSUME Prompt, PromptInv, Tick
  PROVE  Unfaulted'
<1> USE RunnerAssumption
<1>1. /\ age' <= age + 1 /\ age' \in Nat
      /\ UNCHANGED <<holder, expiring, call, slow, pc, acquired, late>>
  BY DEF Tick, AtMost, PromptInv, StaleInv, TypeOK
<1>2. ASSUME NEW r \in Runners
      PROVE  /\ pc[r] = "select" => timer'[r] = timer[r] - 1
             /\ Calling(r) => waited'[r] = waited[r] + 1 /\ waited[r] < MaxDelay
  BY DEF Tick, AtMost, PromptInv, StaleInv, TypeOK, Unfaulted, Prompt
<1> QED
  BY <1>1, <1>2 DEF PromptInv, StaleInv, TypeOK, Unfaulted, Acting, Calling

(* Before the first fault every step preserves Unfaulted.                  *)
LEMMA PromptStep ==
  ASSUME Prompt, StaleInv, PromptSoFar, [Next]_vars
  PROVE  PromptSoFar'
<1> SUFFICES ASSUME faults' = MaxFaults PROVE Unfaulted'
  BY DEF PromptSoFar
<1>1. faults' = faults
  <2>1. faults' = faults \/ Fault
    BY Zenon DEF Next, vars, ServeLock, ServeError, ServeRelease, ServeLate, SlowCall, FindExpired,
           ReleaseExpired, FirstLock, OnRetry, LockReturns, LockTimesOut, Locked, Signal, OnSignal,
           Released, Tick
  <2> QED
    BY SMTT(30), <2>1, RunnerAssumption DEF StaleInv, TypeOK, Fault
<1>2. PromptInv
  BY <1>1 DEF PromptSoFar, PromptInv
<1>3. CASE UNCHANGED vars
  BY <1>2, <1>3 DEF vars, serverVars, callVars, runVars, PromptInv, Unfaulted, Acting, Calling
<1>4. CASE FindExpired
  <2>1. holder \in Runners
    BY <1>4 DEF FindExpired, StaleInv, TypeOK
  <2> QED
    BY <1>1, <1>2, <1>4, <2>1, ServerPrompt
<1> QED
  BY <1>1, <1>2, <1>3, <1>4, ServerPrompt, RunPrompt, TickPrompt DEF Next

(* Until a call fails or is slow, only the holder of the lock acts as its  *)
(* owner (lock.go:80, 118), if the retry interval and two calls fit into   *)
(* the ttl.                                                                *)
THEOREM PromptRunnersHold == Prompt => (Spec => []PromptRunnerHolds)
<1> SUFFICES ASSUME Prompt PROVE Spec => []PromptRunnerHolds
  OBVIOUS
<1>1. Init => StaleInv /\ PromptSoFar
  BY TypeInit, RunnerAssumption
     DEF Init, StaleInv, StaleBounded, StaleSoFar, StaleLimit, Acting, PromptSoFar, Unfaulted, Calling
<1>2. StaleInv /\ PromptSoFar /\ [Next]_vars => (StaleInv /\ PromptSoFar)'
  BY SMTT(30), StaleStep, PromptStep
<1>3. PromptSoFar => PromptRunnerHolds
  BY DEF PromptSoFar, PromptRunnerHolds, Unfaulted
<1> QED
  BY <1>1, <1>2, <1>3, PTL DEF Spec
=============================================================================
