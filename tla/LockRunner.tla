----------------------------- MODULE LockRunner ------------------------------
(***************************************************************************)
(* The runners of lock/lock.go: a lock runner or a presence runner keeps a *)
(* lock of the locket server by locking it again and again.  Several       *)
(* runners, each with an owner of its own, compete for one lock.           *)
(*                                                                         *)
(* Time is counted in ticks.  The server is what Expiration.tla shows of   *)
(* it: a lock is found expired no earlier than TTL after its last commit,  *)
(* and is then released by owner, in a later step.                         *)
(***************************************************************************)
EXTENDS Integers

CONSTANTS
  Runners,     \* the runners, which are also the owners
  Presences,   \* the runners that NewPresenceRunner made
  Nobody,      \* the lock is free
  TTL,         \* ttlInSeconds
  Retry,       \* retryInterval
  MaxDelay,    \* ticks within which a call is answered, but for a fault
  MaxFaults    \* slow calls and errors that may happen

ASSUME RunnerAssumption ==
  /\ Presences \subseteq Runners /\ Nobody \notin Runners
  /\ TTL \in Nat /\ Retry \in Nat \ {0} /\ MaxDelay \in Nat /\ MaxFaults \in Nat

VARIABLES
  holder,     \* the owner of the lock in the server
  age,        \* ticks since the lock was last committed, up to TTL
  expiring,   \* owners whose lock was found expired and not yet released
  pc,         \* where Run is
  acquired,   \* acquired in Run
  timer,      \* ticks until retry.C() fires
  signalled,  \* a signal is in the channel
  call,       \* the call in progress
  waited,     \* ticks since the call was made, up to TTL
  slow,       \* the call may take longer than MaxDelay
  late,       \* a Lock that Run gave up may still reach the server
  stale,      \* ticks for which the runner has acted without the lock
  faults      \* faults still allowed

serverVars == <<holder, age, expiring>>
callVars == <<call, waited, slow>>
runVars == <<pc, acquired, timer, signalled>>
vars == <<serverVars, callVars, runVars, late, stale, faults>>

(* Run returned ready or has the lock again: its process acts as owner.    *)
Acting(r) == acquired[r] /\ pc[r] \in {"select", "locking"}

Calling(r) == pc[r] \in {"first", "locking", "releasing"}

StaleLimit == 2 * TTL + Retry

TypeOK ==
  /\ holder \in Runners \cup {Nobody}
  /\ age \in 0 .. TTL
  /\ expiring \subseteq Runners
  /\ pc \in [Runners -> {"first", "select", "locking", "releasing", "exited"}]
  /\ acquired \in [Runners -> BOOLEAN]
  /\ timer \in [Runners -> Nat]
  /\ signalled \subseteq Runners
  /\ call \in [Runners -> {"none", "sent", "ok", "err"}]
  /\ waited \in [Runners -> 0 .. TTL]
  /\ slow \subseteq Runners /\ late \subseteq Runners
  /\ stale \in [Runners -> 0 .. StaleLimit + 1]
  /\ faults \in 0 .. MaxFaults

Init ==
  /\ holder = Nobody /\ age = 0 /\ expiring = {}
  /\ pc = [r \in Runners |-> "first"]
  /\ acquired = [r \in Runners |-> FALSE]
  /\ timer = [r \in Runners |-> 0]
  /\ signalled = {}
  /\ call = [r \in Runners |-> "sent"]
  /\ waited = [r \in Runners |-> 0]
  /\ slow = {} /\ late = {}
  /\ stale = [r \in Runners |-> 0]
  /\ faults = MaxFaults

-----------------------------------------------------------------------------
(* The server and the network                                              *)

Fault == faults > 0 /\ faults' = faults - 1

Free(r) == holder \in {r, Nobody}

CommitLock(r) ==
  /\ holder' = r /\ age' = 0
  /\ stale' = [stale EXCEPT ![r] = 0]
  /\ UNCHANGED expiring

(* Lock is answered: a commit, or a collision.                             *)
ServeLock(r) ==
  /\ pc[r] \in {"first", "locking"} /\ call[r] = "sent"
  /\ IF Free(r) THEN CommitLock(r) ELSE UNCHANGED <<serverVars, stale>>
  /\ call' = [call EXCEPT ![r] = IF Free(r) THEN "ok" ELSE "err"]
  /\ UNCHANGED <<waited, slow, runVars, late, faults>>

(* An error, with or without a commit.                                     *)
ServeError(r) ==
  /\ pc[r] \in {"first", "locking"} /\ call[r] = "sent"
  /\ Fault
  /\ \/ Free(r) /\ CommitLock(r)
     \/ UNCHANGED <<serverVars, stale>>
  /\ call' = [call EXCEPT ![r] = "err"]
  /\ UNCHANGED <<waited, slow, runVars, late>>

(* Release takes effect, or fails by a fault.                              *)
ServeRelease(r) ==
  /\ pc[r] = "releasing" /\ call[r] = "sent"
  /\ \/ holder' = (IF holder = r THEN Nobody ELSE holder) /\ UNCHANGED faults
     \/ Fault /\ UNCHANGED holder
  /\ call' = [call EXCEPT ![r] = "ok"]
  /\ UNCHANGED <<age, expiring, waited, slow, runVars, late, stale>>

(* A Lock that its caller has given up takes effect, or gets lost.         *)
ServeLate(r) ==
  /\ r \in late
  /\ late' = late \ {r}
  /\ \/ Free(r) /\ CommitLock(r)
     \/ UNCHANGED <<serverVars, stale>>
  /\ UNCHANGED <<callVars, runVars, faults>>

SlowCall(r) ==
  /\ Calling(r) /\ r \notin slow
  /\ Fault
  /\ slow' = slow \cup {r}
  /\ UNCHANGED <<serverVars, call, waited, runVars, late, stale>>

FindExpired ==
  /\ holder # Nobody /\ age = TTL /\ holder \notin expiring
  /\ expiring' = expiring \cup {holder}
  /\ UNCHANGED <<holder, age, callVars, runVars, late, stale, faults>>

ReleaseExpired(o) ==
  /\ o \in expiring
  /\ expiring' = expiring \ {o}
  /\ holder' = IF holder = o THEN Nobody ELSE holder
  /\ UNCHANGED <<age, callVars, runVars, late, stale, faults>>

-----------------------------------------------------------------------------
(* Run                                                                     *)

Send(r) ==
  /\ call' = [call EXCEPT ![r] = "sent"]
  /\ waited' = [waited EXCEPT ![r] = 0]
  /\ UNCHANGED slow

EndCall(r) ==
  /\ call' = [call EXCEPT ![r] = "none"]
  /\ waited' = [waited EXCEPT ![r] = 0]
  /\ slow' = slow \ {r}

Answered(r) == call[r] \in {"ok", "err"}

(* The Lock before the loop.  It has no deadline.                          *)
FirstLock(r) ==
  /\ pc[r] = "first" /\ Answered(r)
  /\ acquired' = [acquired EXCEPT ![r] = (call[r] = "ok")]
  /\ pc' = [pc EXCEPT ![r] = "select"]
  /\ timer' = [timer EXCEPT ![r] = Retry]
  /\ EndCall(r)
  /\ UNCHANGED <<serverVars, signalled, late, stale, faults>>

OnRetry(r) ==
  /\ pc[r] = "select" /\ timer[r] = 0
  /\ pc' = [pc EXCEPT ![r] = "locking"]
  /\ Send(r)
  /\ UNCHANGED <<serverVars, acquired, timer, signalled, late, stale, faults>>

(* Run returns the error (exitOnLostLock); acquired stays as it is.        *)
LostLock(r, ok) == ~ok /\ acquired[r] /\ r \notin Presences

(* Mutant of Locked: the timer is reset to the ttl.                        *)
LockedWaitsTTL(r, ok) ==
  /\ pc' = [pc EXCEPT ![r] = IF LostLock(r, ok) THEN "exited" ELSE "select"]
  /\ acquired' = [acquired EXCEPT ![r] = ok \/ LostLock(r, ok)]
  /\ timer' = [timer EXCEPT ![r] = TTL]
  /\ EndCall(r)
  /\ UNCHANGED <<serverVars, signalled, stale, faults>>

(* Mutant of Locked: an error is taken for a loss only by a lock runner.   *)
LockedKeepsAcquired(r, ok) ==
  /\ pc' = [pc EXCEPT ![r] = IF LostLock(r, ok) THEN "exited" ELSE "select"]
  /\ acquired' = [acquired EXCEPT ![r] = acquired[r] \/ ok]
  /\ timer' = [timer EXCEPT ![r] = Retry]
  /\ EndCall(r)
  /\ UNCHANGED <<serverVars, signalled, stale, faults>>

(* Mutant of Locked: a runner that was never ready returns on an error.    *)
LockedExitsEarly(r, ok) ==
  /\ pc' = [pc EXCEPT ![r] = IF ~ok /\ r \notin Presences THEN "exited" ELSE "select"]
  /\ acquired' = [acquired EXCEPT ![r] = ok \/ LostLock(r, ok)]
  /\ timer' = [timer EXCEPT ![r] = Retry]
  /\ EndCall(r)
  /\ UNCHANGED <<serverVars, signalled, stale, faults>>

(* What Run does when its Lock has returned, with or without an error.     *)
Locked(r, ok) ==
  /\ pc' = [pc EXCEPT ![r] = IF LostLock(r, ok) THEN "exited" ELSE "select"]
  /\ acquired' = [acquired EXCEPT ![r] = ok \/ LostLock(r, ok)]
  /\ timer' = [timer EXCEPT ![r] = Retry]
  /\ EndCall(r)
  /\ UNCHANGED <<serverVars, signalled, stale, faults>>

LockReturns(r) ==
  /\ pc[r] = "locking" /\ Answered(r)
  /\ Locked(r, call[r] = "ok")
  /\ UNCHANGED late

(* context.WithTimeout: the call fails after the ttl.                      *)
LockTimesOut(r) ==
  /\ pc[r] = "locking" /\ waited[r] = TTL
  /\ Locked(r, FALSE)
  /\ late' = IF call[r] = "sent" THEN late \cup {r} ELSE late

Signal(r) ==
  /\ r \notin signalled
  /\ signalled' = signalled \cup {r}
  /\ UNCHANGED <<serverVars, callVars, pc, acquired, timer, late, stale, faults>>

OnSignal(r) ==
  /\ pc[r] = "select" /\ r \in signalled
  /\ pc' = [pc EXCEPT ![r] = "releasing"]
  /\ Send(r)
  /\ UNCHANGED <<serverVars, acquired, timer, signalled, late, stale, faults>>

Released(r) ==
  /\ pc[r] = "releasing" /\ Answered(r)
  /\ pc' = [pc EXCEPT ![r] = "exited"]
  /\ EndCall(r)
  /\ UNCHANGED <<serverVars, acquired, timer, signalled, late, stale, faults>>

-----------------------------------------------------------------------------
AtMost(n, limit) == IF n > limit THEN limit ELSE n

(* Mutant of Tick: a timer runs on while Run waits for its Lock.           *)
TickRunsOn ==
  /\ \A r \in Runners :
       /\ pc[r] = "select" => timer[r] > 0
       /\ pc[r] = "locking" => waited[r] < TTL
       /\ Calling(r) /\ r \notin slow => waited[r] < MaxDelay
  /\ timer' = [r \in Runners |-> timer[r] - 1]
  /\ UNCHANGED <<serverVars, callVars, pc, acquired, signalled, late, stale, faults>>

(* Timers and deadlines that are due, and calls that are not slow, are not *)
(* kept waiting.                                                           *)
Tick ==
  /\ \A r \in Runners :
       /\ pc[r] = "select" => timer[r] > 0
       /\ pc[r] = "locking" => waited[r] < TTL
       /\ Calling(r) /\ r \notin slow => waited[r] < MaxDelay
  /\ age' = AtMost(age + 1, TTL)
  /\ timer' = [r \in Runners |-> IF pc[r] = "select" THEN timer[r] - 1 ELSE timer[r]]
  /\ waited' = [r \in Runners |-> IF Calling(r) THEN AtMost(waited[r] + 1, TTL) ELSE waited[r]]
  /\ stale' = [r \in Runners |-> IF Acting(r) /\ holder # r
                                 THEN AtMost(stale[r] + 1, StaleLimit + 1) ELSE 0]
  /\ UNCHANGED <<holder, expiring, call, slow, pc, acquired, signalled, late, faults>>

Next ==
  \/ FindExpired \/ Tick
  \/ \E r \in Runners :
       \/ ServeLock(r) \/ ServeError(r) \/ ServeRelease(r) \/ ServeLate(r) \/ SlowCall(r)
       \/ ReleaseExpired(r)
       \/ FirstLock(r) \/ OnRetry(r) \/ LockReturns(r) \/ LockTimesOut(r)
       \/ Signal(r) \/ OnSignal(r) \/ Released(r)

Spec == Init /\ [][Next]_vars

(* Time passes, calls are answered in the end, and Run takes every case of *)
(* its select that stays ready.                                            *)
FairSpec ==
  /\ Spec
  /\ WF_vars(Tick)
  /\ \A r \in Runners :
       /\ WF_vars(ServeLock(r)) /\ WF_vars(ServeRelease(r))
       /\ WF_vars(FirstLock(r) \/ LockReturns(r) \/ LockTimesOut(r) \/ Released(r))
       /\ WF_vars(OnRetry(r)) /\ WF_vars(OnSignal(r))

-----------------------------------------------------------------------------
(* The retry interval leaves room for two calls within the ttl.            *)
Prompt == Retry + 2 * MaxDelay < TTL

(* As long as every call is answered in time and none fails, a runner that *)
(* acts as owner has the lock, and so no two act at once: it locks again   *)
(* before the ttl has elapsed since the last commit (lock.go:80, 118), if  *)
(* the constants are Prompt.                                               *)
PromptRunnerHolds ==
  faults = MaxFaults => \A r \in Runners : Acting(r) => holder = r

(* Whatever fails, a runner does not act as owner without the lock for     *)
(* longer than a call that was committed before the loss and answered at   *)
(* its deadline, the wait for the retry, and a second call that runs into  *)
(* its deadline (lock.go:96-118).                                          *)
StaleBounded == \A r \in Runners : stale[r] <= StaleLimit

(* A runner gets the lock when nobody else has it any more, whatever has   *)
(* failed before: an error never ends a runner without the lock, and a     *)
(* presence runner goes on after a loss (lock.go:100-118).                 *)
Acquires ==
  \A r \in Runners : []<>(acquired[r] \/ holder \notin {r, Nobody} \/ r \in signalled)

-----------------------------------------------------------------------------
(* What makes StaleBounded inductive: how long a runner can have acted     *)
(* without the lock, by what it waits for.                                 *)
StaleSoFar ==
  \A r \in Runners :
    /\ timer[r] <= Retry
    /\ Acting(r) /\ pc[r] = "select" => stale[r] <= TTL + Retry - timer[r]
    /\ Acting(r) /\ pc[r] = "locking" => stale[r] <= TTL + Retry + waited[r]
    /\ pc[r] \in {"first", "locking"} /\ call[r] = "ok" => stale[r] <= waited[r]

(* What makes PromptRunnerHolds inductive: before the first fault, how old *)
(* the last commit of a lock can be, and that no lock which is in use can  *)
(* have been found expired.                                                *)
Unfaulted ==
  /\ slow = {} /\ late = {}
  /\ \A r \in expiring : pc[r] \in {"releasing", "exited"}
  /\ \A r \in Runners :
       /\ Acting(r) => holder = r
       /\ Calling(r) => waited[r] <= MaxDelay
       /\ pc[r] \in {"first", "locking"} =>
            /\ call[r] = "ok" => holder = r /\ age <= waited[r]
            /\ call[r] = "err" => holder # r
       /\ holder = r =>
            /\ pc[r] = "first" => call[r] = "ok"
            /\ pc[r] = "select" => acquired[r] /\ age <= MaxDelay + Retry - timer[r]
            /\ pc[r] = "locking" => /\ acquired[r] \/ call[r] = "ok"
                                    /\ age <= MaxDelay + Retry + waited[r]

PromptSoFar == faults = MaxFaults => Unfaulted
=============================================================================
