---------------------------- MODULE ConsulSession ----------------------------
(***************************************************************************)
(* The consul Session of session.go, as its two users (lock.go and         *)
(* presence.go) drive it: the Session objects a Run makes one after the    *)
(* other, and the goroutines each of them starts.  A renew goroutine keeps *)
(* the session alive, an acquire goroutine waits for the key, and, once it *)
(* has the key, a monitor goroutine waits for its loss.                    *)
(*                                                                         *)
(* s.lock is taken and given back within one step, except by a monitor     *)
(* that waits in its send to errCh with s.lock held (busy).  doneCh is     *)
(* closed exactly when destroyed is set.  The errors themselves (and       *)
(* lostLock, which only selects one) are logged and not told apart.        *)
(*                                                                         *)
(* External: consul and its Go client.  A session dies when it is          *)
(* destroyed, or when it is not renewed in time, and its key is deleted    *)
(* with it.  The name of the sessions is a uuid that each runner draws for *)
(* itself (lock.go:46-51, presence.go:33-38): only the sessions of one Run *)
(* share it.  What a process that died has left behind is a session of     *)
(* another name, which keeps the key until consul drops it: it is one more *)
(* Other.                                                                  *)
(***************************************************************************)
EXTENDS Integers

CONSTANTS
  MaxSessions,   \* bound on the Session objects, one for each retry
  Nobody,        \* the key is not held
  Other,         \* a session of another name holds the key
  MaxFaults      \* errors and lost sessions that may happen

ASSUME SessionAssumption ==
  /\ MaxSessions \in Nat \ {0}
  /\ MaxFaults \in Nat
  /\ Nobody \notin Nat /\ Other \notin Nat /\ Nobody # Other

(* In the order in which they are made.                                    *)
Sessions == 1 .. MaxSessions

VARIABLES
  session,   \* the fields of each Session
  acquire,   \* where the goroutine that called AcquireLock or SetPresence is
  renew,     \* where the goroutine of RenewPeriodic is
  monitor,   \* where the goroutine that waits for lostCh is
  alive,     \* sessions that consul knows
  holder,    \* who holds the key
  lostCh,    \* sessions whose lostCh has been closed
  faults     \* faults still allowed

routineVars == <<acquire, renew, monitor>>
consulVars == <<alive, holder, lostCh, faults>>
sessionVars == <<session, routineVars, consulVars>>

Fields == [id : BOOLEAN, destroyed : BOOLEAN, busy : BOOLEAN, errCh : 0 .. 1]

SessionTypeOK ==
  /\ session \in [Sessions -> Fields]
  /\ acquire \in [Sessions -> {"none", "started", "locking", "ok", "failed", "read"}]
  /\ renew \in [Sessions -> {"none", "renewing", "ended", "sending", "done"}]
  /\ monitor \in [Sessions -> {"none", "watching", "lost", "sending", "done"}]
  /\ alive \subseteq Sessions
  /\ holder \in Sessions \cup {Nobody, Other}
  /\ lostCh \subseteq Sessions
  /\ faults \in 0 .. MaxFaults

NewSession == [id |-> FALSE, destroyed |-> FALSE, busy |-> FALSE, errCh |-> 0]

SessionInit ==
  /\ session = [s \in Sessions |-> NewSession]
  /\ acquire = [s \in Sessions |-> IF s = 1 THEN "started" ELSE "none"]
  /\ renew = [s \in Sessions |-> "none"]
  /\ monitor = [s \in Sessions |-> "none"]
  /\ alive = {}
  /\ holder \in {Nobody, Other}
  /\ lostCh = {}
  /\ faults = MaxFaults

-----------------------------------------------------------------------------
(* consul                                                                  *)

Fault == faults > 0 /\ faults' = faults - 1

(* The sessions in dead are gone, and the key with its session.            *)
Dies(dead) ==
  /\ alive' = alive \ dead
  /\ holder' = IF holder \in dead THEN Nobody ELSE holder

Renewed(s) == renew[s] = "renewing"

(* A session that is renewed dies only by a fault, any other in its time.  *)
SessionExpires(s) ==
  /\ s \in alive
  /\ IF Renewed(s) THEN Fault ELSE UNCHANGED faults
  /\ Dies({s})
  /\ UNCHANGED <<session, routineVars, lostCh>>

(* The key is deleted under its holder.                                    *)
KeyDeleted ==
  /\ holder \in Sessions
  /\ Fault
  /\ holder' = Nobody
  /\ UNCHANGED <<session, routineVars, alive, lostCh>>

OtherMoves ==
  /\ holder \in {Nobody, Other}
  /\ holder' \in {Nobody, Other} \ {holder}
  /\ UNCHANGED <<session, routineVars, alive, lostCh, faults>>

(* The client sees that the key is lost, or cannot reach consul for        *)
(* MonitorRetries * MonitorRetryTime.                                      *)
LostChCloses(s) ==
  /\ monitor[s] # "none" /\ s \notin lostCh
  /\ IF holder = s THEN Fault ELSE UNCHANGED faults
  /\ lostCh' = lostCh \cup {s}
  /\ UNCHANGED <<session, routineVars, alive, holder>>

-----------------------------------------------------------------------------
(* Mutant of destroy: nothing is done for a session not created yet.       *)
destroyCreated(s) ==
  IF session[s].id /\ ~session[s].destroyed
  THEN /\ session' = [session EXCEPT ![s].destroyed = TRUE]
       /\ \/ Dies({s}) /\ UNCHANGED faults
          \/ Fault /\ UNCHANGED <<alive, holder>>
  ELSE UNCHANGED <<session, alive, holder, faults>>

(* destroy, with s.lock held.  The error of the call to consul is ignored. *)
destroy(s) ==
  /\ session' = [session EXCEPT ![s].destroyed = TRUE]
  /\ IF session[s].id /\ ~session[s].destroyed
     THEN \/ Dies({s}) /\ UNCHANGED faults
          \/ Fault /\ UNCHANGED <<alive, holder>>
     ELSE UNCHANGED <<alive, holder, faults>>

(* Destroy: waits while a monitor holds s.lock.                            *)
Destroy(s) ==
  /\ ~session[s].busy
  /\ destroy(s)
  /\ UNCHANGED <<routineVars, lostCh>>

(* Mutant of create: the earlier sessions of this Run are left alone.      *)
createBeside(s) ==
  /\ alive' = alive \cup {s}
  /\ session' = [session EXCEPT ![s].id = TRUE]
  /\ renew' = [renew EXCEPT ![s] = "renewing"]
  /\ UNCHANGED <<holder, faults, lostCh>>

(* create: every session of this name, that is every one that this Run has *)
(* made before and consul still knows, is destroyed before the new one.    *)
create(s) ==
  /\ alive' = {s}
  /\ holder' = IF holder \in alive THEN Nobody ELSE holder
  /\ session' = [session EXCEPT ![s].id = TRUE]
  /\ renew' = [renew EXCEPT ![s] = "renewing"]
  /\ UNCHANGED <<faults, lostCh>>

(* create returns an error, after it has destroyed some sessions or none.  *)
createFails ==
  /\ Fault
  /\ \E dead \in SUBSET alive : Dies(dead)
  /\ UNCHANGED <<session, renew, lostCh>>

-----------------------------------------------------------------------------
(* The first session is created by AcquireLock or SetPresence itself, the  *)
(* others have been created by Recreate (their id is set).                 *)
AcquireCreates(s) ==
  /\ acquire[s] = "started"
  /\ ~session[s].busy
  /\ \/ /\ session[s].destroyed
        /\ acquire' = [acquire EXCEPT ![s] = "failed"]
        /\ UNCHANGED <<session, renew, consulVars>>
     \/ /\ ~session[s].destroyed /\ session[s].id
        /\ acquire' = [acquire EXCEPT ![s] = "locking"]
        /\ UNCHANGED <<session, renew, consulVars>>
     \/ /\ ~session[s].destroyed /\ ~session[s].id
        /\ \/ create(s) /\ acquire' = [acquire EXCEPT ![s] = "locking"]
           \/ createFails /\ acquire' = [acquire EXCEPT ![s] = "failed"]
  /\ UNCHANGED monitor

(* lock.Lock returns with the key; the monitor goroutine is started.       *)
LockWon(s) ==
  /\ acquire[s] = "locking"
  /\ s \in alive /\ holder = Nobody
  /\ holder' = s
  /\ acquire' = [acquire EXCEPT ![s] = "ok"]
  /\ monitor' = [monitor EXCEPT ![s] = "watching"]
  /\ UNCHANGED <<session, renew, alive, lostCh, faults>>

(* LockOpts or lock.Lock returns an error: the session is invalid, doneCh  *)
(* was closed (ErrCancelled), or consul cannot be reached.                 *)
LockFailed(s) ==
  /\ acquire[s] = "locking"
  /\ IF s \notin alive \/ session[s].destroyed THEN UNCHANGED faults ELSE Fault
  /\ acquire' = [acquire EXCEPT ![s] = "failed"]
  /\ UNCHANGED <<session, renew, monitor, alive, holder, lostCh>>

(* RenewPeriodic returns: doneCh is closed, the session has expired, or    *)
(* consul could not be reached for a whole ttl.                            *)
RenewEnds(s) ==
  /\ renew[s] = "renewing"
  /\ IF s \notin alive \/ session[s].destroyed THEN UNCHANGED faults ELSE Fault
  /\ renew' = [renew EXCEPT ![s] = "ended"]
  /\ UNCHANGED <<session, acquire, monitor, alive, holder, lostCh>>

RenewDestroys(s) ==
  /\ renew[s] = "ended"
  /\ ~session[s].busy
  /\ destroy(s)
  /\ renew' = [renew EXCEPT ![s] = "sending"]
  /\ UNCHANGED <<acquire, monitor, lostCh>>

RenewSends(s) ==
  /\ renew[s] = "sending"
  /\ session[s].errCh = 0
  /\ session' = [session EXCEPT ![s].errCh = 1]
  /\ renew' = [renew EXCEPT ![s] = "done"]
  /\ UNCHANGED <<acquire, monitor, consulVars>>

(* Recreate, called on the current session s with its lock held: next is   *)
(* the new Session.  Its caller starts an acquire goroutine on it.         *)
Recreate(s, next) ==
  /\ ~session[s].busy
  /\ create(next)
  /\ acquire' = [acquire EXCEPT ![next] = "started"]
  /\ UNCHANGED monitor

RecreateFails(s) ==
  /\ ~session[s].busy
  /\ createFails
  /\ UNCHANGED <<acquire, monitor>>

(* Mutant of ReadErr: the receive does not wait for an error.              *)
ReadErrAtOnce(s) ==
  /\ session' = [session EXCEPT ![s].errCh = session[s].errCh - 1]
  /\ UNCHANGED <<routineVars, consulVars>>

ReadErr(s) ==
  /\ session[s].errCh = 1
  /\ session' = [session EXCEPT ![s].errCh = 0]
  /\ UNCHANGED <<routineVars, consulVars>>

(* The steps both users share.                                             *)
SessionNext ==
  \/ KeyDeleted
  \/ OtherMoves
  \/ \E s \in Sessions :
       \/ SessionExpires(s)
       \/ LostChCloses(s)
       \/ AcquireCreates(s)
       \/ LockWon(s)
       \/ LockFailed(s)
       \/ RenewEnds(s)
       \/ RenewDestroys(s)
       \/ RenewSends(s)

(* Goroutines that can run do run and calls to consul are answered; no     *)
(* fault is assumed to happen.  Consul drops a session that nobody renews, *)
(* the client notices a key that is gone, the other process does not keep  *)
(* the key for ever, and a waiting lock.Lock gets the key if it is free    *)
(* again and again.                                                        *)
SessionFairness ==
  /\ WF_sessionVars(OtherMoves /\ holder = Other)
  /\ \A s \in Sessions :
       /\ WF_sessionVars(SessionExpires(s) /\ ~Renewed(s))
       /\ WF_sessionVars(LostChCloses(s) /\ holder # s)
       /\ WF_sessionVars(AcquireCreates(s) /\ UNCHANGED faults)
       /\ SF_sessionVars(LockWon(s))
       /\ WF_sessionVars(LockFailed(s) /\ UNCHANGED faults)
       /\ WF_sessionVars(RenewEnds(s) /\ UNCHANGED faults)
       /\ WF_sessionVars(RenewDestroys(s) \/ RenewSends(s))

-----------------------------------------------------------------------------
(* Consul never has two sessions of one Run: a session that was given up,  *)
(* and that is still alive because the error of its Destroy was ignored    *)
(* (session.go:86), cannot keep the key from the next one, since create    *)
(* destroys the sessions of its name first (session.go:256-264).  Nothing  *)
(* of the kind holds for a process that is started again: it has a new     *)
(* name, and waits until consul drops the session of the old one.          *)
OneSession == \A s, t \in alive : s = t
=============================================================================
