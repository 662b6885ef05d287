----------------------------- MODULE ConsulLock ------------------------------
(***************************************************************************)
(* Lock.Run of lock.go: it acquires a consul key through a Session, with a *)
(* new Session for every retry, and returns when the lock is lost or the   *)
(* process is signalled.  One step is one case of its select.  Of the      *)
(* metrics, LockHeld is kept; LockHeldDuration goes with it.               *)
(***************************************************************************)
EXTENDS ConsulSession

VARIABLES
  pc,          \* where Run is
  consul,      \* l.consul, the current Session
  readyClosed, \* ready has been closed (and is nil)
  timer,       \* c is armed
  signalled,   \* a signal is in the channel
  lockHeld     \* the value of the metric LockHeld that was sent last

runVars == <<pc, consul, readyClosed, timer, signalled, lockHeld>>
lockVars == <<sessionVars, runVars>>

LockTypeOK ==
  /\ SessionTypeOK
  /\ pc \in {"select", "destroying", "returning", "done"}
  /\ consul \in Sessions
  /\ readyClosed \in BOOLEAN /\ timer \in BOOLEAN /\ signalled \in BOOLEAN
  /\ lockHeld \in BOOLEAN

LockInit ==
  /\ SessionInit
  /\ pc = "select"
  /\ consul = 1
  /\ readyClosed = FALSE /\ timer = FALSE /\ signalled = FALSE /\ lockHeld = FALSE

-----------------------------------------------------------------------------
(* The monitor goroutine of AcquireLock.                                   *)
MonitorLost(s) ==
  /\ monitor[s] = "watching"
  /\ s \in lostCh
  /\ monitor' = [monitor EXCEPT ![s] = "lost"]
  /\ UNCHANGED <<session, acquire, renew, consulVars, runVars>>

MonitorDone(s) ==
  /\ monitor[s] = "watching"
  /\ session[s].destroyed
  /\ monitor' = [monitor EXCEPT ![s] = "done"]
  /\ UNCHANGED <<session, acquire, renew, consulVars, runVars>>

(* Mutant of MonitorLocks: only lostLock is set, the session lives on.     *)
MonitorLeavesSession(s) ==
  /\ monitor[s] = "lost"
  /\ monitor' = [monitor EXCEPT ![s] = "done"]
  /\ UNCHANGED <<session, alive, holder, faults, acquire, renew, lostCh, runVars>>

(* It takes s.lock.  A session that is destroyed already has it send to    *)
(* errCh before it gives s.lock back.                                      *)
MonitorLocks(s) ==
  /\ monitor[s] = "lost"
  /\ IF session[s].destroyed
     THEN /\ session' = [session EXCEPT ![s].busy = TRUE]
          /\ monitor' = [monitor EXCEPT ![s] = "sending"]
          /\ UNCHANGED <<alive, holder, faults>>
     ELSE /\ destroy(s)
          /\ monitor' = [monitor EXCEPT ![s] = "done"]
  /\ UNCHANGED <<acquire, renew, lostCh, runVars>>

MonitorSends(s) ==
  /\ monitor[s] = "sending"
  /\ session[s].errCh = 0
  /\ session' = [session EXCEPT ![s].errCh = 1, ![s].busy = FALSE]
  /\ monitor' = [monitor EXCEPT ![s] = "done"]
  /\ UNCHANGED <<acquire, renew, consulVars, runVars>>

-----------------------------------------------------------------------------
Signal ==
  /\ ~signalled
  /\ signalled' = TRUE
  /\ UNCHANGED <<sessionVars, pc, consul, readyClosed, timer, lockHeld>>

emitMetrics(acquired) == lockHeld' = acquired

OnSignal ==
  /\ pc = "select" /\ signalled
  /\ pc' = "destroying"
  /\ UNCHANGED <<sessionVars, consul, readyClosed, timer, signalled, lockHeld>>

ReleaseLock ==
  /\ pc = "destroying"
  /\ Destroy(consul)
  /\ emitMetrics(FALSE)
  /\ pc' = "returning"
  /\ UNCHANGED <<consul, readyClosed, timer, signalled>>

(* The deferred function of Run.                                           *)
Return ==
  /\ pc = "returning"
  /\ Destroy(consul)
  /\ pc' = "done"
  /\ UNCHANGED <<consul, readyClosed, timer, signalled, lockHeld>>

(* Mutants of OnErr: an error without the lock starts a retry, and the     *)
(* metric is left as it is.                                                *)
OnErrRetries ==
  /\ pc = "select"
  /\ ReadErr(consul)
  /\ pc' = IF readyClosed THEN "returning" ELSE "select"
  /\ timer' = ~readyClosed
  /\ lockHeld' = (lockHeld /\ ~readyClosed)
  /\ UNCHANGED <<consul, readyClosed, signalled>>

OnErrStaysHeld ==
  /\ pc = "select"
  /\ ReadErr(consul)
  /\ pc' = IF readyClosed THEN "returning" ELSE "select"
  /\ UNCHANGED <<consul, readyClosed, timer, signalled, lockHeld>>

(* Without the lock an error of the session is only logged.                *)
OnErr ==
  /\ pc = "select"
  /\ ReadErr(consul)
  /\ IF readyClosed THEN pc' = "returning" /\ emitMetrics(FALSE)
              ELSE UNCHANGED <<pc, lockHeld>>
  /\ UNCHANGED <<consul, readyClosed, timer, signalled>>

(* Mutant of OnAcquire: the retry timer is not armed.                      *)
OnAcquireGivesUp ==
  /\ pc = "select"
  /\ acquire[consul] \in {"ok", "failed"}
  /\ acquire' = [acquire EXCEPT ![consul] = "read"]
  /\ readyClosed' = (readyClosed \/ acquire[consul] = "ok")
  /\ emitMetrics(acquire[consul] = "ok")
  /\ UNCHANGED <<session, renew, monitor, consulVars, pc, consul, timer, signalled>>

OnAcquire ==
  /\ pc = "select"
  /\ acquire[consul] \in {"ok", "failed"}
  /\ acquire' = [acquire EXCEPT ![consul] = "read"]
  /\ readyClosed' = (readyClosed \/ acquire[consul] = "ok")
  /\ emitMetrics(acquire[consul] = "ok")
  /\ timer' = (acquire[consul] = "failed")
  /\ UNCHANGED <<session, renew, monitor, consulVars, pc, consul, signalled>>

(* reemit is armed once the lock has been acquired, and again each time.   *)
OnReemit ==
  /\ pc = "select" /\ readyClosed
  /\ emitMetrics(TRUE)
  /\ UNCHANGED <<sessionVars, pc, consul, readyClosed, timer, signalled>>

OnRetry ==
  /\ pc = "select" /\ timer
  /\ \/ /\ consul + 1 \in Sessions
        /\ Recreate(consul, consul + 1)
        /\ consul' = consul + 1
        /\ timer' = FALSE
     \/ RecreateFails(consul) /\ UNCHANGED <<consul, timer>>
  /\ UNCHANGED <<pc, readyClosed, signalled, lockHeld>>

-----------------------------------------------------------------------------
LockNext ==
  \/ SessionNext /\ UNCHANGED runVars
  \/ \E s \in Sessions :
       MonitorLost(s) \/ MonitorDone(s) \/ MonitorLocks(s) \/ MonitorSends(s)
  \/ Signal \/ OnSignal \/ ReleaseLock \/ Return \/ OnErr \/ OnAcquire \/ OnReemit
  \/ OnRetry

LockSpec == LockInit /\ [][LockNext]_lockVars

(* Run takes every case of its select that stays ready.                    *)
LockFairSpec ==
  /\ LockSpec
  /\ SessionFairness
  /\ \A s \in Sessions : WF_lockVars(MonitorLost(s) \/ MonitorDone(s)
                                       \/ MonitorLocks(s) \/ MonitorSends(s))
  /\ WF_lockVars(OnSignal) /\ WF_lockVars(ReleaseLock) /\ WF_lockVars(Return)
  /\ WF_lockVars(OnErr) /\ WF_lockVars(OnAcquire) /\ WF_lockVars(OnRetry /\ UNCHANGED faults)

-----------------------------------------------------------------------------
(* No acquire goroutine is at work once ready is closed, and there is one  *)
(* for the current session at most before: a second result would close     *)
(* the nil ready and panic (lock.go:121-122), or fill acquireErr.          *)
OneAcquirer ==
  \A s \in Sessions :
    acquire[s] \notin {"none", "read"} => s = consul /\ ~readyClosed /\ ~timer

(* The metric LockHeld is 1 from the moment Run has the lock until it      *)
(* gives the lock up, and 0 when Run has returned, whichever way: no case  *)
(* of the select, and no timer that emits it again, brings it back         *)
(* (lock.go:99-127).                                                       *)
HeldMetricFollows == lockHeld = (readyClosed /\ pc \in {"select", "destroying"})

(* When Run has returned, this process gives up the key and does not take  *)
(* it again, although an acquire goroutine may still be waiting for it and *)
(* the call that destroys the session may fail (session.go:81-91).         *)
KeyGivenUp == (pc = "done") ~> [](holder \notin Sessions)

(* Run gets the lock, however often acquiring it fails, unless it is told  *)
(* to stop: every failure arms the retry timer, and the retry has a new    *)
(* Session that no earlier one can block (lock.go:109-138).                *)
EventuallyReady == <>(readyClosed \/ signalled)

(* A Run that has the lock and whose key is gone, by a dead session or by  *)
(* a delete, returns: the monitor destroys the session, which ends the     *)
(* renew goroutine, whose error Run reads (session.go:117-130, 181-196,    *)
(* lock.go:101-106).  This holds when that error is still to come at the   *)
(* time Run is ready: an error that Run reads before it learns that it has *)
(* the lock is only logged (lock.go:108), and no other follows.            *)
LaterLossExits ==
  (readyClosed /\ holder # consul /\ renew[consul] # "done") ~> (pc = "done" \/ signalled)

(* A Run that is told to stop returns (lock_test.go:163).                  *)
SignalExits == signalled ~> (pc = "done")
=============================================================================
