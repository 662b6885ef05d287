--------------------------- MODULE ConsulPresence ----------------------------
(***************************************************************************)
(* Presence.Run of presence.go: it keeps a consul key through a Session,   *)
(* and goes on with a new Session whenever the key or the session is lost. *)
(* One step is one case of its select.  Unlike Lock.Run it can have        *)
(* several setPresence goroutines at work, which share presenceCh.         *)
(***************************************************************************)
EXTENDS ConsulSession

CONSTANT NoSession   \* no session: an empty or nil channel

VARIABLES
  pc,          \* where Run is
  consul,      \* p.consul, the current Session
  readyClosed, \* ready has been closed
  retryTimer,  \* retryTimer is armed
  presenceCh,  \* the session whose result is in presenceCh
  presenceLost,\* the session whose presenceLost channel Run listens to
  lostSent,    \* sessions whose monitor has sent to its presenceLost
  signalled    \* a signal is in the channel

runVars == <<pc, consul, readyClosed, retryTimer, presenceCh, presenceLost, lostSent, signalled>>
presenceVars == <<sessionVars, runVars>>

PresenceTypeOK ==
  /\ SessionTypeOK
  /\ pc \in {"select", "returning", "done"}
  /\ consul \in Sessions
  /\ {presenceCh, presenceLost} \subseteq Sessions \cup {NoSession}
  /\ lostSent \subseteq Sessions
  /\ {readyClosed, retryTimer, signalled} \subseteq BOOLEAN

PresenceInit ==
  /\ SessionInit
  /\ pc = "select"
  /\ consul = 1
  /\ presenceCh = NoSession /\ presenceLost = NoSession /\ lostSent = {}
  /\ readyClosed = FALSE /\ retryTimer = FALSE /\ signalled = FALSE

-----------------------------------------------------------------------------
(* setPresence waits until presenceCh is empty and sends its result, which *)
(* stays in acquire[s] until Run reads it.                                 *)
SendResult(s) ==
  /\ acquire[s] \in {"ok", "failed"}
  /\ presenceCh = NoSession
  /\ presenceCh' = s
  /\ UNCHANGED <<sessionVars, pc, consul, readyClosed, retryTimer, presenceLost, lostSent, signalled>>

(* The monitor goroutine of SetPresence.                                   *)
MonitorLost(s) ==
  /\ monitor[s] = "watching"
  /\ s \in lostCh
  /\ monitor' = [monitor EXCEPT ![s] = "done"]
  /\ lostSent' = lostSent \cup {s}
  /\ UNCHANGED <<session, acquire, renew, consulVars>>
  /\ UNCHANGED <<pc, consul, readyClosed, retryTimer, presenceCh, presenceLost, signalled>>

MonitorDone(s) ==
  /\ monitor[s] = "watching"
  /\ session[s].destroyed
  /\ monitor' = [monitor EXCEPT ![s] = "done"]
  /\ UNCHANGED <<session, acquire, renew, consulVars, runVars>>

-----------------------------------------------------------------------------
Signal ==
  /\ ~signalled
  /\ signalled' = TRUE
  /\ UNCHANGED <<sessionVars, pc, consul, readyClosed, retryTimer, presenceCh, presenceLost, lostSent>>

OnSignal ==
  /\ pc = "select" /\ signalled
  /\ pc' = "returning"
  /\ UNCHANGED <<sessionVars, consul, readyClosed, retryTimer, presenceCh, presenceLost, lostSent,
                 signalled>>

(* The deferred function of Run.                                           *)
Return ==
  /\ pc = "returning"
  /\ Destroy(consul)
  /\ pc' = "done"
  /\ UNCHANGED <<consul, readyClosed, retryTimer, presenceCh, presenceLost, lostSent, signalled>>

OnErr ==
  /\ pc = "select"
  /\ ReadErr(consul)
  /\ presenceLost' = NoSession
  /\ retryTimer' = TRUE
  /\ UNCHANGED <<pc, consul, readyClosed, presenceCh, lostSent, signalled>>

(* Mutant of OnResult: the retry timer is not armed.                       *)
OnResultGivesUp ==
  /\ pc = "select" /\ presenceCh # NoSession
  /\ presenceCh' = NoSession
  /\ acquire' = [acquire EXCEPT ![presenceCh] = "read"]
  /\ IF acquire[presenceCh] = "ok"
     THEN readyClosed' = TRUE /\ retryTimer' = FALSE /\ presenceLost' = presenceCh
     ELSE UNCHANGED <<readyClosed, retryTimer, presenceLost>>
  /\ UNCHANGED <<session, renew, monitor, consulVars, pc, consul, lostSent, signalled>>

OnResult ==
  /\ pc = "select" /\ presenceCh # NoSession
  /\ presenceCh' = NoSession
  /\ acquire' = [acquire EXCEPT ![presenceCh] = "read"]
  /\ IF acquire[presenceCh] = "ok"
     THEN readyClosed' = TRUE /\ retryTimer' = FALSE /\ presenceLost' = presenceCh
     ELSE retryTimer' = TRUE /\ UNCHANGED <<readyClosed, presenceLost>>
  /\ UNCHANGED <<session, renew, monitor, consulVars, pc, consul, lostSent, signalled>>

(* Mutant of OnLost: the loss is only logged.                              *)
OnLostLogs ==
  /\ pc = "select" /\ presenceLost \in lostSent
  /\ lostSent' = lostSent \ {presenceLost}
  /\ presenceLost' = NoSession
  /\ UNCHANGED <<sessionVars, pc, consul, readyClosed, retryTimer, presenceCh, signalled>>

OnLost ==
  /\ pc = "select" /\ presenceLost \in lostSent
  /\ lostSent' = lostSent \ {presenceLost}
  /\ presenceLost' = NoSession
  /\ retryTimer' = TRUE
  /\ UNCHANGED <<sessionVars, pc, consul, readyClosed, presenceCh, signalled>>

OnRetry ==
  /\ pc = "select" /\ retryTimer
  /\ presenceLost' = NoSession
  /\ \/ /\ consul + 1 \in Sessions
        /\ Recreate(consul, consul + 1)
        /\ consul' = consul + 1
        /\ retryTimer' = FALSE
     \/ RecreateFails(consul) /\ UNCHANGED <<consul, retryTimer>>
  /\ UNCHANGED <<pc, readyClosed, presenceCh, lostSent, signalled>>

-----------------------------------------------------------------------------
PresenceNext ==
  \/ SessionNext /\ UNCHANGED runVars
  \/ \E s \in Sessions : SendResult(s) \/ MonitorLost(s) \/ MonitorDone(s)
  \/ Signal \/ OnSignal \/ Return \/ OnErr \/ OnResult \/ OnLost \/ OnRetry

PresenceSpec == PresenceInit /\ [][PresenceNext]_presenceVars

(* Run takes every case of its select that stays ready.                    *)
PresenceFairSpec ==
  /\ PresenceSpec
  /\ SessionFairness
  /\ \A s \in Sessions : /\ SF_presenceVars(SendResult(s))
                         /\ WF_presenceVars(MonitorLost(s) \/ MonitorDone(s))
  /\ WF_presenceVars(OnSignal) /\ WF_presenceVars(Return)
  /\ WF_presenceVars(OnErr) /\ WF_presenceVars(OnResult) /\ WF_presenceVars(OnLost)
  /\ WF_presenceVars(OnRetry /\ UNCHANGED faults)

-----------------------------------------------------------------------------
(* A retry is due and the model has no further Session for it.             *)
AtBound == consul = MaxSessions /\ retryTimer

(* A Run that is told to stop returns and gives up the key for good,       *)
(* although setPresence goroutines of several sessions may still be        *)
(* waiting for it and the call that destroys the session may fail          *)
(* (presence.go:59-63, 88-91).                                             *)
KeyGivenUp == signalled ~> (pc = "done" /\ [](holder \notin Sessions))

(* Run sets its presence, however often that fails, unless it is told to   *)
(* stop: every failure arms the retry timer (presence.go:111-136).         *)
EventuallyReady == <>(readyClosed \/ signalled \/ AtBound)

(* A Run that watches its presence and loses the key goes on to retry: the *)
(* monitor tells it, or the renew goroutine if the session is gone and the *)
(* monitor saw doneCh first (session.go:117-130, 231-237).  This holds     *)
(* when no setPresence goroutine is at work and the error of the session   *)
(* is still to come: a result that is read after that error stops the      *)
(* retry timer (presence.go:109) and the loss is not noticed.              *)
LossNoticed ==
  (/\ presenceLost = consul /\ holder # consul
   /\ renew[consul] # "done"
   /\ \A s \in Sessions : acquire[s] \in {"none", "read"})
    ~> (retryTimer \/ signalled)
=============================================================================
