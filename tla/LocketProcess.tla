---------------------------- MODULE LocketProcess ----------------------------
(***************************************************************************)
(* Processes made of ordered groups: the locket server of                  *)
(* cmd/locket/main.go, with its gRPC server (grpcserver/server.go) and the *)
(* goroutine that stops it after an unrecoverable database error           *)
(* (handlers/handler.go exitIfUnrecoverable); a joint lock; and a process  *)
(* that only registers a service.  The locks of a joint lock are runners   *)
(* of which nothing is known; burglar and notifier are here what they are  *)
(* to the group, Expiration.tla and MetricsNotifier.tla say what they do.  *)
(***************************************************************************)
EXTENDS TimeoutRunner, RegistrationRunner

CONSTANTS
  Calls,   \* calls of clients that the server can be handling at a time
  Locks    \* the locks of the joint lock, in order

(* The names of the members of a group differ (grouper refuses others),    *)
(* a joint lock has a lock, and NewJointLock wraps all but its first.      *)
ASSUME LocksAssumption ==
  LET Own == {"server", "burglar", "metrics-notifier", "registration-runner"} IN
  /\ Own \subseteq Runners
  /\ Locks \in Seq(Runners \ Own) /\ Locks # <<>>
  /\ \A i, j \in DOMAIN Locks : Locks[i] = Locks[j] => i = j
  /\ Timed = {Locks[i] : i \in 2 .. Len(Locks)}

VARIABLES
  server,   \* "down", "serving", or "stopping" in GracefulStop
  serveErr, \* Serve or Listen returned an error
  calls,    \* the calls whose handlers run
  exiter,   \* where the goroutine of main that receives from exitCh is
  fatal     \* history: an unrecoverable error was met while it listened

serverVars == <<server, serveErr, calls, exiter, fatal>>
vars == <<groupVars, timedVars, registrationVars, signal, serverVars>>

-----------------------------------------------------------------------------
(* main and NewJointLock                                                   *)

(* Mutant of ServerMembers: the service is registered first.               *)
RegistrationFirst == <<"registration-runner", "server", "burglar", "metrics-notifier">>

ServerMembers == <<"server", "burglar", "metrics-notifier", "registration-runner">>

(* initializeRegistrationRunner: a TTL check and no ID.                    *)
LocketRegistration == [valid |-> TRUE, id |-> FALSE, ttl |-> TRUE]

Looping == {"burglar", "metrics-notifier"}
Unknown == {Head(Locks)}

Init ==
  /\ \E ms \in {ServerMembers, Locks, <<"registration-runner">>} :
       /\ GroupInit(ms)
       /\ RegistrationInit(IF ms = <<"registration-runner">> THEN Registrations
                                                             ELSE {LocketRegistration})
  /\ TimedInit
  /\ server = "down" /\ serveErr = FALSE /\ calls = {} /\ fatal = FALSE
  /\ exiter = "absent"

Ended == group.phase = "exited"

(* A signal from outside, which sigmon or the owner of the group passes on. *)
Interrupt ==
  /\ ~stop /\ ~Ended
  /\ stop' = TRUE
  /\ UNCHANGED <<members, group, reaped, told, memberVars, timedVars, registrationVars,
                 signal, serverVars>>

GroupSteps ==
  /\ GroupNext
  /\ signal' = ("registration-runner" \in told')
  /\ UNCHANGED <<timedVars, registrationVars, serverVars>>

-----------------------------------------------------------------------------
(* grpcserver: Run                                                         *)

groupUnchanged == UNCHANGED <<members, group, reaped, told, stop, timedVars, registrationVars, signal>>

Listen ==
  /\ life["server"] = "running" /\ server = "down" /\ ~serveErr
  /\ \/ server' = "serving" /\ CloseReady("server") /\ UNCHANGED serveErr
     \/ serveErr' = TRUE /\ Exit("server", TRUE) /\ UNCHANGED server
  /\ UNCHANGED <<calls, exiter, fatal>> /\ groupUnchanged

(* The two cases of the select, and the call of GracefulStop.              *)
Leave ==
  /\ server = "serving"
  /\ \/ "server" \in told /\ UNCHANGED serveErr
     \/ serveErr' = TRUE
  /\ server' = "stopping"
  /\ UNCHANGED <<calls, exiter, fatal, memberVars>> /\ groupUnchanged

(* Mutant of Stopped: Stop, which waits for no handler.                    *)
StoppedAtOnce ==
  /\ server = "stopping"
  /\ server' = "down"
  /\ Exit("server", serveErr)
  /\ UNCHANGED <<serveErr, calls, exiter, fatal>> /\ groupUnchanged

(* GracefulStop returns once no handler runs.                              *)
Stopped ==
  /\ server = "stopping" /\ calls = {}
  /\ server' = "down"
  /\ Exit("server", serveErr)
  /\ UNCHANGED <<serveErr, calls, exiter, fatal>> /\ groupUnchanged

CallArrives(c) ==
  /\ server = "serving" /\ c \notin calls
  /\ calls' = calls \cup {c}
  /\ UNCHANGED <<server, serveErr, exiter, fatal, memberVars>> /\ groupUnchanged

-----------------------------------------------------------------------------
(* exitCh                                                                  *)

(* Mutant of exitIfUnrecoverable: any error but the unrecoverable one.     *)
exitIfRecoverable == UNCHANGED exiter

(* The send of exitCh, or default when main does not receive.              *)
exitIfUnrecoverable == exiter' = IF exiter = "listening" THEN "received" ELSE exiter

(* A handler returns, after an unrecoverable error or not.                 *)
CallReturns(c) ==
  /\ c \in calls
  /\ calls' = calls \ {c}
  /\ \/ UNCHANGED <<exiter, fatal>>
     \/ exitIfUnrecoverable /\ fatal' = (fatal \/ exiter = "listening")
  /\ UNCHANGED <<server, serveErr, memberVars>> /\ groupUnchanged

(* ifrit.Invoke returns when the group is ready, and main goes on to start *)
(* the goroutine.                                                          *)
ExiterListens ==
  /\ "server" \in {members[i] : i \in DOMAIN members}
  /\ exiter = "absent" /\ group.phase # "starting"
  /\ \A i \in DOMAIN members : members[i] \in ready
  /\ exiter' = "listening"
  /\ UNCHANGED <<server, serveErr, calls, fatal, memberVars>> /\ groupUnchanged

(* monitor.Signal(os.Interrupt)                                            *)
ExiterSignals ==
  /\ exiter = "received"
  /\ exiter' = "done"
  /\ stop' = TRUE
  /\ UNCHANGED <<server, serveErr, calls, fatal>>
  /\ UNCHANGED <<members, group, reaped, told, memberVars, timedVars, registrationVars, signal>>

ExitSteps == ExiterListens \/ ExiterSignals

-----------------------------------------------------------------------------
(* The other members                                                       *)

(* Burglar and notifier return nil on a signal, and only then.             *)
LoopSteps(m) ==
  /\ RunnerReady(m) \/ (m \in ready \cap told /\ life[m] = "running" /\ Exit(m, FALSE))
  /\ UNCHANGED serverVars /\ groupUnchanged

UnknownSteps(m) ==
  /\ RunnerReady(m) \/ RunnerExits(m)
  /\ UNCHANGED serverVars /\ groupUnchanged

TimedSteps(m) ==
  /\ TimedNext(m)
  /\ UNCHANGED <<members, group, reaped, told, stop, registrationVars, signal, serverVars>>

(* Run of the registration closes ready, returns, or goes on; what its     *)
(* goroutines and the agent do takes place beside it.                      *)
RegistrationRun ==
  LET m == "registration-runner" IN
  /\ life[m] = "running"
  /\ Validate \/ RetryFires \/ OnResult \/ SignalledEarly \/ PollFires \/ PollResult \/ Deregister
  /\ CASE stage' \in {"polling", "waiting"} -> CloseReady(m)
       [] stage' \in {"invalid", "exited", "deregistered"} -> Exit(m, stage' = "invalid" \/ refused')
       [] OTHER -> UNCHANGED memberVars

Beside ==
  /\ life["registration-runner"] # "new"
  /\ AgentForgets \/ \E g \in Goroutines : RegisterReturns(g) \/ SendResult(g)
  /\ UNCHANGED memberVars

RegistrationSteps ==
  /\ RegistrationRun \/ Beside
  /\ UNCHANGED <<members, group, reaped, told, stop, timedVars, serverVars>>

Next ==
  \/ Interrupt \/ GroupSteps
  \/ Listen \/ Leave \/ Stopped \/ ExitSteps
  \/ \E c \in Calls : CallArrives(c) \/ CallReturns(c)
  \/ \E m \in Looping : LoopSteps(m)
  \/ \E m \in Unknown : UnknownSteps(m)
  \/ \E m \in Timed : TimedSteps(m)
  \/ RegistrationSteps

Spec == Init /\ [][Next]_vars

(* Groups and loops take the steps they can, timers fire, calls of the     *)
(* database and of the agent are answered, a Run of which nothing is known *)
(* exits once it is signalled, and Run of the registration takes every     *)
(* case of its select that stays ready.                                    *)
FairSpec ==
  /\ Spec
  /\ WF_vars(GroupSteps)
  /\ WF_vars(Listen) /\ WF_vars("server" \in told /\ Leave) /\ WF_vars(Stopped) /\ WF_vars(ExitSteps)
  /\ \A c \in Calls : WF_vars(CallReturns(c))
  /\ \A m \in Looping : WF_vars(LoopSteps(m))
  /\ \A m \in Unknown : WF_vars(m \in told /\ RunnerExits(m) /\ UnknownSteps(m))
  /\ \A m \in Timed :
       /\ WF_vars(TimedSteps(m) /\ (Forward(m) \/ InnerReaped(m)))
       /\ WF_vars(TimedSteps(m) /\ (WaitSucceeds(m) \/ WaitFails(m) \/ TimesOut(m)))
       /\ WF_vars(TimedSteps(m) /\ inner[m].told /\ InnerExits(m))
  /\ \A g \in Goroutines :
       /\ WF_vars(RegistrationSteps /\ RegisterReturns(g))
       /\ SF_vars(RegistrationSteps /\ SendResult(g))
  /\ WF_vars(RegistrationSteps /\ Validate) /\ WF_vars(RegistrationSteps /\ RetryFires)
  /\ WF_vars(RegistrationSteps /\ OnResult) /\ WF_vars(RegistrationSteps /\ SignalledEarly)
  /\ WF_vars(RegistrationSteps /\ PollFires /\ UNCHANGED agentFaults)
  /\ WF_vars(RegistrationSteps /\ PollResult) /\ WF_vars(RegistrationSteps /\ Deregister)

-----------------------------------------------------------------------------
(* While the service of a locket process is being registered, or kept      *)
(* registered, the process serves it, or Serve has just failed: the        *)
(* registration is the last member to start and the first to be stopped    *)
(* (main.go:129-134).                                                      *)
ServedWhileRegistered ==
  life["server"] # "new" /\ life["registration-runner"] = "running" =>
    server = "serving" \/ serveErr

(* A locket process does not end under a handler: every call that the      *)
(* server took has been answered by then (grpcserver/server.go:61).        *)
CallsDrained == Ended => calls = {}

(* An unrecoverable database error ends the process, once main listens for *)
(* it: the handler's send is received, and the group stops although its    *)
(* members are at work (handler.go:29-40, main.go:147-151).                *)
UnrecoverableExits == fatal ~> Ended

(* A group that stops comes to an end, whatever its members were doing     *)
(* when they were signalled, starting up included.                         *)
StopExits == group.phase = "stopping" ~> Ended
=============================================================================
