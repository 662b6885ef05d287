---------------------------- MODULE TimeoutRunner ----------------------------
(***************************************************************************)
(* jointlock: NewJointLock puts every lock but the first into a runner     *)
(* that gives up when the lock is not ready in time (timeout_runner.go),   *)
(* and all of them into an ordered group.  The inner runner of a timed     *)
(* member is a process of its own: nothing stops it when the timeout       *)
(* runner returns.                                                         *)
(***************************************************************************)
EXTENDS OrderedGroup

CONSTANT Timed   \* the members that are timeout runners

ASSUME TimedAssumption == Timed \subseteq Runners

VARIABLES
  inner,    \* the inner process: ready, exited, failed, signalled
  expired   \* the members whose timer fired before they were ready

timedVars == <<inner, expired>>

TimedInit ==
  /\ inner = [m \in Timed |-> [ready |-> FALSE, exited |-> FALSE, err |-> FALSE, told |-> FALSE]]
  /\ expired = {}

(* ifrit.Background(t.runner): the inner process starts with the member.   *)
InnerRuns(m) == life[m] # "new" /\ ~inner[m].exited

InnerReady(m) ==
  /\ InnerRuns(m) /\ ~inner[m].ready
  /\ inner' = [inner EXCEPT ![m].ready = TRUE]
  /\ UNCHANGED <<expired, memberVars>>

InnerExits(m) ==
  /\ InnerRuns(m)
  /\ \E e \in BOOLEAN :
       inner' = [inner EXCEPT ![m].exited = TRUE, ![m].err = e]
  /\ UNCHANGED <<expired, memberVars>>

-----------------------------------------------------------------------------
Starting(m) == life[m] = "running" /\ m \notin ready

(* waitForReadyExitOrTimeout returns nil, also when the process has exited *)
(* without an error, and Run closes ready.                                 *)
WaitSucceeds(m) ==
  /\ Starting(m)
  /\ inner[m].ready \/ (inner[m].exited /\ ~inner[m].err)
  /\ CloseReady(m)
  /\ UNCHANGED timedVars

WaitFails(m) ==
  /\ Starting(m)
  /\ inner[m].exited /\ inner[m].err
  /\ Exit(m, TRUE)
  /\ UNCHANGED timedVars

(* Mutant of TimesOut: the timer ends the wait without an error.           *)
TimesOutQuietly(m) ==
  /\ Starting(m)
  /\ CloseReady(m)
  /\ expired' = expired \cup {m}
  /\ UNCHANGED inner

TimesOut(m) ==
  /\ Starting(m)
  /\ Exit(m, TRUE)
  /\ expired' = expired \cup {m}
  /\ UNCHANGED inner

(* Mutants of Forward: signals are passed on during the wait only, and a   *)
(* signal during the wait makes Run return.                                *)
ForwardStarting(m) ==
  /\ Starting(m) /\ m \in told
  /\ inner' = [inner EXCEPT ![m].told = TRUE]
  /\ UNCHANGED <<expired, memberVars>>

ForwardReturns(m) ==
  /\ life[m] = "running" /\ m \in told
  /\ IF m \in ready THEN /\ inner' = [inner EXCEPT ![m].told = TRUE]
                         /\ UNCHANGED memberVars
                    ELSE /\ Exit(m, FALSE)
                         /\ UNCHANGED inner
  /\ UNCHANGED expired

(* proc.Signal(sig), in both loops.                                        *)
Forward(m) ==
  /\ life[m] = "running" /\ m \in told
  /\ inner' = [inner EXCEPT ![m].told = TRUE]
  /\ UNCHANGED <<expired, memberVars>>

(* err := <-proc.Wait() of Run.                                            *)
InnerReaped(m) ==
  /\ life[m] = "running" /\ m \in ready /\ inner[m].exited
  /\ Exit(m, inner[m].err)
  /\ UNCHANGED timedVars

TimedNext(m) ==
  \/ InnerReady(m) \/ InnerExits(m)
  \/ WaitSucceeds(m) \/ WaitFails(m) \/ TimesOut(m)
  \/ Forward(m) \/ InnerReaped(m)

-----------------------------------------------------------------------------
(* A joint lock that is ready waits for none of its locks: each of them    *)
(* has been ready, or has exited.  One that has exited, ready before or    *)
(* not, is not held any more; the group is still running only until it     *)
(* hears of the exit (timeout_runner.go:31-65, jointlock_test.go "starts   *)
(* both runners in serial").                                               *)
JointReady ==
  group.phase = "running" =>
    \A m \in Timed : life[m] # "new" => inner[m].ready \/ inner[m].exited

(* When the group has exited no lock of it is still being sought or held,  *)
(* but for one that timed out (timeout_runner.go:59 does not signal it):   *)
(* signals reach the inner process whether or not it is ready.             *)
LeftBehindOnlyOnTimeout ==
  group.phase = "exited" =>
    \A m \in Timed : InnerRuns(m) => m \in expired
=============================================================================
