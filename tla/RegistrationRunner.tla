------------------------- MODULE RegistrationRunner --------------------------
(***************************************************************************)
(* registration_runner.go: Run registers a service with the consul agent,  *)
(* keeps a TTL check passing if there is one (pollUntilSignaled), or waits *)
(* (waitForSignal), and deregisters the service when it is signalled.      *)
(* Every attempt to register is a goroutine of its own, which sends its    *)
(* result to errChan.  LocketProcess.tla runs it as a member of a group,   *)
(* which is where signals come from.                                       *)
(*                                                                         *)
(* External: the consul agent.  A service registered without an ID has its *)
(* name as ID, and to deregister the empty ID removes no service.          *)
(***************************************************************************)
EXTENDS Naturals

CONSTANTS
  Goroutines,      \* attempts to register that can be at work at a time
  MaxAgentFaults   \* errors, and services that the agent forgets

ASSUME RegistrationAssumption == MaxAgentFaults \in Nat

VARIABLES
  registration,  \* whether it is valid, has an ID, and has a TTL check
  stage,         \* where Run is
  loopTimer,     \* the timer of the current loop is armed
  attempt,       \* where each register goroutine is
  errChan,       \* what is in errChan
  registered,    \* the agent has the service
  refused,       \* ServiceDeregister failed
  racing,        \* history: an attempt was under way when Run deregistered
  signal,        \* a signal is in the channel
  agentFaults    \* faults still allowed

registrationVars ==
  <<registration, stage, loopTimer, attempt, errChan, registered, refused, racing, agentFaults>>

Registrations == [valid : BOOLEAN, id : BOOLEAN, ttl : BOOLEAN]

RegistrationTypeOK ==
  /\ registration \in Registrations
  /\ stage \in {"starting", "invalid", "registering", "polling", "waiting", "exited", "deregistered"}
  /\ attempt \in [Goroutines -> {"idle", "calling", "ok", "err"}]
  /\ errChan \in {"empty", "ok", "err"}
  /\ {loopTimer, registered, refused, racing, signal} \subseteq BOOLEAN
  /\ agentFaults \in 0 .. MaxAgentFaults

(* An earlier run may have left the service registered.                    *)
RegistrationInit(registrations) ==
  /\ registration \in registrations
  /\ stage = "starting" /\ loopTimer = TRUE
  /\ attempt = [g \in Goroutines |-> "idle"]
  /\ errChan = "empty"
  /\ registered \in BOOLEAN
  /\ refused = FALSE /\ racing = FALSE /\ signal = FALSE
  /\ agentFaults = MaxAgentFaults

AgentFails == agentFaults > 0 /\ agentFaults' = agentFaults - 1

-----------------------------------------------------------------------------
AgentForgets ==
  /\ registered
  /\ AgentFails
  /\ registered' = FALSE
  /\ UNCHANGED <<registration, stage, loopTimer, attempt, errChan, refused, signal, racing>>

(* ServiceRegister returns; an error may come with or without an effect.   *)
RegisterReturns(g) ==
  /\ attempt[g] = "calling"
  /\ \/ /\ registered' = TRUE
        /\ attempt' = [attempt EXCEPT ![g] = "ok"]
        /\ UNCHANGED agentFaults
     \/ /\ AgentFails
        /\ registered' \in {registered, TRUE}
        /\ attempt' = [attempt EXCEPT ![g] = "err"]
  /\ UNCHANGED <<registration, stage, loopTimer, errChan, refused, signal, racing>>

(* The send waits until errChan is empty.                                  *)
SendResult(g) ==
  /\ attempt[g] \in {"ok", "err"}
  /\ errChan = "empty"
  /\ errChan' = attempt[g]
  /\ attempt' = [attempt EXCEPT ![g] = "idle"]
  /\ UNCHANGED <<registration, stage, loopTimer, registered, refused, signal, agentFaults, racing>>

StartRegister ==
  \E g \in Goroutines : attempt[g] = "idle" /\ attempt' = [attempt EXCEPT ![g] = "calling"]

-----------------------------------------------------------------------------
(* Run                                                                     *)

(* validateRegistration and calculatePollInterval: a registration with     *)
(* several checks, or with a TTL that is no duration, is refused.          *)
Validate ==
  /\ stage = "starting"
  /\ stage' = IF registration.valid THEN "registering" ELSE "invalid"
  /\ UNCHANGED <<registration, loopTimer, attempt, errChan, registered, refused, signal, agentFaults, racing>>

RetryFires ==
  /\ stage = "registering" /\ loopTimer
  /\ StartRegister
  /\ loopTimer' = FALSE
  /\ UNCHANGED <<registration, stage, errChan, registered, refused, signal, agentFaults, racing>>

(* Mutant of OnResult: the timer is not reset after an error.              *)
OnResultGivesUp ==
  /\ stage = "registering" /\ errChan # "empty"
  /\ errChan' = "empty"
  /\ stage' = IF errChan = "err" THEN "registering" ELSE IF registration.ttl THEN "polling" ELSE "waiting"
  /\ loopTimer' = (errChan = "ok" /\ registration.ttl)
  /\ UNCHANGED <<registration, attempt, registered, refused, signal, agentFaults, racing>>

(* After success ready is closed, and the poll loop starts with its own    *)
(* timer and errChan; no attempt is at work then.                          *)
OnResult ==
  /\ stage = "registering" /\ errChan # "empty"
  /\ errChan' = "empty"
  /\ stage' = IF errChan = "err" THEN "registering" ELSE IF registration.ttl THEN "polling" ELSE "waiting"
  /\ loopTimer' = (errChan = "err" \/ registration.ttl)
  /\ UNCHANGED <<registration, attempt, registered, refused, signal, agentFaults, racing>>

SignalledEarly ==
  /\ stage = "registering" /\ signal
  /\ stage' = "exited"
  /\ UNCHANGED <<registration, loopTimer, attempt, errChan, registered, refused, signal, agentFaults, racing>>

-----------------------------------------------------------------------------
(* pollUntilSignaled                                                       *)

(* Mutant of PollFires: a failed PassTTL is only logged.                   *)
PollFiresLogs ==
  /\ stage = "polling" /\ loopTimer
  /\ UNCHANGED <<registrationVars, signal>>

(* PassTTL fails if the agent does not know the service.  The timer is     *)
(* reset in any case.                                                      *)
PollFires ==
  /\ stage = "polling" /\ loopTimer
  /\ \/ registered /\ UNCHANGED <<attempt, agentFaults>>
     \/ ~registered /\ StartRegister /\ UNCHANGED agentFaults
     \/ registered /\ AgentFails /\ StartRegister
  /\ UNCHANGED <<registration, stage, loopTimer, errChan, registered, refused, signal, racing>>

PollResult ==
  /\ stage = "polling" /\ errChan # "empty"
  /\ errChan' = "empty"
  /\ UNCHANGED <<registration, stage, loopTimer, attempt, registered, refused, signal, agentFaults, racing>>

(* Mutant of DeregisterKnowsService: registration.ID in both.              *)
DeregisterPlainID == registration.id

(* unregisterID in pollUntilSignaled, registration.ID in waitForSignal.    *)
DeregisterKnowsService == stage = "polling" \/ registration.id

(* The case of the signal in both.                                         *)
Deregister ==
  /\ stage \in {"polling", "waiting"} /\ signal
  /\ stage' = "deregistered"
  /\ \/ /\ registered' = (registered /\ ~DeregisterKnowsService)
        /\ UNCHANGED <<refused, agentFaults>>
     \/ AgentFails /\ refused' = TRUE /\ UNCHANGED registered
  /\ racing' = (\E g \in Goroutines : attempt[g] = "calling")
  /\ UNCHANGED <<registration, loopTimer, attempt, errChan, signal>>

-----------------------------------------------------------------------------
(* Run becomes ready, however often registering fails, unless it is told   *)
(* to stop (registration_runner.go:82-99).                                 *)
EventuallyRegisters == (stage = "registering") ~> (stage # "registering" \/ signal)

(* A service that the agent forgets is registered again by the poll loop,  *)
(* unless Run is told to stop: PassTTL fails, and that starts an attempt   *)
(* to register (registration_runner.go:168-175).                           *)
Reregistered == (stage = "polling" /\ ~registered) ~> (registered \/ signal)

(* A Run that was ready has deregistered the service when it exits, and it *)
(* stays so, if ServiceDeregister does not fail, no attempt to register is *)
(* under way (registration_runner.go:173 does not wait for it), and the    *)
(* registration has an ID or a TTL check (waitForSignal deregisters an     *)
(* empty ID, registration_runner.go:127).                                  *)
QuietExitDeregisters ==
  /\ stage = "deregistered" /\ ~refused /\ ~racing
  /\ registration.id \/ registration.ttl
  => ~registered
=============================================================================
