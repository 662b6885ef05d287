--------------------------- MODULE ProcessProofs ----------------------------
(***************************************************************************)
(* The safety of what ifrit runs.  First the processes of LocketProcess,   *)
(* for any joint lock, any calls, any number of register goroutines and    *)
(* any number of faults.  Then Lock.Run (lock.go) and its Sessions         *)
(* (session.go), for any number of retries and faults: one session of the  *)
(* name at a time, one acquire goroutine at most, and a metric that tells  *)
(* the truth.                                                              *)
(***************************************************************************)
EXTENDS LocketProcess, ConsulLock, TLAPS

(* What the group knows: members up to pos have been started and those     *)
(* before it are ready, none after pos is running, and only those from pos *)
(* on are signalled, once the group stops.                                 *)
GroupInv ==
  /\ members \in {ServerMembers, Locks, <<"registration-runner">>}
  /\ group \in [phase : {"starting", "running", "stopping", "exited"}, pos : 0 .. Len(members)]
  /\ life \in [Runners -> {"new", "running", "exited"}]
  /\ \A m \in Runners : life[m] # "new" => \E i \in 1 .. Len(members) : members[i] = m
  /\ reaped \subseteq Runners
  /\ \A m \in reaped : life[m] = "exited" /\ group.phase \in {"stopping", "exited"}
  /\ group.phase = "exited" <=> group.pos = 0
  /\ group.phase = "running" => group.pos = Len(members)
  /\ \A i \in 1 .. Len(members) :
       /\ i <= group.pos => life[members[i]] # "new"
       /\ i > group.pos => life[members[i]] # "running"
       /\ i < group.pos \/ group.phase = "running" => members[i] \in ready
       /\ members[i] \in told => group.phase \in {"stopping", "exited"} /\ i >= group.pos

(* The server serves from its ready until it is told to stop, but for an   *)
(* error of Serve, and handlers run only while it has not returned.        *)
ServerInv ==
  /\ server \in {"down", "serving", "stopping"}
  /\ server # "down" => life["server"] = "running"
  /\ calls # {} => server # "down"
  /\ "server" \in ready \ told => server = "serving" \/ serveErr

(* A timed member is ready, or gone, only after its inner process.         *)
TimedInv ==
  /\ inner \in [Timed -> [ready : BOOLEAN, exited : BOOLEAN, err : BOOLEAN, told : BOOLEAN]]
  /\ \A m \in Timed :
       /\ m \in ready => inner[m].ready \/ inner[m].exited
       /\ life[m] = "exited" => inner[m].exited \/ m \in expired

(* waitForSignal is for registrations without a TTL check, and after a     *)
(* deregistration that raced with no attempt there is none.                *)
RegistrationInv ==
  /\ RegistrationTypeOK
  /\ stage = "waiting" => ~registration.ttl
  /\ stage = "deregistered" /\ ~racing => \A g \in Goroutines : attempt[g] # "calling"
  /\ QuietExitDeregisters

(* The inductive invariant of the processes.                               *)
IndInv == GroupInv /\ ServerInv /\ TimedInv /\ RegistrationInv

-----------------------------------------------------------------------------
(* The lists of members that main and NewJointLock make: their names are   *)
(* runners and differ.                                                     *)
LEMMA MembersDistinct ==
  ASSUME NEW ms \in {ServerMembers, Locks, <<"registration-runner">>}
  PROVE  /\ Len(ms) \in Nat \ {0} /\ ms \in [1 .. Len(ms) -> Runners]
         /\ \A i, j \in 1 .. Len(ms) : ms[i] = ms[j] => i = j
<1>1. CASE ms = ServerMembers
  BY <1>1, LocksAssumption DEF ServerMembers
<1>2. CASE ms = Locks
  BY <1>2, LocksAssumption
<1>3. CASE ms = <<"registration-runner">>
  BY <1>3, LocksAssumption
<1> QED BY <1>1, <1>2, <1>3

(* Where the names of the locket server, and those of the locks, occur.    *)
LEMMA MemberPlaces ==
  ASSUME NEW ms \in {ServerMembers, Locks, <<"registration-runner">>},
         NEW i \in 1 .. Len(ms)
  PROVE  /\ ms[i] = "server" => ms = ServerMembers /\ i = 1
         /\ ms = ServerMembers /\ ms[i] = "registration-runner" => i = 4
<1>1. CASE ms = ServerMembers
  BY <1>1 DEF ServerMembers
<1>2. CASE ms = Locks
  BY <1>2, LocksAssumption DEF ServerMembers
<1>3. CASE ms = <<"registration-runner">>
  BY <1>3 DEF ServerMembers
<1> QED BY <1>1, <1>2, <1>3

(* The sets of members that take different kinds of steps are disjoint.    *)
LEMMA KindsDiffer ==
  /\ {"server", "registration-runner"} \subseteq Runners
  /\ Looping \subseteq Runners \ Timed /\ Unknown \subseteq Runners \ Timed /\ Timed \subseteq Runners
  /\ "server" \notin Looping \cup Unknown \cup Timed
  /\ "registration-runner" \notin Timed
<1>1. Locks[1] \in Runners \ {"server", "burglar", "metrics-notifier", "registration-runner"}
  BY LocksAssumption
<1>2. \A i \in 2 .. Len(Locks) : /\ Locks[i] # Locks[1]
                                 /\ Locks[i] \in Runners \ {"server", "burglar", "metrics-notifier", "registration-runner"}
  BY LocksAssumption
<1>3. Head(Locks) = Locks[1]
  BY LocksAssumption
<1> QED BY <1>1, <1>2, <1>3, LocksAssumption DEF Looping, Unknown

-----------------------------------------------------------------------------
(* GroupInv                                                                *)

(* A member that becomes ready or returns does not disturb what the group  *)
(* knows (the steps of the members).                                       *)
LEMMA MemberKeepsGroup ==
  ASSUME GroupInv, UNCHANGED <<members, group, reaped, told>>, ready \subseteq ready',
         \/ life' = life
         \/ \E m \in Runners : life[m] = "running" /\ life' = [life EXCEPT ![m] = "exited"]
  PROVE  GroupInv'
<1>0. Len(members) \in Nat /\ members \in [1 .. Len(members) -> Runners]
  BY MembersDistinct DEF GroupInv
<1>1. /\ \A m \in Runners : /\ life[m] = "new" <=> life'[m] = "new"
                            /\ life'[m] = "running" => life[m] = "running"
                            /\ life[m] = "exited" => life'[m] = "exited"
      /\ life' \in [Runners -> {"new", "running", "exited"}]
      /\ reaped \subseteq Runners
  BY DEF GroupInv
<1>2. /\ members' = members /\ Len(members') = Len(members)
      /\ group' = group /\ reaped' = reaped /\ told' = told
  OBVIOUS
<1> QED BY <1>0, <1>1, <1>2 DEF GroupInv

(* The steps of the group (MemberReady, MemberExited, SignalReceived and   *)
(* StopMember) keep what it knows.                                         *)
LEMMA GroupKeepsGroup == GroupInv /\ GroupNext => GroupInv'
<1> SUFFICES ASSUME GroupInv, GroupNext PROVE GroupInv'
  OBVIOUS
<1>0. /\ Len(members) \in Nat \ {0} /\ members \in [1 .. Len(members) -> Runners]
      /\ \A i, j \in 1 .. Len(members) : members[i] = members[j] => i = j
  BY SMTT(30), MembersDistinct DEF GroupInv
<1>1. CASE MemberReady
  <2>1. CASE group.pos = Len(members)
    BY <1>0, <1>1, <2>1 DEF GroupInv, MemberReady
  <2>2. CASE group.pos # Len(members)
    BY <1>0, <1>1, <2>2 DEF GroupInv, MemberReady
  <2> QED BY <2>1, <2>2
<1>2. CASE MemberExited
  BY <1>0, <1>2 DEF GroupInv, MemberExited, memberVars
<1>3. CASE SignalReceived
  BY <1>0, <1>3 DEF GroupInv, SignalReceived, memberVars
<1>4. CASE StopMember
  BY <1>0, <1>4 DEF GroupInv, StopMember, memberVars
<1> QED BY <1>1, <1>2, <1>3, <1>4 DEF GroupNext

-----------------------------------------------------------------------------
(* IndInv                                                                  *)

(* The process as main or NewJointLock starts it.                          *)
LEMMA InitIndInv == Init => IndInv
<1> SUFFICES ASSUME Init PROVE IndInv
  OBVIOUS
<1> PICK ms \in {ServerMembers, Locks, <<"registration-runner">>} :
       /\ GroupInit(ms)
       /\ RegistrationInit(IF ms = <<"registration-runner">> THEN Registrations ELSE {LocketRegistration})
  BY DEF Init
<1>a. LocketRegistration \in Registrations
  BY DEF LocketRegistration, Registrations
<1>b. registration \in Registrations
  BY <1>a DEF RegistrationInit
<1>0. /\ Len(ms) \in Nat \ {0} /\ ms \in [1 .. Len(ms) -> Runners]
      /\ \A i, j \in 1 .. Len(ms) : ms[i] = ms[j] => i = j
  BY Zenon, MembersDistinct
<1>1. GroupInv
  <2>1. /\ members = ms /\ Len(members) = Len(ms)
        /\ group.phase = "starting" /\ group.pos = 1
        /\ group \in [phase : {"starting", "running", "stopping", "exited"}, pos : 0 .. Len(members)]
    BY <1>0 DEF GroupInit
  <2>2. /\ \A m \in Runners : life[m] = IF m = ms[1] THEN "running" ELSE "new"
        /\ life \in [Runners -> {"new", "running", "exited"}]
    BY DEF GroupInit
  <2>3. ready = {} /\ reaped = {} /\ told = {}
    BY DEF GroupInit
  <2> HIDE DEF GroupInit
  <2> QED BY <1>0, <2>1, <2>2, <2>3 DEF GroupInv
<1>2. ServerInv
  BY DEF ServerInv, Init, GroupInit
<1>3. TimedInv
  BY Zenon, KindsDiffer DEF TimedInv, Init, TimedInit, GroupInit
<1>4. RegistrationInv
  <2>1. /\ stage = "starting" /\ errChan = "empty" /\ agentFaults \in 0 .. MaxAgentFaults
        /\ attempt \in [Goroutines -> {"idle", "calling", "ok", "err"}]
    BY RegistrationAssumption DEF RegistrationInit
  <2>2. {loopTimer, registered, refused, racing, signal} \subseteq BOOLEAN
    BY Zenon DEF RegistrationInit
  <2> QED BY <1>b, <2>1, <2>2 DEF RegistrationInv, RegistrationTypeOK, QuietExitDeregisters
<1> QED BY <1>1, <1>2, <1>3, <1>4 DEF IndInv

(* The group, whichever member it starts, reaps or signals.                *)
LEMMA GroupStep == IndInv /\ GroupSteps => IndInv'
<1> SUFFICES ASSUME IndInv, GroupSteps PROVE IndInv'
  OBVIOUS
<1>1. GroupInv'
  BY GroupKeepsGroup DEF IndInv, GroupSteps
<1>2. /\ ready' = ready /\ told \subseteq told'
      /\ \A m \in Runners : life'[m] \in {life[m], "running"}
  BY MembersDistinct DEF IndInv, GroupInv, GroupSteps, GroupNext, MemberReady, MemberExited,
     SignalReceived, StopMember, memberVars
<1>3. ServerInv'
  BY <1>2, KindsDiffer DEF IndInv, ServerInv, GroupSteps, serverVars
<1>4. TimedInv'
  BY <1>2, KindsDiffer DEF IndInv, TimedInv, GroupSteps, timedVars
<1>5. RegistrationInv'
  BY DEF IndInv, RegistrationInv, RegistrationTypeOK, QuietExitDeregisters, GroupSteps, registrationVars
<1> QED BY <1>1, <1>3, <1>4, <1>5 DEF IndInv

(* The gRPC server, its handlers and the goroutine of main.                *)
LEMMA ServerStep ==
  ASSUME IndInv,
         \/ Interrupt \/ Listen \/ Leave \/ Stopped \/ ExitSteps
         \/ \E c \in Calls : CallArrives(c) \/ CallReturns(c)
  PROVE  IndInv'
<1> USE DEF ExitSteps, Interrupt, Listen, Leave, Stopped, ExiterListens, ExiterSignals, CallArrives,
            CallReturns, CloseReady, Exit, memberVars, groupUnchanged, serverVars
<1>1. GroupInv'
  <2>1. \/ life' = life
        \/ life["server"] = "running" /\ life' = [life EXCEPT !["server"] = "exited"]
    BY DEF IndInv, ServerInv
  <2> QED BY <2>1, MemberKeepsGroup, KindsDiffer DEF IndInv
<1>2. ServerInv'
  BY SMTT(30), KindsDiffer DEF IndInv, GroupInv, ServerInv
<1>3. TimedInv'
  <2>1. \A m \in Timed : life'[m] = life[m] /\ (m \in ready' <=> m \in ready)
    BY SMTT(30), KindsDiffer DEF IndInv, GroupInv
  <2> QED BY <2>1 DEF IndInv, TimedInv, timedVars
<1>4. RegistrationInv'
  BY DEF IndInv, RegistrationInv, RegistrationTypeOK, QuietExitDeregisters, registrationVars
<1> QED BY <1>1, <1>2, <1>3, <1>4 DEF IndInv

(* Members of which the group only sees that they are ready and return.    *)
LEMMA RunnerStep ==
  ASSUME IndInv,
         \/ \E m \in Looping : LoopSteps(m)
         \/ \E m \in Unknown : UnknownSteps(m)
  PROVE  IndInv'
<1> PICK m \in Looping \cup Unknown : LoopSteps(m) \/ UnknownSteps(m)
  OBVIOUS
<1> USE DEF LoopSteps, UnknownSteps, RunnerReady, RunnerExits, CloseReady, Exit, groupUnchanged
<1>1. GroupInv'
  BY MemberKeepsGroup, KindsDiffer DEF IndInv
<1>2. ServerInv'
  BY KindsDiffer DEF IndInv, GroupInv, ServerInv, serverVars
<1>3. TimedInv'
  BY KindsDiffer DEF IndInv, GroupInv, TimedInv, timedVars
<1>4. RegistrationInv'
  BY DEF IndInv, RegistrationInv, RegistrationTypeOK, QuietExitDeregisters, registrationVars
<1> QED BY <1>1, <1>2, <1>3, <1>4 DEF IndInv

(* A timeout runner and its inner process.                                 *)
LEMMA TimedStep ==
  ASSUME IndInv, NEW m \in Timed, TimedSteps(m)
  PROVE  IndInv'
<1> USE DEF TimedSteps, TimedNext, InnerRuns, InnerReady, InnerExits, Starting, WaitSucceeds,
            WaitFails, TimesOut, Forward, InnerReaped, CloseReady, Exit, memberVars, timedVars
<1>1. GroupInv'
  BY MemberKeepsGroup, KindsDiffer DEF IndInv
<1>2. ServerInv'
  BY KindsDiffer DEF IndInv, GroupInv, ServerInv, serverVars
<1>3. TimedInv'
  <2>0. /\ life \in [Runners -> {"new", "running", "exited"}] /\ TimedInv /\ Timed \subseteq Runners
    BY KindsDiffer DEF IndInv, GroupInv
  <2>1. /\ inner' \in [Timed -> [ready : BOOLEAN, exited : BOOLEAN, err : BOOLEAN, told : BOOLEAN]]
        /\ \A t \in Timed : /\ inner[t].ready => inner'[t].ready
                            /\ inner[t].exited => inner'[t].exited
        /\ expired \subseteq expired'
    <3>1. CASE InnerReady(m)
      <4>1. inner' = [inner EXCEPT ![m].ready = TRUE] /\ expired' = expired
        BY Zenon, <3>1
      <4>2. /\ inner[m] \in [ready : BOOLEAN, exited : BOOLEAN, err : BOOLEAN, told : BOOLEAN]
            /\ inner' = [inner EXCEPT ![m] = [inner[m] EXCEPT !.ready = TRUE]]
        BY Zenon, <2>0, <4>1 DEF TimedInv
      <4>3. /\ [inner[m] EXCEPT !.ready = TRUE] \in [ready : BOOLEAN, exited : BOOLEAN, err : BOOLEAN, told : BOOLEAN]
            /\ [inner[m] EXCEPT !.ready = TRUE].ready = TRUE
            /\ [inner[m] EXCEPT !.ready = TRUE].exited = inner[m].exited
        BY Zenon, <4>2
      <4> QED BY Zenon, <2>0, <4>1, <4>2, <4>3 DEF TimedInv
    <3>2. CASE InnerExits(m)
      <4>1. PICK e \in BOOLEAN : inner' = [inner EXCEPT ![m].exited = TRUE, ![m].err = e]
        BY Zenon, <3>2
      <4>2. /\ inner[m] \in [ready : BOOLEAN, exited : BOOLEAN, err : BOOLEAN, told : BOOLEAN]
            /\ inner' = [inner EXCEPT ![m] = [inner[m] EXCEPT !.exited = TRUE, !.err = e]]
        BY Zenon, <2>0, <4>1 DEF TimedInv
      <4>3. /\ [inner[m] EXCEPT !.exited = TRUE, !.err = e]
                 \in [ready : BOOLEAN, exited : BOOLEAN, err : BOOLEAN, told : BOOLEAN]
            /\ [inner[m] EXCEPT !.exited = TRUE, !.err = e].exited
            /\ [inner[m] EXCEPT !.exited = TRUE, !.err = e].ready = inner[m].ready
        BY Zenon, <4>2
      <4> QED BY Zenon, <2>0, <3>2, <4>2, <4>3 DEF TimedInv
    <3>3. CASE Forward(m)
      <4>1. inner' = [inner EXCEPT ![m].told = TRUE] /\ expired' = expired
        BY Zenon, <3>3
      <4>2. /\ inner[m] \in [ready : BOOLEAN, exited : BOOLEAN, err : BOOLEAN, told : BOOLEAN]
            /\ inner' = [inner EXCEPT ![m] = [inner[m] EXCEPT !.told = TRUE]]
        BY Zenon, <2>0, <4>1 DEF TimedInv
      <4>3. /\ [inner[m] EXCEPT !.told = TRUE] \in [ready : BOOLEAN, exited : BOOLEAN, err : BOOLEAN, told : BOOLEAN]
            /\ inner[m].ready => [inner[m] EXCEPT !.told = TRUE].ready
            /\ inner[m].exited => [inner[m] EXCEPT !.told = TRUE].exited
        BY Zenon, <4>2
      <4> QED BY Zenon, <2>0, <4>1, <4>2, <4>3 DEF TimedInv
    <3> QED BY Zenon, <2>0, <3>1, <3>2, <3>3 DEF TimedInv
  <2>2. \A t \in Timed : t \in ready' => t \in ready \/ inner[t].ready \/ inner[t].exited
    BY <2>0
  <2>3. \A t \in Timed : life'[t] = "exited" => life[t] = "exited" \/ inner[t].exited \/ t \in expired'
    BY <2>0
  <2> QED BY <2>0, <2>1, <2>2, <2>3 DEF TimedInv
<1>4. RegistrationInv'
  BY DEF IndInv, RegistrationInv, RegistrationTypeOK, QuietExitDeregisters, registrationVars
<1> QED BY <1>1, <1>2, <1>3, <1>4 DEF IndInv

(* Run of the registration, its goroutines and the agent.                  *)
LEMMA RegistrationStep == IndInv /\ RegistrationSteps => IndInv'
<1> SUFFICES ASSUME IndInv, RegistrationSteps PROVE IndInv'
  OBVIOUS
<1>0. \/ UNCHANGED memberVars
      \/ life["registration-runner"] = "running" /\ CloseReady("registration-runner")
      \/ /\ life["registration-runner"] = "running"
         /\ \E err \in BOOLEAN : Exit("registration-runner", err)
  BY Zenon DEF RegistrationSteps, RegistrationRun, Beside
<1>1. GroupInv'
  BY <1>0, MemberKeepsGroup, KindsDiffer
  DEF IndInv, RegistrationSteps, CloseReady, Exit, memberVars
<1>2. ServerInv'
  BY SMTT(30), <1>0, KindsDiffer
  DEF IndInv, GroupInv, ServerInv, RegistrationSteps, CloseReady, Exit, memberVars, serverVars
<1>3. TimedInv'
  BY SMTT(30), <1>0, KindsDiffer
  DEF IndInv, GroupInv, TimedInv, RegistrationSteps, CloseReady, Exit, memberVars, timedVars
<1>4. RegistrationInv'
  <2> USE RegistrationAssumption DEF IndInv, RegistrationInv, RegistrationTypeOK, QuietExitDeregisters, AgentFails
  <2>1. CASE Validate
    BY <2>1 DEF Validate
  <2>2. CASE RetryFires
    BY Zenon, <2>2 DEF RetryFires, StartRegister
  <2>3. CASE OnResult
    BY <2>3 DEF OnResult
  <2>4. CASE SignalledEarly
    BY <2>4 DEF SignalledEarly
  <2>5. CASE PollFires
    BY <2>5 DEF PollFires, StartRegister
  <2>6. CASE PollResult
    BY <2>6 DEF PollResult
  <2>7. CASE Deregister
    <3>1. RegistrationTypeOK'
      <4>1. {loopTimer, registered, refused, racing, signal}' \subseteq BOOLEAN
        BY <2>7, Zenon DEF Deregister
      <4>2. agentFaults' \in 0 .. MaxAgentFaults
        BY <2>7 DEF Deregister
      <4> QED BY <2>7, <4>1, <4>2 DEF Deregister
    <3>2. stage' = "deregistered" /\ (~racing' => \A g \in Goroutines : attempt'[g] # "calling")
      BY <2>7 DEF Deregister
    <3>3. QuietExitDeregisters'
      BY <2>7 DEF Deregister, DeregisterKnowsService
    <3> QED BY <3>1, <3>2, <3>3
  <2>8. CASE AgentForgets
    <3>1. {loopTimer, registered, refused, racing, signal}' \subseteq BOOLEAN
      BY <2>8, Zenon DEF AgentForgets
    <3>2. agentFaults' \in 0 .. MaxAgentFaults
      BY <2>8 DEF AgentForgets
    <3> QED BY <2>8, <3>1, <3>2 DEF AgentForgets
  <2>9. ASSUME NEW g \in Goroutines, RegisterReturns(g) PROVE RegistrationInv'
    <3>1. {loopTimer, registered, refused, racing, signal}' \subseteq BOOLEAN
      BY <2>9, Zenon DEF RegisterReturns
    <3>2. agentFaults' \in 0 .. MaxAgentFaults
      <4>1. agentFaults' = agentFaults \/ AgentFails
        BY <2>9, Zenon DEF RegisterReturns
      <4> QED BY <4>1
    <3> QED BY Zenon, <2>9, <3>1, <3>2 DEF RegisterReturns
  <2>10. ASSUME NEW g \in Goroutines, SendResult(g) PROVE RegistrationInv'
    BY <2>10 DEF SendResult
  <2> QED BY <2>1, <2>2, <2>3, <2>4, <2>5, <2>6, <2>7, <2>8, <2>9, <2>10
          DEF RegistrationSteps, RegistrationRun, Beside
<1> QED BY <1>1, <1>2, <1>3, <1>4 DEF IndInv

-----------------------------------------------------------------------------
(* The invariants                                                          *)

(* Every step of the process, of whichever part, keeps IndInv.             *)
LEMMA StepIndInv == IndInv /\ [Next]_vars => IndInv'
<1>1. ASSUME IndInv, UNCHANGED vars PROVE IndInv'
  BY <1>1 DEF vars, groupVars, memberVars, timedVars, registrationVars, serverVars, IndInv, GroupInv, ServerInv,
     TimedInv, RegistrationInv, RegistrationTypeOK, QuietExitDeregisters
<1> QED BY <1>1, GroupStep, ServerStep, RunnerStep, TimedStep, RegistrationStep DEF Next

(* IndInv, which ties what each member has done to the phase of the group  *)
(* and its position in it, is an invariant of the processes.               *)
THEOREM ProcessInvariance == Spec => []IndInv
<1> QED BY InitIndInv, StepIndInv, PTL DEF Spec

(* The service of a locket process is registered only while it is served,  *)
(* or Serve has just failed: when the registration runs the server is      *)
(* ready, as it comes before it, and is not told, as it is stopped after   *)
(* it (main.go:129-134).                                                   *)
THEOREM RegisteredIsServed == Spec => []ServedWhileRegistered
<1>1. IndInv => ServedWhileRegistered
  <2> SUFFICES ASSUME IndInv, life["server"] # "new", life["registration-runner"] = "running"
               PROVE  server = "serving" \/ serveErr
    BY DEF ServedWhileRegistered
  <2> USE DEF IndInv, GroupInv
  <2>1. PICK i \in 1 .. Len(members) : members[i] = "server"
    BY KindsDiffer
  <2>2. PICK j \in 1 .. Len(members) : members[j] = "registration-runner"
    BY KindsDiffer
  <2>3. i = 1 /\ j = 4
    BY <2>1, <2>2, MemberPlaces
  <2>4. 4 <= group.pos
    BY <2>2, <2>3
  <2>5. "server" \in ready \ told
    BY <2>1, <2>3, <2>4
  <2> QED BY <2>5 DEF ServerInv
<1> QED BY <1>1, ProcessInvariance, PTL

(* A locket process ends with no handler running: the group waits for the  *)
(* server, and that for its calls (grpcserver/server.go:61).               *)
THEOREM EndsWithoutCalls == Spec => []CallsDrained
<1>1. IndInv => CallsDrained
  <2> SUFFICES ASSUME IndInv, Ended PROVE server = "down"
    BY DEF CallsDrained, IndInv, ServerInv
  <2>1. life["server"] # "running"
    BY KindsDiffer DEF IndInv, GroupInv, Ended
  <2> QED BY <2>1 DEF IndInv, ServerInv
<1> QED BY <1>1, ProcessInvariance, PTL

(* A joint lock that is ready waits for none of its locks: each has been   *)
(* ready or has exited, however many there are (timeout_runner.go:31-65).  *)
THEOREM JointLockIsReady == Spec => []JointReady
<1>1. IndInv => JointReady
  BY KindsDiffer DEF JointReady, IndInv, GroupInv, TimedInv
<1> QED BY <1>1, ProcessInvariance, PTL

(* A joint lock that has exited leaves a lock at work only if it timed out *)
(* (timeout_runner.go:59).                                                 *)
THEOREM OnlyTimedOutLeftBehind == Spec => []LeftBehindOnlyOnTimeout
<1>1. IndInv => LeftBehindOnlyOnTimeout
  <2> SUFFICES ASSUME IndInv, group.phase = "exited", NEW m \in Timed, InnerRuns(m)
               PROVE  m \in expired
    BY DEF LeftBehindOnlyOnTimeout
  <2>1. life[m] = "exited"
    BY KindsDiffer DEF IndInv, GroupInv, InnerRuns
  <2> QED BY <2>1 DEF IndInv, TimedInv, InnerRuns
<1> QED BY <1>1, ProcessInvariance, PTL

(* A Run that was ready deregisters its service when it exits, for any     *)
(* number of register goroutines and faults before                         *)
(* (registration_runner.go:122-127, 165-167).                              *)
THEOREM ExitDeregisters == Spec => []QuietExitDeregisters
<1>1. IndInv => QuietExitDeregisters
  BY DEF IndInv, RegistrationInv
<1> QED BY <1>1, ProcessInvariance, PTL

-----------------------------------------------------------------------------
(* Lock.Run of consul.                                                     *)

USE SessionAssumption DEF Sessions, Fields

(* The inductive invariant of Lock.Run and its sessions.                   *)
Inv ==
  /\ LockTypeOK
  /\ OneSession
  /\ OneAcquirer
  /\ HeldMetricFollows
  /\ timer => ~readyClosed

(* What a step leaves of consul's sessions is at most one of them.         *)
LEMMA FewerSessions ==
  ASSUME OneSession, \/ alive' \subseteq alive
                     \/ \E s \in Sessions : alive' = {s}
  PROVE  OneSession'
  BY DEF OneSession

(* A fault keeps the number of faults that are left within its bounds.     *)
LEMMA FaultType ==
  ASSUME SessionTypeOK, Fault
  PROVE  faults' \in 0 .. MaxFaults
  BY DEF SessionTypeOK, Fault

(* When sessions die in consul none comes to life, and the key goes to     *)
(* nobody who could not hold it.                                           *)
LEMMA DiesType ==
  ASSUME SessionTypeOK, NEW dead, Dies(dead)
  PROVE  /\ alive' \subseteq alive
         /\ alive' \subseteq Sessions
         /\ holder' \in Sessions \cup {Nobody, Other}
  BY Zenon DEF SessionTypeOK, Dies

(* destroy ends one session, or fails to.                                  *)
LEMMA DestroyType ==
  ASSUME SessionTypeOK, NEW s \in Sessions, destroy(s)
  PROVE  /\ session' \in [Sessions -> Fields]
         /\ alive' \subseteq alive
         /\ alive' \subseteq Sessions
         /\ holder' \in Sessions \cup {Nobody, Other}
         /\ faults' \in 0 .. MaxFaults
<1>1. session' \in [Sessions -> Fields]
  <2>1. session \in [Sessions -> Fields] /\ session' = [session EXCEPT ![s].destroyed = TRUE]
    BY Zenon DEF destroy, SessionTypeOK
  <2>2. [session[s] EXCEPT !.destroyed = TRUE] \in Fields
    BY Zenon, <2>1 DEF Fields
  <2> QED
    BY Zenon, <2>1, <2>2
<1>2. \/ Dies({s}) /\ UNCHANGED faults
      \/ Fault /\ UNCHANGED <<alive, holder>>
      \/ UNCHANGED <<alive, holder, faults>>
  BY DEF destroy
<1> QED
  BY Zenon, <1>1, <1>2, FaultType, DiesType DEF SessionTypeOK

(* Filling or emptying the channel errCh (session.go:124-130) of a session *)
(* keeps its fields typed.                                                 *)
LEMMA ErrChType ==
  ASSUME SessionTypeOK, NEW s \in Sessions, NEW n \in 0 .. 1,
         session' = [session EXCEPT ![s].errCh = n]
  PROVE  session' \in [Sessions -> Fields]
<1>1. session[s] \in Fields
  BY DEF SessionTypeOK
<1>2. [session[s] EXCEPT !.errCh = n] \in Fields
  BY Zenon, <1>1 DEF Fields
<1> QED
  BY Zenon, <1>2 DEF SessionTypeOK

(* create (session.go:242-290) leaves the new session as the only one of   *)
(* this process that is alive.                                             *)
LEMMA CreateType ==
  ASSUME SessionTypeOK, NEW s \in Sessions, create(s)
  PROVE  /\ session' \in [Sessions -> Fields]
         /\ renew' \in [Sessions -> {"none", "renewing", "ended", "sending", "done"}]
         /\ alive' = {s}
         /\ holder' \in Sessions \cup {Nobody, Other}
         /\ UNCHANGED <<faults, lostCh>>
<1>1. session' \in [Sessions -> Fields]
  <2>1. session \in [Sessions -> Fields] /\ session' = [session EXCEPT ![s].id = TRUE]
    BY Zenon DEF create, SessionTypeOK
  <2>2. [session[s] EXCEPT !.id = TRUE] \in Fields
    BY Zenon, <2>1 DEF Fields
  <2> QED
    BY Zenon, <2>1, <2>2
<1>2. renew' \in [Sessions -> {"none", "renewing", "ended", "sending", "done"}]
  BY DEF create, SessionTypeOK
<1> QED
  BY <1>1, <1>2 DEF create, SessionTypeOK

(* A create that fails brings no session to life.                          *)
LEMMA CreateFailsType ==
  ASSUME SessionTypeOK, createFails
  PROVE  /\ alive' \subseteq alive
         /\ alive' \subseteq Sessions
         /\ holder' \in Sessions \cup {Nobody, Other}
         /\ faults' \in 0 .. MaxFaults
         /\ UNCHANGED <<session, renew, lostCh>>
  BY FaultType, DiesType DEF createFails

-----------------------------------------------------------------------------
(* A step of consul, or of a goroutine of a Session, leaves one session at *)
(* most, and moves an acquire goroutine on without starting one.           *)
Advanced(s) ==
  \/ acquire'[s] = acquire[s]
  \/ acquire[s] \in {"started", "locking"} /\ acquire'[s] \in {"locking", "ok", "failed"}

(* The steps of consul and of a session's goroutines (session.go:93-199)   *)
(* keep its type and the number of live sessions, and advance an acquire   *)
(* goroutine only through its own stages.                                  *)
LEMMA SessionStep ==
  ASSUME SessionTypeOK, OneSession, SessionNext
  PROVE  SessionTypeOK' /\ OneSession' /\ \A s \in Sessions : Advanced(s)
<1>1. ASSUME NEW s \in Sessions, SessionExpires(s)
      PROVE  SessionTypeOK' /\ OneSession' /\ UNCHANGED acquire
  <2>1. Dies({s}) /\ UNCHANGED <<session, acquire, renew, monitor, lostCh>>
        /\ (UNCHANGED faults \/ Fault)
    BY <1>1 DEF SessionExpires, routineVars
  <2> QED
    BY <2>1, DiesType, FaultType, FewerSessions DEF SessionTypeOK
<1>2. ASSUME KeyDeleted \/ OtherMoves \/ \E s \in Sessions : LostChCloses(s)
      PROVE  SessionTypeOK' /\ OneSession' /\ UNCHANGED acquire
  <2>1. /\ UNCHANGED <<session, acquire, renew, monitor, alive>>
        /\ UNCHANGED faults \/ Fault
        /\ holder' \in {holder, Nobody, Other}
        /\ lostCh' \subseteq lostCh \cup Sessions
    BY <1>2 DEF KeyDeleted, OtherMoves, LostChCloses, routineVars
  <2> QED
    BY <2>1, FaultType DEF SessionTypeOK, OneSession
<1>3. ASSUME NEW s \in Sessions, AcquireCreates(s)
      PROVE  SessionTypeOK' /\ OneSession' /\ \A z \in Sessions : Advanced(z)
  <2>1. /\ acquire[s] = "started"
        /\ \E v \in {"locking", "failed"} : acquire' = [acquire EXCEPT ![s] = v]
        /\ UNCHANGED monitor
    BY <1>3 DEF AcquireCreates
  <2>2. /\ acquire' \in [Sessions -> {"none", "started", "locking", "ok", "failed", "read"}]
        /\ \A z \in Sessions : Advanced(z)
    BY <2>1 DEF SessionTypeOK, Advanced
  <2>3. create(s) \/ createFails \/ UNCHANGED <<session, renew, consulVars>>
    BY <1>3 DEF AcquireCreates
  <2>4. CASE create(s)
    <3>0. alive' \subseteq Sessions
      BY <2>4, CreateType
    <3>1. SessionTypeOK'
      BY Zenon, <3>0, <2>1, <2>2, <2>4, CreateType DEF SessionTypeOK
    <3>2. OneSession'
      BY SMTT(30), <2>4, CreateType DEF OneSession
    <3> QED
      BY <2>2, <3>1, <3>2
  <2>5. CASE createFails
    BY Zenon, <2>1, <2>2, <2>5, CreateFailsType, FewerSessions DEF SessionTypeOK
  <2>6. CASE UNCHANGED <<session, renew, consulVars>>
    BY <2>1, <2>2, <2>6 DEF SessionTypeOK, OneSession, consulVars
  <2> QED
    BY <2>2, <2>3, <2>4, <2>5, <2>6
<1>4. ASSUME NEW s \in Sessions, LockWon(s) \/ LockFailed(s)
      PROVE  SessionTypeOK' /\ OneSession' /\ \A z \in Sessions : Advanced(z)
  <2>1. /\ acquire[s] = "locking"
        /\ \E v \in {"ok", "failed"} : acquire' = [acquire EXCEPT ![s] = v]
        /\ UNCHANGED <<session, renew, alive, lostCh>>
        /\ monitor' \in {monitor, [monitor EXCEPT ![s] = "watching"]}
        /\ holder' \in {holder, s}
        /\ UNCHANGED faults \/ Fault
    BY <1>4 DEF LockWon, LockFailed
  <2>2. /\ acquire' \in [Sessions -> {"none", "started", "locking", "ok", "failed", "read"}]
        /\ \A z \in Sessions : Advanced(z)
    BY <2>1 DEF SessionTypeOK, Advanced
  <2> QED
    BY SMTT(30), <2>1, <2>2, FaultType DEF SessionTypeOK, OneSession
<1>5. ASSUME NEW s \in Sessions, RenewEnds(s) \/ RenewDestroys(s) \/ RenewSends(s)
      PROVE  SessionTypeOK' /\ OneSession' /\ UNCHANGED acquire
  <2>1. /\ \E v \in {"ended", "sending", "done"} : renew' = [renew EXCEPT ![s] = v]
        /\ UNCHANGED <<acquire, monitor, lostCh>>
    BY <1>5 DEF RenewEnds, RenewDestroys, RenewSends, consulVars
  <2>2. CASE RenewEnds(s)
    BY SMTT(30), <2>1, <2>2, FaultType DEF RenewEnds, SessionTypeOK, OneSession
  <2>3. CASE RenewDestroys(s)
    BY <2>1, <2>3, DestroyType, FewerSessions DEF RenewDestroys, SessionTypeOK
  <2>4. CASE RenewSends(s)
    <3>1. session' \in [Sessions -> Fields]
      <4>1. 1 \in 0 .. 1
        OBVIOUS
      <4> QED
        BY Zenon, <2>4, <4>1, ErrChType DEF RenewSends
    <3> QED
      BY <2>1, <2>4, <3>1 DEF RenewSends, SessionTypeOK, OneSession, consulVars
  <2> QED
    BY <1>5, <2>1, <2>2, <2>3, <2>4
<1> QED
  BY SMTT(30), <1>1, <1>2, <1>3, <1>4, <1>5 DEF SessionNext, Advanced

-----------------------------------------------------------------------------
(* The monitor goroutine touches its session and nothing of Run.           *)
LEMMA MonitorStep ==
  ASSUME SessionTypeOK, OneSession, NEW s \in Sessions,
         MonitorLost(s) \/ MonitorDone(s) \/ MonitorLocks(s) \/ MonitorSends(s)
  PROVE  SessionTypeOK' /\ OneSession' /\ UNCHANGED <<acquire, runVars>>
<1>1. /\ \E v \in {"lost", "done", "sending"} : monitor' = [monitor EXCEPT ![s] = v]
      /\ UNCHANGED <<acquire, renew, lostCh, runVars>>
  BY DEF MonitorLost, MonitorDone, MonitorLocks, MonitorSends, consulVars
<1>2. monitor' \in [Sessions -> {"none", "watching", "lost", "sending", "done"}]
  BY SMTT(30), <1>1 DEF SessionTypeOK
<1>3. CASE destroy(s)
  BY <1>1, <1>2, <1>3, DestroyType, FewerSessions DEF SessionTypeOK
<1>4. CASE UNCHANGED <<alive, holder, faults>> /\ session' \in [Sessions -> Fields]
  BY <1>1, <1>2, <1>4 DEF SessionTypeOK, OneSession
<1>5. CASE MonitorLost(s) \/ MonitorDone(s)
  BY <1>4, <1>5 DEF MonitorLost, MonitorDone, consulVars, SessionTypeOK
<1>6. CASE MonitorLocks(s)
  <2>1. CASE session[s].destroyed
    <3>1. /\ session' = [session EXCEPT ![s].busy = TRUE]
          /\ UNCHANGED <<alive, holder, faults>>
      BY <1>6, <2>1 DEF MonitorLocks
    <3>2. session[s] \in Fields
      BY DEF SessionTypeOK
    <3>3. [session[s] EXCEPT !.busy = TRUE] \in Fields
      BY Zenon, <3>2
    <3>4. session' \in [Sessions -> Fields]
      BY Zenon, <3>1, <3>3 DEF SessionTypeOK
    <3> QED
      BY <1>4, <3>1, <3>4
  <2>2. CASE ~session[s].destroyed
    BY <1>3, <1>6, <2>2 DEF MonitorLocks
  <2> QED
    BY <2>1, <2>2
<1>7. CASE MonitorSends(s)
  <2>1. session' = [session EXCEPT ![s] = [session[s] EXCEPT !.errCh = 1, !.busy = FALSE]]
    BY Zenon, <1>7 DEF MonitorSends, SessionTypeOK
  <2>2. 1 \in 0 .. 1 /\ session[s] \in Fields
    BY DEF SessionTypeOK
  <2>3. [session[s] EXCEPT !.errCh = 1, !.busy = FALSE] \in Fields
    BY Zenon, <2>2
  <2>4. session' \in [Sessions -> Fields]
    BY Zenon, <2>1, <2>3 DEF SessionTypeOK
  <2> QED
    BY <1>4, <1>7, <2>4 DEF MonitorSends, consulVars
<1> QED
  BY <1>5, <1>6, <1>7

(* A step in which Run does not move.                                      *)
LEMMA RunStays ==
  ASSUME Inv, SessionTypeOK', OneSession', \A s \in Sessions : Advanced(s), UNCHANGED runVars
  PROVE  Inv'
<1>1. LockTypeOK'
  BY DEF Inv, LockTypeOK, runVars
<1>2. OneAcquirer'
  BY DEF Inv, OneAcquirer, Advanced, runVars
<1>3. HeldMetricFollows' /\ (timer' => ~readyClosed')
  BY Zenon DEF Inv, HeldMetricFollows, runVars
<1> QED
  BY <1>1, <1>2, <1>3 DEF Inv

(* Destroy, which Run calls twice when it is signalled.                    *)
LEMMA DestroyStep ==
  ASSUME Inv, NEW s \in Sessions, Destroy(s)
  PROVE  SessionTypeOK' /\ OneSession' /\ UNCHANGED acquire
<1>1. destroy(s) /\ UNCHANGED <<acquire, renew, monitor, lostCh>>
  BY DEF Destroy, routineVars
<1> QED
  BY <1>1, DestroyType, FewerSessions DEF Inv, LockTypeOK, SessionTypeOK

(* The signal, the release of the lock and the deferred Destroy            *)
(* (lock.go:75-100) preserve Inv.                                          *)
LEMMA SignalSteps ==
  ASSUME Inv, Signal \/ OnSignal \/ ReleaseLock \/ Return
  PROVE  Inv'
<1>1. SessionTypeOK' /\ OneSession' /\ UNCHANGED <<acquire, consul, readyClosed, timer>>
  BY Zenon, DestroyStep DEF Inv, LockTypeOK, Signal, OnSignal, ReleaseLock, Return, sessionVars,
       routineVars, consulVars, SessionTypeOK, OneSession
<1>2. LockTypeOK'
  BY Zenon, <1>1 DEF Inv, LockTypeOK, Signal, OnSignal, ReleaseLock, Return, emitMetrics
<1>3. OneAcquirer' /\ (timer' => ~readyClosed')
  BY <1>1 DEF Inv, OneAcquirer
<1>4. HeldMetricFollows'
  BY Zenon, <1>1 DEF Inv, HeldMetricFollows, Signal, OnSignal, ReleaseLock, Return, emitMetrics
<1> QED
  BY <1>1, <1>2, <1>3, <1>4 DEF Inv

-----------------------------------------------------------------------------
(* The other cases of the select                                           *)

(* The case of the error of the session (lock.go:101-108) preserves Inv.   *)
LEMMA OnErrStep ==
  ASSUME Inv, OnErr
  PROVE  Inv'
<1>1. /\ UNCHANGED <<acquire, renew, monitor, alive, holder, lostCh, faults, consul, readyClosed, timer,
                     signalled>>
      /\ session' = [session EXCEPT ![consul].errCh = 0]
      /\ IF readyClosed THEN pc' = "returning" /\ lockHeld' = FALSE ELSE UNCHANGED <<pc, lockHeld>>
      /\ pc = "select"
  BY DEF OnErr, ReadErr, routineVars, consulVars, emitMetrics
<1>2. session' \in [Sessions -> Fields]
  <2>1. 0 \in 0 .. 1 /\ consul \in Sessions /\ SessionTypeOK
    BY DEF Inv, LockTypeOK
  <2> QED
    BY Zenon, <1>1, <2>1, ErrChType
<1>3. SessionTypeOK' /\ OneSession'
  BY <1>1, <1>2 DEF Inv, LockTypeOK, SessionTypeOK, OneSession
<1>4. LockTypeOK'
  BY Zenon, <1>1, <1>3 DEF Inv, LockTypeOK
<1>5. OneAcquirer' /\ (timer' => ~readyClosed')
  BY <1>1 DEF Inv, OneAcquirer
<1>6. HeldMetricFollows'
  BY Zenon, <1>1 DEF Inv, HeldMetricFollows, LockTypeOK
<1> QED
  BY <1>3, <1>4, <1>5, <1>6 DEF Inv

(* The result of the acquire goroutine is read while Run is neither ready  *)
(* nor about to retry, and there is no other goroutine.                    *)
LEMMA OnAcquireStep ==
  ASSUME Inv, OnAcquire
  PROVE  Inv'
<1>1. /\ pc = "select" /\ acquire[consul] \in {"ok", "failed"}
      /\ acquire' = [acquire EXCEPT ![consul] = "read"]
      /\ readyClosed' = (readyClosed \/ acquire[consul] = "ok")
      /\ lockHeld' = (acquire[consul] = "ok")
      /\ timer' = (acquire[consul] = "failed")
      /\ UNCHANGED <<session, renew, monitor, alive, holder, lostCh, faults, pc, consul, signalled>>
  BY SMTT(30) DEF OnAcquire, consulVars, emitMetrics
<1>2. consul \in Sessions /\ ~readyClosed /\ \A s \in Sessions : acquire'[s] \in {"none", "read"}
  BY SMTT(30), <1>1 DEF Inv, LockTypeOK, OneAcquirer, SessionTypeOK
<1>3. acquire' \in [Sessions -> {"none", "started", "locking", "ok", "failed", "read"}]
  BY SMTT(30), <1>1 DEF Inv, LockTypeOK, SessionTypeOK
<1>4. SessionTypeOK' /\ OneSession'
  BY SMTT(30), <1>1, <1>3 DEF Inv, LockTypeOK, SessionTypeOK, OneSession
<1>5. LockTypeOK'
  BY <1>1, <1>4 DEF Inv, LockTypeOK
<1>6. OneAcquirer'
  BY <1>2 DEF OneAcquirer
<1>7. HeldMetricFollows' /\ (timer' => ~readyClosed')
  BY Zenon, <1>1, <1>2 DEF HeldMetricFollows
<1> QED
  BY <1>4, <1>5, <1>6, <1>7 DEF Inv

(* Emitting the metric again (lock.go:125-127) preserves Inv: the lock is  *)
(* held then, so that nothing changes.                                     *)
LEMMA OnReemitStep ==
  ASSUME Inv, OnReemit
  PROVE  Inv'
<1>1. lockHeld' = lockHeld
  BY Zenon DEF OnReemit, emitMetrics, Inv, HeldMetricFollows, LockTypeOK
<1>2. UNCHANGED <<session, acquire, renew, monitor, alive, holder, lostCh, faults, runVars>>
  BY <1>1 DEF OnReemit, sessionVars, routineVars, consulVars, runVars
<1>3. SessionTypeOK' /\ OneSession' /\ \A s \in Sessions : Advanced(s)
  BY <1>2 DEF Inv, LockTypeOK, SessionTypeOK, OneSession, Advanced
<1> QED
  BY <1>2, <1>3, RunStays

(* A retry finds no acquire goroutine at work, and starts one.             *)
LEMMA OnRetryStep ==
  ASSUME Inv, OnRetry
  PROVE  Inv'
<1>0. /\ timer /\ ~readyClosed /\ UNCHANGED <<pc, readyClosed, signalled, lockHeld>>
      /\ \A s \in Sessions : acquire[s] \in {"none", "read"}
  BY DEF OnRetry, Inv, OneAcquirer
<1>1. CASE consul + 1 \in Sessions /\ Recreate(consul, consul + 1)
           /\ consul' = consul + 1 /\ timer' = FALSE
  <2> DEFINE next == consul + 1
  <2>1. next \in Sessions /\ create(next) /\ acquire' = [acquire EXCEPT ![next] = "started"]
        /\ UNCHANGED monitor /\ SessionTypeOK
    BY <1>1 DEF Recreate, Inv, LockTypeOK
  <2> HIDE DEF next
  <2>2. acquire' \in [Sessions -> {"none", "started", "locking", "ok", "failed", "read"}]
    BY SMTT(30), <2>1 DEF SessionTypeOK
  <2>3. alive' \subseteq Sessions /\ OneSession'
    BY <2>1, CreateType DEF OneSession
  <2>4. SessionTypeOK'
    BY Zenon, <2>1, <2>2, <2>3, CreateType DEF SessionTypeOK
  <2>5. LockTypeOK'
    BY Zenon, <1>0, <1>1, <2>4 DEF Inv, LockTypeOK
  <2>6. OneAcquirer'
    BY <1>0, <1>1, <2>1 DEF OneAcquirer, next, SessionTypeOK
  <2>7. HeldMetricFollows' /\ (timer' => ~readyClosed')
    BY Zenon, <1>0, <1>1 DEF Inv, HeldMetricFollows
  <2> QED
    BY <2>3, <2>5, <2>6, <2>7 DEF Inv
<1>2. CASE RecreateFails(consul) /\ UNCHANGED <<consul, timer>>
  <2>1. createFails /\ UNCHANGED <<acquire, monitor>> /\ SessionTypeOK
    BY SMTT(30), <1>2 DEF RecreateFails, Inv, LockTypeOK
  <2>2. SessionTypeOK' /\ OneSession'
    BY Zenon, <2>1, CreateFailsType, FewerSessions DEF SessionTypeOK, Inv
  <2> QED
    BY <1>0, <1>2, <2>1, <2>2, RunStays DEF Advanced, runVars
<1> QED
  BY Zenon, <1>1, <1>2 DEF OnRetry

-----------------------------------------------------------------------------
(* Run starts in Inv, with one acquire goroutine and no session of its     *)
(* own.                                                                    *)
LEMMA LockInitInv == LockInit => Inv
<1> SUFFICES ASSUME LockInit PROVE Inv
  OBVIOUS
<1>1. NewSession \in Fields
  BY DEF NewSession
<1>2. session \in [Sessions -> Fields]
  BY <1>1 DEF LockInit, SessionInit
<1>3. SessionTypeOK /\ 1 \in Sessions
  BY SMTT(30), <1>2 DEF LockInit, SessionInit, SessionTypeOK
<1>4. OneSession
  BY DEF LockInit, SessionInit, OneSession
<1>5. LockTypeOK
  BY Zenon, <1>3 DEF LockInit, LockTypeOK
<1>6. OneAcquirer /\ HeldMetricFollows /\ (timer => ~readyClosed)
  BY Zenon DEF LockInit, SessionInit, OneAcquirer, HeldMetricFollows
<1> QED
  BY <1>4, <1>5, <1>6 DEF Inv

(* Every step of Run, of its goroutines and of consul preserves Inv.       *)
LEMMA LockNextInv == Inv /\ [LockNext]_lockVars => Inv'
<1> SUFFICES ASSUME Inv, [LockNext]_lockVars PROVE Inv'
  OBVIOUS
<1>t. SessionTypeOK /\ OneSession
  BY DEF Inv, LockTypeOK
<1>1. CASE SessionNext /\ UNCHANGED runVars
  BY <1>t, <1>1, SessionStep, RunStays
<1>2. ASSUME NEW s \in Sessions,
             MonitorLost(s) \/ MonitorDone(s) \/ MonitorLocks(s) \/ MonitorSends(s)
      PROVE  Inv'
  <2>1. SessionTypeOK' /\ OneSession' /\ UNCHANGED <<acquire, runVars>>
    BY <1>t, <1>2, MonitorStep
  <2> QED
    BY <2>1, RunStays DEF Advanced
<1>3. CASE UNCHANGED lockVars
  <2>1. UNCHANGED <<session, acquire, renew, monitor, alive, holder, lostCh, faults, runVars>>
    BY SMTT(30), <1>3 DEF lockVars, sessionVars, routineVars, consulVars
  <2>2. SessionTypeOK' /\ OneSession' /\ \A s \in Sessions : Advanced(s)
    BY <2>1, <1>t DEF SessionTypeOK, OneSession, Advanced
  <2> QED
    BY SMTT(30), <2>1, <2>2, RunStays
<1> QED
  BY <1>1, <1>2, <1>3, SignalSteps, OnErrStep, OnAcquireStep, OnReemitStep, OnRetryStep
     DEF LockNext

(* Inv, the conjunction of the invariants with what relates the retry      *)
(* timer and ready (lock.go:113-123), is an invariant of Lock.Run.         *)
THEOREM LockInvariance == LockSpec => []Inv
  BY LockInitInv, LockNextInv, PTL DEF LockSpec

(* Type correctness of the Sessions, their goroutines and Run.             *)
THEOREM LockTypeCorrect == LockSpec => []LockTypeOK
<1>1. Inv => LockTypeOK
  BY DEF Inv
<1> QED
  BY <1>1, LockInvariance, PTL

(* session.go:256-264: consul never has two sessions of one Run, whichever *)
(* calls to destroy one have failed before.                                *)
THEOREM OneSessionAtATime == LockSpec => []OneSession
<1>1. Inv => OneSession
  BY DEF Inv
<1> QED
  BY <1>1, LockInvariance, PTL

(* lock.go:90, 109-137: there is never a second acquire goroutine, and     *)
(* none once ready is closed, so ready is closed at most once.             *)
THEOREM OneAcquirerAtATime == LockSpec => []OneAcquirer
<1>1. Inv => OneAcquirer
  BY DEF Inv
<1> QED
  BY <1>1, LockInvariance, PTL

(* lock.go:99-127: the metric LockHeld follows the lock.                   *)
THEOREM MetricFollowsLock == LockSpec => []HeldMetricFollows
<1>1. Inv => HeldMetricFollows
  BY DEF Inv
<1> QED
  BY <1>1, LockInvariance, PTL
-----------------------------------------------------------------------------
(* What is left once Run has returned.                                     *)

(* A Run that has returned has destroyed its session.                      *)
Abandoned == pc = "done" => session[consul].destroyed

(* The fields of a session are set one by one, and destroyed is not reset  *)
(* (session.go:74-91).                                                     *)
LEMMA DestroyedStays ==
  ASSUME Inv, [LockNext]_lockVars, NEW s \in Sessions, session[s].destroyed
  PROVE  session'[s].destroyed
<1> DEFINE Set(t) == \/ session' = [session EXCEPT ![t].id = TRUE]
                     \/ session' = [session EXCEPT ![t].destroyed = TRUE]
                     \/ \E n \in 0 .. 1 : session' = [session EXCEPT ![t].errCh = n]
                     \/ session' = [session EXCEPT ![t].busy = TRUE]
                     \/ session' = [session EXCEPT ![t].errCh = 1, ![t].busy = FALSE]
<1>0. session \in [Sessions -> Fields] /\ consul \in Sessions
  BY DEF Inv, LockTypeOK, SessionTypeOK
<1>1. ASSUME SessionNext PROVE UNCHANGED session \/ \E t \in Sessions : Set(t)
  <2>1. CASE KeyDeleted \/ OtherMoves \/ \E t \in Sessions : SessionExpires(t)
    BY Zenon, <2>1 DEF KeyDeleted, OtherMoves, SessionExpires
  <2>2. ASSUME NEW t \in Sessions, LostChCloses(t) \/ LockWon(t) \/ LockFailed(t) \/ RenewEnds(t)
        PROVE  UNCHANGED session
    BY Zenon, <2>2 DEF LostChCloses, LockWon, LockFailed, RenewEnds
  <2>3. ASSUME NEW t \in Sessions, AcquireCreates(t) \/ RenewDestroys(t)
        PROVE  UNCHANGED session \/ Set(t)
    BY Zenon, <2>3 DEF AcquireCreates, RenewDestroys, create, createFails, destroy
  <2>4. ASSUME NEW t \in Sessions, RenewSends(t) PROVE Set(t)
    BY <2>4 DEF RenewSends
  <2> HIDE DEF Set
  <2> QED
    BY Zenon, <1>1, <2>1, <2>2, <2>3, <2>4 DEF SessionNext
<1>2. ASSUME NEW t \in Sessions, MonitorLost(t) \/ MonitorDone(t) \/ MonitorLocks(t) \/ MonitorSends(t)
      PROVE  UNCHANGED session \/ Set(t)
  BY Zenon, <1>2 DEF MonitorLost, MonitorDone, MonitorLocks, MonitorSends, destroy
<1>3. ASSUME Signal \/ OnSignal \/ OnAcquire \/ OnReemit \/ UNCHANGED lockVars
      PROVE  UNCHANGED session
  BY Zenon, <1>3 DEF Signal, OnSignal, OnAcquire, OnReemit, lockVars, sessionVars
<1>4. ASSUME ReleaseLock \/ Return \/ OnErr PROVE Set(consul)
  <2>1. CASE ReleaseLock \/ Return
    BY Zenon, <2>1 DEF ReleaseLock, Return, Destroy, destroy
  <2>2. CASE OnErr
    <3>1. session' = [session EXCEPT ![consul].errCh = 0] /\ 0 \in 0 .. 1
      BY <2>2 DEF OnErr, ReadErr
    <3> QED
      BY Zenon, <3>1
  <2> QED
    BY Zenon, <1>4, <2>1, <2>2
<1>5. ASSUME OnRetry PROVE UNCHANGED session \/ \E t \in Sessions : Set(t)
  BY Zenon, <1>5 DEF OnRetry, Recreate, RecreateFails, create, createFails
<1>6. UNCHANGED session \/ \E t \in Sessions : Set(t)
  <2> HIDE DEF Set
  <2> QED
    BY Zenon, <1>0, <1>1, <1>2, <1>3, <1>4, <1>5 DEF LockNext
<1>7. CASE UNCHANGED session
  BY <1>7
<1>8. ASSUME NEW t \in Sessions, Set(t) PROVE session'[s].destroyed
  <2>1. CASE s = t
    BY SMTT(30), <1>0, <1>8, <2>1
  <2>2. CASE s # t
    BY SMTT(30), <1>0, <1>8, <2>2
  <2> QED
    BY <2>1, <2>2
<1> QED
  BY Zenon, <1>6, <1>7, <1>8

(* Only Return ends Run, and it destroys the session; no case of the       *)
(* select is taken after it.                                               *)
LEMMA AbandonedStep == Inv /\ Abandoned /\ [LockNext]_lockVars => Abandoned'
<1> SUFFICES ASSUME Inv, Abandoned, [LockNext]_lockVars, pc' = "done"
             PROVE  session'[consul'].destroyed
  BY DEF Abandoned
<1>0. session \in [Sessions -> Fields] /\ consul \in Sessions
  BY DEF Inv, LockTypeOK, SessionTypeOK
<1>1. CASE Return
  BY <1>0, <1>1 DEF Return, Destroy, destroy
<1>2. CASE ~Return
  <2>1. pc = "done" /\ consul' = consul
    BY Zenon, <1>2 DEF LockNext, lockVars, runVars, MonitorLost, MonitorDone, MonitorLocks, MonitorSends,
         Signal, OnSignal, ReleaseLock, OnErr, OnAcquire, OnReemit, OnRetry, emitMetrics
  <2> QED
    BY <1>0, <2>1, DestroyedStays DEF Abandoned
<1> QED
  BY <1>1, <1>2

(* After Run has returned no session of this process comes to life: an     *)
(* acquire goroutine that is still to create one finds its Session         *)
(* destroyed (session.go:81-91, 93-133, lock.go:75-78).  What the process  *)
(* has left in consul dies with the last session.                          *)
THEOREM NoSessionAfterReturn == LockSpec => [][pc = "done" => alive' \subseteq alive]_lockVars
<1>1. LockInit => Abandoned
  BY DEF LockInit, Abandoned
<1>2. Inv /\ Abandoned /\ [LockNext]_lockVars => [pc = "done" => alive' \subseteq alive]_lockVars
  <2> SUFFICES ASSUME Inv, Abandoned, LockNext, pc = "done"
               PROVE  alive' \subseteq alive
    OBVIOUS
  <2>1. ASSUME NEW s \in Sessions, AcquireCreates(s) PROVE UNCHANGED alive
    <3>1. s = consul
      BY <2>1 DEF AcquireCreates, Inv, OneAcquirer
    <3> QED
      BY <2>1, <3>1 DEF AcquireCreates, Abandoned, consulVars
  <2>2. ASSUME SessionNext PROVE alive' \subseteq alive
    BY <2>1, <2>2 DEF SessionNext, KeyDeleted, OtherMoves, SessionExpires, LostChCloses, LockWon,
         LockFailed, RenewEnds, RenewDestroys, RenewSends, destroy, Dies, consulVars
  <2>3. ASSUME NEW s \in Sessions, MonitorLost(s) \/ MonitorDone(s) \/ MonitorLocks(s) \/ MonitorSends(s)
        PROVE  alive' \subseteq alive
    BY <2>3 DEF MonitorLost, MonitorDone, MonitorLocks, MonitorSends, destroy, Dies, consulVars
  <2>4. CASE Signal
    BY <2>4 DEF Signal, sessionVars, consulVars
  <2>5. ~(OnSignal \/ ReleaseLock \/ Return \/ OnErr \/ OnAcquire \/ OnReemit \/ OnRetry)
    BY DEF OnSignal, ReleaseLock, Return, OnErr, OnAcquire, OnReemit, OnRetry
  <2> QED
    BY <2>2, <2>3, <2>4, <2>5 DEF LockNext
<1> QED
  BY <1>1, <1>2, AbandonedStep, LockInvariance, PTL DEF LockSpec
=============================================================================
