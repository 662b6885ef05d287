---------------------------- MODULE OrderedGroup -----------------------------
(***************************************************************************)
(* External: the ordered group of ifrit's grouper, in which                *)
(* cmd/locket/main.go runs the parts of a locket process and               *)
(* jointlock/jointlock.go the locks of a joint lock.                       *)
(*                                                                         *)
(* Members are started in order, each once the one before it is ready.     *)
(* When a member exits, or the group is signalled, the members that were   *)
(* started are signalled and waited for one by one, last to first.  What a *)
(* member does is left to the modules that extend this one.                *)
(***************************************************************************)
EXTENDS Naturals, Sequences

CONSTANT Runners   \* names of members

VARIABLES
  members,   \* the members of this group, in order; never changes
  group,     \* its phase, and the position of the member it deals with
  life,      \* of each member: "new", "running" or "exited"
  ready,     \* members that have closed their ready channel
  failed,    \* members whose Run returned an error
  reaped,    \* members whose exit the group has received
  told,      \* members that have been signalled
  stop       \* a signal is in the channel of the group

memberVars == <<life, ready, failed>>
groupVars == <<members, group, reaped, told, stop, memberVars>>

(* The first member has been started.                                      *)
GroupInit(ms) ==
  /\ members = ms
  /\ group = [phase |-> "starting", pos |-> 1]
  /\ life = [m \in Runners |-> IF m = ms[1] THEN "running" ELSE "new"]
  /\ ready = {} /\ failed = {} /\ reaped = {} /\ told = {}
  /\ stop = FALSE

-----------------------------------------------------------------------------
(* Steps of the group                                                      *)

(* The member being started is ready: start the next, or be ready.         *)
MemberReady ==
  /\ group.phase = "starting"
  /\ members[group.pos] \in ready
  /\ IF group.pos = Len(members)
     THEN group' = [group EXCEPT !.phase = "running"] /\ UNCHANGED life
     ELSE /\ group' = [group EXCEPT !.pos = @ + 1]
          /\ life' = [life EXCEPT ![members[group.pos + 1]] = "running"]
  /\ UNCHANGED <<members, ready, failed, reaped, told, stop>>

(* A member has exited, before or after the whole group was ready.         *)
MemberExited ==
  /\ group.phase \in {"starting", "running"}
  /\ \E m \in Runners :
       /\ life[m] = "exited"
       /\ reaped' = {m}
  /\ group' = [group EXCEPT !.phase = "stopping"]
  /\ UNCHANGED <<members, told, stop, memberVars>>

SignalReceived ==
  /\ group.phase \in {"starting", "running"}
  /\ stop
  /\ stop' = FALSE
  /\ group' = [group EXCEPT !.phase = "stopping"]
  /\ UNCHANGED <<members, reaped, told, memberVars>>

(* Signal the member at pos, wait for it, go on to the one before it.  A   *)
(* member whose exit stopped the group is passed over.                     *)
StopMember ==
  /\ group.phase = "stopping"
  /\ LET m == members[group.pos] IN
     \/ /\ m \notin told \cup reaped
        /\ told' = told \cup {m}
        /\ UNCHANGED <<group, reaped>>
     \/ /\ m \in reaped \/ (m \in told /\ life[m] = "exited")
        /\ reaped' = reaped \cup {m}
        /\ group' = IF group.pos = 1 THEN [phase |-> "exited", pos |-> 0]
                                     ELSE [group EXCEPT !.pos = @ - 1]
        /\ UNCHANGED told
  /\ UNCHANGED <<members, stop, memberVars>>

GroupNext == MemberReady \/ MemberExited \/ SignalReceived \/ StopMember

-----------------------------------------------------------------------------
(* Steps of a member, for the modules that say when it takes them          *)

CloseReady(m) ==
  /\ ready' = ready \cup {m}
  /\ UNCHANGED <<life, failed>>

Exit(m, err) ==
  /\ life' = [life EXCEPT ![m] = "exited"]
  /\ failed' = IF err THEN failed \cup {m} ELSE failed
  /\ UNCHANGED ready

(* A runner of which nothing is known but that it exits when signalled.    *)
RunnerReady(m) ==
  /\ life[m] = "running" /\ m \notin ready
  /\ CloseReady(m)

RunnerExits(m) ==
  /\ life[m] = "running"
  /\ \E err \in BOOLEAN : Exit(m, err)
=============================================================================
