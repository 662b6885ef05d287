------------------------ MODULE DisappearanceWatcher -------------------------
(***************************************************************************)
(* disappearance_watcher.go: a goroutine lists the keys under a prefix of  *)
(* consul again and again and sends those that have gone to a channel;     *)
(* Run waits for a signal, then closes stop and the channel.               *)
(*                                                                         *)
(* External: consul.  A blocking List returns when something changed or    *)
(* after WaitTime, so that it may return at any time.                      *)
(***************************************************************************)
EXTENDS Naturals

CONSTANTS
  Keys,       \* keys under the prefix that a session can hold
  MaxFaults   \* calls to consul that may fail

ASSUME WatcherAssumption == MaxFaults \in Nat

VARIABLES
  present,    \* keys that a session holds
  dir,        \* the prefix itself is a key
  pc,         \* where the goroutine is
  keys,       \* keys: what the goroutine listed last
  newKeys,    \* newKeys: what it has just listed
  run,        \* where Run is
  seen,       \* history: keys listed and not sent as missing since
  faults      \* faults still allowed

consulVars == <<present, dir>>
vars == <<consulVars, pc, keys, newKeys, run, seen, faults>>

TypeOK ==
  /\ {present, keys, newKeys, seen} \subseteq SUBSET Keys
  /\ dir \in BOOLEAN
  /\ pc \in {"list", "failed", "listed", "put", "select", "sending", "done", "panic"}
  /\ run \in {"waiting", "signalled", "stopped", "closed"}
  /\ faults \in 0 .. MaxFaults

Init ==
  /\ present \in SUBSET Keys
  /\ dir \in BOOLEAN
  /\ pc = "list" /\ keys = {} /\ newKeys = {}
  /\ run = "waiting"
  /\ seen = {}
  /\ faults = MaxFaults

(* stop, and then disappearanceChan, have been closed.                     *)
Stopped == run \in {"stopped", "closed"}
Closed == run = "closed"

Fault == faults > 0 /\ faults' = faults - 1

Missing == keys \ newKeys

-----------------------------------------------------------------------------
KeyChanges(k) ==
  /\ present' = IF k \in present THEN present \ {k} ELSE present \cup {k}
  /\ UNCHANGED <<dir, pc, keys, newKeys, run, seen, faults>>

(* newKeySet keeps the keys that a session holds.                          *)
List ==
  /\ pc = "list"
  /\ newKeys' = present
  /\ seen' = seen \cup present
  /\ pc' = "listed"
  /\ UNCHANGED <<consulVars, keys, run, faults>>

(* Mutant of ListFails: what was listed is forgotten with the wait index.  *)
ListFailsForgets ==
  /\ pc = "list"
  /\ Fault
  /\ keys' = {}
  /\ pc' = "failed"
  /\ UNCHANGED <<consulVars, newKeys, run, seen>>

ListFails ==
  /\ pc = "list"
  /\ Fault
  /\ pc' = "failed"
  /\ UNCHANGED <<consulVars, keys, newKeys, run, seen>>

(* After an error: stop, or a second passes.                               *)
AfterFailure ==
  /\ pc = "failed"
  /\ pc' \in IF Stopped THEN {"done", "list"} ELSE {"list"}
  /\ UNCHANGED <<consulVars, keys, newKeys, run, seen, faults>>

Compare == IF Missing = {} THEN keys' = newKeys /\ pc' = "list"
                           ELSE UNCHANGED keys /\ pc' = "select"

(* The check of stop, then the difference.  A nil list means that there is *)
(* no key at all, not even the prefix, which is put first.                 *)
CheckStop ==
  /\ pc = "listed"
  /\ IF Stopped THEN pc' = "done" /\ UNCHANGED keys
     ELSE IF newKeys = {} /\ ~dir THEN pc' = "put" /\ UNCHANGED keys
     ELSE Compare
  /\ UNCHANGED <<consulVars, newKeys, run, seen, faults>>

Put ==
  /\ pc = "put"
  /\ dir' = TRUE
  /\ Compare
  /\ UNCHANGED <<present, newKeys, run, seen, faults>>

(* The list is taken again, against the same keys.                         *)
PutFails ==
  /\ pc = "put"
  /\ Fault
  /\ pc' = "list"
  /\ UNCHANGED <<consulVars, keys, newKeys, run, seen>>

(* The goroutine comes to the select.  When both channels are closed       *)
(* either case may be taken, and a send to a closed channel panics.        *)
Select ==
  /\ pc = "select"
  /\ pc' \in IF Closed THEN {"done", "panic"} ELSE IF Stopped THEN {"done"} ELSE {"sending"}
  /\ UNCHANGED <<consulVars, keys, newKeys, run, seen, faults>>

(* The reader of the channel takes what is missing.                        *)
Receive ==
  /\ pc = "sending"
  /\ seen' = seen \ Missing
  /\ keys' = newKeys
  /\ pc' = "list"
  /\ UNCHANGED <<consulVars, newKeys, run, faults>>

-----------------------------------------------------------------------------
Signal ==
  /\ run = "waiting"
  /\ run' = "signalled"
  /\ UNCHANGED <<consulVars, pc, keys, newKeys, seen, faults>>

(* close(stop) wakes a goroutine that waits in its select.                 *)
CloseStop ==
  /\ run = "signalled"
  /\ run' = "stopped"
  /\ pc' = IF pc = "sending" THEN "done" ELSE pc
  /\ UNCHANGED <<consulVars, keys, newKeys, seen, faults>>

CloseChan ==
  /\ run = "stopped"
  /\ run' = "closed"
  /\ UNCHANGED <<consulVars, pc, keys, newKeys, seen, faults>>

Next ==
  \/ \E k \in Keys : KeyChanges(k)
  \/ List \/ ListFails \/ AfterFailure \/ CheckStop \/ Put \/ PutFails \/ Select \/ Receive
  \/ Signal \/ CloseStop \/ CloseChan

Spec == Init /\ [][Next]_vars

(* Consul answers, the goroutine goes on, and the channel is read.         *)
FairSpec ==
  /\ Spec
  /\ WF_vars(List) /\ WF_vars(AfterFailure) /\ WF_vars(CheckStop) /\ WF_vars(Put)
  /\ WF_vars(Select) /\ WF_vars(Receive) /\ WF_vars(CloseStop) /\ WF_vars(CloseChan)

-----------------------------------------------------------------------------
(* A key that was listed and goes away for good is sent to the channel,    *)
(* whatever fails in between, unless the watcher is told to stop           *)
(* (disappearance_watcher.go:76-117).                                      *)
DisappearanceReported ==
  \A k \in Keys :
    (k \in seen /\ k \notin present) ~> (k \notin seen \/ k \in present \/ run # "waiting")

(* The watcher stops by closing the channel, without a send to it          *)
(* afterwards (disappearance_watcher_test.go:73-77).                       *)
NoSendOnClosed == pc # "panic"
=============================================================================
