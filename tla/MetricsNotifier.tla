--------------------------- MODULE MetricsNotifier ---------------------------
(***************************************************************************)
(* metrics.metricsNotifier: at every tick it counts the held locks, then   *)
(* the held presences, each with a query of its own, and sends both        *)
(* numbers.  The table changes between the two counts and before the       *)
(* numbers are sent; LocketAPI.tla composes the notifier with the calls    *)
(* that change it.                                                         *)
(***************************************************************************)
EXTENDS LockTable

CONSTANTS
  LockType,      \* models.LockType
  PresenceType   \* models.PresenceType

ASSUME CountAssumption == IsFiniteSet(Keys)

VARIABLES
  notifier,   \* where Run is, and the numbers it has counted
  seen        \* history: how many a FetchAll would have listed since the tick

notifierVars == <<notifier, seen>>

Counted == {LockType, PresenceType}

(* Mutant of Count: the rows that nobody holds are counted too.            *)
CountBlank(ty) == Cardinality({k \in Keys : rows[k] # NoRow /\ rows[k].type = ty})

(* SQLDB.Count: owner <> '' AND type = ?.                                  *)
Count(ty) == Cardinality({k \in Keys : Held(rows[k]) /\ rows[k].type = ty})

Waiting == [pc |-> "waiting", locks |-> 0, presences |-> 0]

NotifierInit ==
  /\ notifier = Waiting
  /\ seen = [ty \in Counted |-> {}]

Listed(ty) == Cardinality(FetchAll({ty}))

(* The history of a round, kept from the tick until its last number is     *)
(* sent; a step that changes the table adds to it.                         *)
Observe ==
  seen' = [ty \in Counted |-> IF notifier.pc \in {"waiting", "done"} THEN {}
                              ELSE seen[ty] \cup {Listed(ty)'}]

EndRound ==
  /\ notifier' = Waiting
  /\ seen' = [ty \in Counted |-> {}]

CountLocks ==
  /\ notifier.pc = "waiting"
  /\ notifier' = [notifier EXCEPT !.pc = "locks", !.locks = Count(LockType)]
  /\ seen' = [ty \in Counted |-> {Listed(ty)}]

CountPresences ==
  /\ notifier.pc = "locks"
  /\ notifier' = [notifier EXCEPT !.pc = "presences", !.presences = Count(PresenceType)]
  /\ UNCHANGED seen

(* Either count fails: nothing is sent at this tick.  (When the first one  *)
(* does, nothing has changed.)                                             *)
CountFails ==
  /\ notifier.pc = "locks"
  /\ EndRound

(* SendMetric of the locks, then of the presences; an error is logged and  *)
(* the round goes on.                                                      *)
SendLocks ==
  /\ notifier.pc = "presences"
  /\ notifier' = [notifier EXCEPT !.pc = "sent"]
  /\ UNCHANGED seen

SendPresences ==
  /\ notifier.pc = "sent"
  /\ EndRound

NotifierSignal ==
  /\ notifier.pc = "waiting"
  /\ notifier' = [notifier EXCEPT !.pc = "done"]
  /\ UNCHANGED seen

NotifierNext ==
  \/ CountLocks \/ CountPresences \/ CountFails
  \/ SendLocks \/ SendPresences \/ NotifierSignal

(* A number is sent as a gauge only if, at some moment since the tick, a   *)
(* FetchAll of that type would have listed as many locks                   *)
(* (metrics.go:46-66, Count at lock_db.go:211-224 against FetchAll at      *)
(* lock_db.go:154-209): the two numbers of a round may be of two moments,  *)
(* but neither is of no moment or of an earlier round.                     *)
SentCountsListed ==
  /\ notifier.pc = "presences" => notifier.locks \in seen[LockType]
  /\ notifier.pc = "sent" => notifier.presences \in seen[PresenceType]
=============================================================================
