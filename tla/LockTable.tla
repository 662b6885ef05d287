------------------------------ MODULE LockTable ------------------------------
(***************************************************************************)
(* The "locks" SQL table and what each operation of db.LockDB does to it   *)
(* when it runs as one atomic step.  The table is shared by every locket   *)
(* process that is pointed at the same database.                           *)
(*                                                                         *)
(* A row is what db/lock_db.go stores for a path, less the opaque value.   *)
(* LockDB.tla shows that the transactions of db/lock_db.go implement this  *)
(* specification; Expiration.tla builds the locket processes on top of it. *)
(***************************************************************************)
EXTENDS Integers, FiniteSets

CONSTANTS
  Keys,      \* lock names (the primary key "path")
  Owners,    \* non-empty owner strings
  Types,     \* values of the column "type"
  Guids,     \* what guidProvider.NextGUID can return (bounds re-creations)
  NoOwner,   \* the empty owner ""
  NoGuid,    \* the empty modified_id ""
  NoRow,     \* no row with this path
  MaxTTL,    \* largest time to live
  MaxIndex,  \* bound on modified_index
  LegacyIndexes  \* modified_index of the rows the database may start with

Ids == Guids \cup {NoGuid}

Row == [owner : Owners \cup {NoOwner}, type : Types,
        index : Nat, id : Ids, ttl : 0 .. MaxTTL]

Lock == [key : Keys, owner : Owners \cup {NoOwner}, type : Types,
         index : Nat, id : Ids, ttl : 0 .. MaxTTL]

ASSUME TableAssumption ==
  /\ MaxTTL \in Nat /\ MaxIndex \in Nat /\ LegacyIndexes \subseteq Nat
  /\ NoOwner \notin Owners
  /\ NoGuid \notin Guids
  /\ NoRow \notin Row

VARIABLES
  rows,     \* the committed content of the table
  version   \* highest index committed so far under each path and id

tableVars == <<rows, version>>

-----------------------------------------------------------------------------
(* fetchLock: a missing row scans into zero values and an error.           *)
Scanned(r) ==
  IF r = NoRow THEN [owner |-> NoOwner, index |-> 0, id |-> NoGuid]
               ELSE [owner |-> r.owner, index |-> r.index, id |-> r.id]

AsLock(k, r) ==
  [key |-> k, owner |-> r.owner, type |-> r.type,
   index |-> r.index, id |-> r.id, ttl |-> r.ttl]

AsRow(l) ==
  [owner |-> l.owner, type |-> l.type, index |-> l.index,
   id |-> l.id, ttl |-> l.ttl]

(* guidProvider.NextGUID never repeats an id.                              *)
FreshGuids == {g \in Guids : \A k \in Keys : version[k][g] = 0}

(* The id is kept across refreshes; a row without one is given a new one.  *)
ModifiedIds(r) ==
  IF Scanned(r).id = NoGuid THEN FreshGuids ELSE {Scanned(r).id}

(* Mutant of Collides: a lock is taken from its owner.                     *)
CollidesNever(r, o) == FALSE

Collides(r, o) == Scanned(r).owner \notin {o, NoOwner}

(* Mutant of LockedRow: the ttl is stored in another unit.                 *)
LockedRowOtherUnit(r, o, ty, t, g) ==
  [owner |-> o, type |-> ty, index |-> Scanned(r).index + 1, id |-> g, ttl |-> 1000 * t]

(* The row that Lock writes over the row r it fetched.                     *)
LockedRow(r, o, ty, t, g) ==
  [owner |-> o, type |-> ty, index |-> Scanned(r).index + 1, id |-> g, ttl |-> t]

StoreRow(k, r) ==
  /\ rows' = [rows EXCEPT ![k] = r]
  /\ version' = [version EXCEPT ![k][r.id] = r.index]

-----------------------------------------------------------------------------
(* SQLDB.Lock on the success path: acquire, refresh or adopt a blank row.  *)
DBLock(k, o, ty, t) ==
  /\ ~Collides(rows[k], o)
  /\ Scanned(rows[k]).index < MaxIndex
  /\ \E g \in ModifiedIds(rows[k]) :
       StoreRow(k, LockedRow(rows[k], o, ty, t, g))

(* SQLDB.Release on the success path: only the owner is compared.          *)
Releasable(r, o) == r # NoRow /\ r.owner = o

DBRelease(k, o) ==
  /\ Releasable(rows[k], o)
  /\ rows' = [rows EXCEPT ![k] = NoRow]
  /\ UNCHANGED version

Held(r) == r # NoRow /\ r.owner # NoOwner

(* SQLDB.FetchAll; the empty lockType filters nothing (filter = Types).    *)
FetchAll(filter) ==
  {AsLock(k, rows[k]) : k \in {j \in Keys : Held(rows[j]) /\ rows[j].type \in filter}}

-----------------------------------------------------------------------------
(* Rows written before modified_id existed have no id.                     *)
LegacyRow == [owner : Owners \cup {NoOwner}, type : Types,
              index : LegacyIndexes, id : {NoGuid}, ttl : {0, MaxTTL}]

TableInit ==
  /\ rows \in [Keys -> LegacyRow \cup {NoRow}]
  /\ version = [k \in Keys |-> [i \in Ids |->
       IF i = NoGuid /\ rows[k] # NoRow THEN rows[k].index ELSE 0]]

TableNext ==
  \/ \E k \in Keys, o \in Owners, ty \in Types, t \in 1 .. MaxTTL : DBLock(k, o, ty, t)
  \/ \E k \in Keys, o \in Owners \cup {NoOwner} : DBRelease(k, o)

TableSpec == TableInit /\ [][TableNext]_tableVars

-----------------------------------------------------------------------------
(* The row of a key carries the newest index committed under its id.       *)
RowsNewest ==
  \A k \in Keys : rows[k] # NoRow =>
    /\ rows[k].index = version[k][rows[k].id]
    /\ rows[k].id \in Guids => rows[k].index >= 1

(* What every use of the table preserves.                                  *)
TableInv ==
  /\ rows \in [Keys -> Row \cup {NoRow}]
  /\ version \in [Keys -> [Ids -> Nat]]
  /\ RowsNewest

(* A token is the modified_id and modified_index of the row, as the caller *)
(* of Lock and of Fetch gets them.                                         *)
Service == INSTANCE LockService WITH
  Nobody  <- NoOwner,
  NoToken <- <<NoGuid, 0>>,
  holder  <- [k \in Keys |-> Scanned(rows[k]).owner],
  token   <- [k \in Keys |-> <<Scanned(rows[k]).id, Scanned(rows[k]).index>>],
  issued  <- [k \in Keys |-> {v \in Ids \X (1 .. MaxIndex) : v[2] <= version[k][v[1]]}]

(* Whatever the table is used for, it is a lock service: a lock held by    *)
(* one owner is never given to another, and the modified_id and            *)
(* modified_index of a grant were never given before for that key, across  *)
(* releases and new ids (lock_db.go:31-88).  lockPick relies on the second *)
(* to tell a lock from a later one with the same owner.                    *)
ImplementsService == Service!ServiceSpec
=============================================================================
