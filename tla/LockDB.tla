------------------------------- MODULE LockDB --------------------------------
(***************************************************************************)
(* The transactions of db/lock_db.go, statement by statement: each of      *)
(* Lock, Release and Fetch selects the row FOR UPDATE (fetchLock), then    *)
(* decides, then writes and commits.  Several transactions, of one locket  *)
(* process or of several, are in progress at a time.                       *)
(*                                                                         *)
(* External: the database.  SELECT ... FOR UPDATE waits for the row lock   *)
(* and then reads the last committed row; on a path without a row it locks *)
(* nothing.  A write and its commit take effect together.  A transaction   *)
(* can fail at any statement.                                              *)
(***************************************************************************)
EXTENDS LockTable

CONSTANTS
  Txns,    \* transactions that can be in progress at a time
  NoTxn    \* no transaction

ASSUME TxnAssumption == NoTxn \notin Txns

VARIABLES
  rowLock,   \* the transaction holding the lock on the row of each path
  tx         \* the progress of each transaction

dbVars == <<rows, version, rowLock, tx>>

Ops == {"Lock", "Release", "Fetch"}

(* The arguments of a call; Release and Fetch ignore type and ttl.         *)
Call == [op : Ops, key : Keys, owner : Owners \cup {NoOwner},
         type : Types, ttl : 0 .. MaxTTL]

Idle == [pc |-> "idle"]

Progress ==
  {Idle} \cup [pc : {"fetch"}, call : Call]
         \cup [pc : {"write"}, call : Call, row : Row \cup {NoRow}]

DBTypeOK ==
  /\ rows \in [Keys -> Row \cup {NoRow}]
  /\ version \in [Keys -> [Ids -> Nat]]
  /\ rowLock \in [Keys -> Txns \cup {NoTxn}]
  /\ tx \in [Txns -> Progress]

-----------------------------------------------------------------------------
(* Mutant of Finish: a return path that leaves the transaction open.       *)
FinishKeepsRowLock(t) ==
  /\ tx' = [tx EXCEPT ![t] = Idle]
  /\ UNCHANGED rowLock

(* The transaction commits or rolls back: its row lock is given back.      *)
Finish(t) ==
  /\ tx' = [tx EXCEPT ![t] = Idle]
  /\ rowLock' = [k \in Keys |-> IF rowLock[k] = t THEN NoTxn ELSE rowLock[k]]

Begin(t, c) ==
  /\ tx[t] = Idle
  /\ tx' = [tx EXCEPT ![t] = [pc |-> "fetch", call |-> c]]
  /\ UNCHANGED <<rows, version, rowLock>>

(* SELECT ... FOR UPDATE can be answered: there is no row to lock, or the  *)
(* lock on it is free.                                                     *)
Readable(k) == rows[k] = NoRow \/ rowLock[k] = NoTxn

(* Mutant of Writes: Lock does not compare the owners.                     *)
WritesOverOthers(c, r) ==
  \/ c.op = "Lock"
  \/ c.op = "Release" /\ Releasable(r, c.owner)

(* What the operation does with the row it fetched: write, or return       *)
(* without writing (a collision, no row to release, or the end of Fetch).  *)
Writes(c, r) ==
  \/ c.op = "Lock" /\ ~Collides(r, c.owner)
  \/ c.op = "Release" /\ Releasable(r, c.owner)

(* Mutant of LockRow: fetchLock selects with NoLockRow.                    *)
NoLockRow(t, k) == UNCHANGED rowLock

(* LockRow in fetchLock keeps the row locked until the transaction ends.   *)
LockRow(t, k) ==
  rowLock' = IF rows[k] = NoRow THEN rowLock ELSE [rowLock EXCEPT ![k] = t]

FetchLock(t) ==
  /\ tx[t].pc = "fetch"
  /\ LET c == tx[t].call IN
     /\ Readable(c.key)
     /\ IF Writes(c, rows[c.key])
        THEN /\ tx' = [tx EXCEPT ![t] = [pc |-> "write", call |-> c, row |-> rows[c.key]]]
             /\ LockRow(t, c.key)
        ELSE Finish(t)
  /\ UNCHANGED <<rows, version>>

(* INSERT when fetchLock found no row, else UPDATE ... WHERE path = ?.     *)
LockWrite(c, r) ==
  /\ r = NoRow => rows[c.key] = NoRow
  /\ Scanned(r).index < MaxIndex
  /\ \E g \in ModifiedIds(r) :
       StoreRow(c.key, LockedRow(r, c.owner, c.type, c.ttl, g))

ReleaseWrite(c) ==
  /\ rows' = [rows EXCEPT ![c.key] = NoRow]
  /\ UNCHANGED version

Write(t) ==
  /\ tx[t].pc = "write"
  /\ \/ tx[t].call.op = "Lock" /\ LockWrite(tx[t].call, tx[t].row)
     \/ tx[t].call.op = "Release" /\ ReleaseWrite(tx[t].call)

(* The caller is told of the commit, or is given an error although the     *)
(* commit took effect; the table cannot tell the two apart.                *)
Commit(t) ==
  /\ Write(t)
  /\ Finish(t)

(* INSERT of a path that another transaction has inserted meanwhile.       *)
DuplicateKey(t) ==
  /\ tx[t].pc = "write"
  /\ tx[t].call.op = "Lock"
  /\ tx[t].row = NoRow
  /\ rows[tx[t].call.key] # NoRow
  /\ Finish(t)
  /\ UNCHANGED <<rows, version>>

(* A statement, NextGUID or the commit fails: nothing was written.         *)
Fail(t) ==
  /\ tx[t] # Idle
  /\ Finish(t)
  /\ UNCHANGED <<rows, version>>

-----------------------------------------------------------------------------
DBInit ==
  /\ TableInit
  /\ rowLock = [k \in Keys |-> NoTxn]
  /\ tx = [t \in Txns |-> Idle]

(* The handler lets Lock through only with an owner and a positive ttl.    *)
Calls ==
  [op : {"Lock"}, key : Keys, owner : Owners, type : Types, ttl : 1 .. MaxTTL]
    \cup [op : {"Release"}, key : Keys, owner : Owners \cup {NoOwner}, type : Types, ttl : {0}]
    \cup [op : {"Fetch"}, key : Keys, owner : {NoOwner}, type : Types, ttl : {0}]

DBNext ==
  \E t \in Txns :
    \/ \E c \in Calls : Begin(t, c)
    \/ FetchLock(t)
    \/ Commit(t)
    \/ DuplicateKey(t)
    \/ Fail(t)

DBSpec == DBInit /\ [][DBNext]_dbVars

(* The database grants a row lock to each waiting transaction in turn, and *)
(* answers every statement; it is not assumed to fail any.                 *)
DBFairSpec ==
  /\ DBSpec
  /\ \A t \in Txns : SF_dbVars(FetchLock(t)) /\ WF_dbVars(Commit(t) \/ DuplicateKey(t))

-----------------------------------------------------------------------------
(* A transaction that has fetched a row and not finished sees the row as   *)
(* it was: no other Lock or Release changes or deletes it in between       *)
(* (fetchLock's LockRow, lock_db.go:226-231).  Without it Lock would write *)
(* an index or an owner computed from a row that is gone.                  *)
FetchedRowStable ==
  \A t \in Txns :
    (tx[t].pc = "write" /\ tx[t].row # NoRow) => rows[tx[t].call.key] = tx[t].row

(* The transactions implement the atomic operations of LockTable: every    *)
(* commit of Lock or Release (lock_db.go:20-125) changes the table as one  *)
(* atomic Lock or Release would, so an index is never given twice under    *)
(* one id and a lock never passes from one owner to another directly.      *)
ImplementsTable == TableSpec

(* The model's bounds stop some Lock from committing.                      *)
AtBound ==
  \E t \in Txns :
    /\ tx[t].pc = "write" /\ tx[t].call.op = "Lock"
    /\ Scanned(tx[t].row).index >= MaxIndex \/ ModifiedIds(tx[t].row) = {}

(* Every call is answered, even if no statement ever fails: a transaction  *)
(* waits for a row lock (lock_db.go:226-231) only while its holder can     *)
(* still finish, and every return path of Lock, Release and Fetch ends the *)
(* transaction and gives the lock back.                                    *)
EveryCallAnswered == \A t \in Txns : (tx[t] # Idle) ~> (tx[t] = Idle \/ AtBound)

-----------------------------------------------------------------------------
(* The inductive invariant behind FetchedRowStable and ImplementsTable     *)

(* A transaction that goes on to write has found its operation allowed.    *)
Decided ==
  \A t \in Txns :
    /\ tx[t].pc # "idle" => tx[t].call \in Calls
    /\ tx[t].pc = "write" => Writes(tx[t].call, tx[t].row)

(* A row that was fetched in order to be written is locked.                *)
RowLocked ==
  \A t \in Txns :
    (tx[t].pc = "write" /\ tx[t].row # NoRow) => rowLock[tx[t].call.key] = t

DBIndInv == DBTypeOK /\ TableInv /\ Decided /\ RowLocked /\ FetchedRowStable
=============================================================================
