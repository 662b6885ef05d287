---------------------------- MODULE LockDBProofs -----------------------------
(***************************************************************************)
(* db/lock_db.go: the locks table is a lock service, whatever its callers  *)
(* do, and the transactions are atomic: with row locks, whatever fails and *)
(* however many are in progress, they implement LockTable, and so          *)
(* LockService.                                                            *)
(***************************************************************************)
EXTENDS LockDB, TLAPS

(* What SQLDB.Lock leaves behind: a row of the caller with an index that   *)
(* was never committed under its id, and nothing else changed.             *)
LEMMA LockWrites ==
  ASSUME TableInv,
         NEW k \in Keys, NEW o \in Owners, NEW ty \in Types, NEW t \in 1 .. MaxTTL,
         DBLock(k, o, ty, t)
  PROVE  /\ rows' \in [Keys -> Row \cup {NoRow}]
         /\ version' \in [Keys -> [Ids -> Nat]]
         /\ rows'[k] \in Row /\ rows'[k] # NoRow
         /\ rows'[k].owner = o /\ rows'[k].ttl = t
         /\ rows'[k].index = Scanned(rows[k]).index + 1
         /\ version[k][rows'[k].id] < rows'[k].index
         /\ version'[k][rows'[k].id] = rows'[k].index
         /\ \A j \in Keys : j # k => rows'[j] = rows[j]
         /\ \A j \in Keys, i \in Ids :
              (j # k \/ i # rows'[k].id) => version'[j][i] = version[j][i]
<1> USE TableAssumption DEF Ids
<1>1. PICK g \in ModifiedIds(rows[k]) : StoreRow(k, LockedRow(rows[k], o, ty, t, g))
  BY DEF DBLock
<1> DEFINE old == Scanned(rows[k])
           new == LockedRow(rows[k], o, ty, t, g)
<1>2. old.index \in Nat /\ old.id \in Ids
  BY DEF TableInv, Scanned, Row
<1>3. g \in Ids /\ version[k][g] <= old.index
  <2>1. CASE old.id = NoGuid
    BY <2>1, <1>1, <1>2 DEF ModifiedIds, FreshGuids, TableInv
  <2>2. CASE old.id # NoGuid
    BY <2>2, <1>1, <1>2 DEF ModifiedIds, Scanned, RowsNewest, TableInv, Row
  <2> QED
    BY <2>1, <2>2
<1>4. new.owner = o /\ new.ttl = t /\ new.id = g /\ new.index = old.index + 1
  BY DEF LockedRow
<1>5. new \in Row
  BY <1>2, <1>3 DEF LockedRow, Row
<1>6. rows' = [rows EXCEPT ![k] = new] /\ version' = [version EXCEPT ![k][g] = old.index + 1]
  BY <1>1, <1>4 DEF StoreRow
<1>7. rows'[k] = new /\ \A j \in Keys : j # k => rows'[j] = rows[j]
  BY <1>6 DEF TableInv
<1>8. /\ version' \in [Keys -> [Ids -> Nat]]
      /\ version'[k][g] = old.index + 1
      /\ \A j \in Keys, i \in Ids : (j # k \/ i # g) => version'[j][i] = version[j][i]
  <2> DEFINE n == old.index + 1
  <2>1. n \in Nat /\ version \in [Keys -> [Ids -> Nat]] /\ g \in Ids
    <3>1. n \in Nat
      BY <1>2
    <3> QED
      BY Zenon, <3>1, <1>3 DEF TableInv
  <2>2. version' = [version EXCEPT ![k][g] = n]
    BY <1>6
  <2> HIDE DEF n
  <2>3. version' \in [Keys -> [Ids -> Nat]]
    BY Zenon, <2>1, <2>2
  <2>4. version'[k][g] = n
    BY <2>1, <2>2
  <2>5. \A j \in Keys, i \in Ids : (j # k \/ i # g) => version'[j][i] = version[j][i]
    BY <2>1, <2>2
  <2> QED
    BY Zenon, <2>3, <2>4, <2>5 DEF n
<1>9. rows' \in [Keys -> Row \cup {NoRow}]
  BY <1>5, <1>6 DEF TableInv
<1>10. version[k][g] < new.index
  BY <1>2, <1>3, <1>4 DEF TableInv
<1> HIDE DEF new
<1> QED
  BY Zenon, <1>4, <1>5, <1>7, <1>8, <1>9, <1>10

-----------------------------------------------------------------------------
(* A table that is empty, or has legacy rows.                              *)
LEMMA TableInitInv == TableInit => TableInv
<1> SUFFICES ASSUME TableInit PROVE TableInv
  OBVIOUS
<1> USE TableAssumption DEF Ids
<1>1. LegacyRow \subseteq Row
  <2>1. {0, MaxTTL} \subseteq 0 .. MaxTTL
    BY SMT
  <2> QED
    BY <2>1, Zenon DEF LegacyRow, Row
<1>2. rows \in [Keys -> Row \cup {NoRow}]
  BY <1>1 DEF TableInit
<1>3. version \in [Keys -> [Ids -> Nat]]
  BY <1>2 DEF TableInit, Row
<1>4. RowsNewest
  BY DEF TableInit, LegacyRow, RowsNewest
<1> QED
  BY Zenon, <1>2, <1>3, <1>4 DEF TableInv

(* Lock gives the row an index that is the newest under its id.            *)
LEMMA DBLockInv ==
  ASSUME TableInv, NEW k \in Keys, NEW o \in Owners, NEW ty \in Types, NEW t \in 1 .. MaxTTL,
         DBLock(k, o, ty, t)
  PROVE  TableInv'
<1>1. RowsNewest'
  <2> SUFFICES ASSUME NEW j \in Keys, rows'[j] # NoRow
               PROVE  /\ rows'[j].index = version'[j][rows'[j].id]
                      /\ rows'[j].id \in Guids => rows'[j].index >= 1
    BY DEF RowsNewest
  <2>1. CASE j = k
    BY <2>1, LockWrites DEF TableInv, Row
  <2>2. CASE j # k
    BY <2>2, LockWrites DEF TableInv, RowsNewest, Row
  <2> QED
    BY <2>1, <2>2
<1> QED
  BY Zenon, <1>1, LockWrites DEF TableInv

(* Release (lock_db.go:99-125) preserves TableInv.                         *)
LEMMA DBReleaseInv ==
  ASSUME TableInv, NEW k \in Keys, NEW o, DBRelease(k, o)
  PROVE  TableInv'
  BY DEF TableInv, RowsNewest, DBRelease

(* Lock and Release preserve TableInv.                                     *)
LEMMA TableNextInv == TableInv /\ [TableNext]_tableVars => TableInv'
<1>1. CASE UNCHANGED tableVars
  BY <1>1 DEF TableInv, RowsNewest, tableVars
<1> QED
  BY <1>1, DBLockInv, DBReleaseInv DEF TableNext

-----------------------------------------------------------------------------
(* The state of the service that a table stands for.                       *)
holderOf == [k \in Keys |-> Scanned(rows[k]).owner]
tokenOf == [k \in Keys |-> <<Scanned(rows[k]).id, Scanned(rows[k]).index>>]
issuedOf == [k \in Keys |-> {v \in Ids \X (1 .. MaxIndex) : v[2] <= version[k][v[1]]}]

(* Lock on its success path is a grant with a new token.                   *)
LEMMA LockGrants ==
  ASSUME TableInv, NEW k \in Keys, NEW o \in Owners, NEW ty \in Types, NEW t \in 1 .. MaxTTL,
         DBLock(k, o, ty, t)
  PROVE  Service!Grant(k, o)
<1> USE TableAssumption DEF Ids
<1> DEFINE new == rows'[k]
<1>1. /\ new \in Row /\ new # NoRow /\ new.owner = o
      /\ new.index = Scanned(rows[k]).index + 1
      /\ version[k][new.id] < new.index
      /\ version'[k][new.id] = new.index
      /\ \A j \in Keys : j # k => rows'[j] = rows[j]
      /\ \A j \in Keys, i \in Ids : (j # k \/ i # new.id) => version'[j][i] = version[j][i]
      /\ version' \in [Keys -> [Ids -> Nat]]
  BY Zenon, LockWrites
<1>2. Scanned(new).owner = o /\ Scanned(new).id = new.id /\ Scanned(new).index = new.index
  BY <1>1 DEF Scanned
<1>3. new.index \in 1 .. MaxIndex /\ new.id \in Ids
  BY <1>1 DEF DBLock, Row, TableInv, Scanned
<1>4. holderOf[k] \in {NoOwner, o}
  BY DEF DBLock, Collides, holderOf
<1>5. holderOf' = [holderOf EXCEPT ![k] = o]
  BY Zenon, <1>1, <1>2 DEF holderOf
<1>6. tokenOf'[k] = <<new.id, new.index>>
  BY <1>2 DEF tokenOf
<1>7. tokenOf'[k] \notin issuedOf[k]
  BY <1>1, <1>3, <1>6 DEF issuedOf, TableInv
<1>8. tokenOf'[k] \in issuedOf'[k]
  BY <1>1, <1>3, <1>6 DEF issuedOf
<1>9. issuedOf[k] \subseteq issuedOf'[k]
  BY <1>1, <1>3 DEF issuedOf, TableInv
<1>10. ASSUME NEW j \in Keys \ {k} PROVE tokenOf'[j] = tokenOf[j] /\ issuedOf'[j] = issuedOf[j]
  BY <1>1 DEF tokenOf, issuedOf
<1> QED
  BY Zenon, <1>4, <1>5, <1>7, <1>8, <1>9, <1>10
     DEF Service!Grant, holderOf, tokenOf, issuedOf

(* Release is a Withdraw of the service: it leaves the path without a      *)
(* holder and every other path alone.                                      *)
LEMMA ReleaseWithdraws ==
  ASSUME TableInv, NEW k \in Keys, NEW o, DBRelease(k, o)
  PROVE  Service!Withdraw(k)
<1>1. rows' = [rows EXCEPT ![k] = NoRow] /\ version' = version
  BY DEF DBRelease
<1>2. holderOf' = [holderOf EXCEPT ![k] = NoOwner]
  BY Zenon, <1>1 DEF holderOf, Scanned, TableInv
<1>3. tokenOf' = [tokenOf EXCEPT ![k] = <<NoGuid, 0>>]
  BY Zenon, <1>1 DEF tokenOf, Scanned, TableInv
<1> QED
  BY Zenon, <1>1, <1>2, <1>3 DEF Service!Withdraw, holderOf, tokenOf

(* db/lock_db.go: every use of the locks table by Lock and Release is a    *)
(* lock service, in which a lock held by one owner is never given to       *)
(* another and every grant has a version that the key never had before.    *)
THEOREM TableIsService == TableSpec => ImplementsService
<1>1. TableInit => Service!ServiceInit
  <2> SUFFICES ASSUME TableInit PROVE Service!ServiceInit
    OBVIOUS
  <2>1. TableInv
    BY TableInitInv
  <2> QED
    BY <2>1 DEF TableInv, Row, Scanned, Service!ServiceInit
<1>2. TableInv /\ [TableNext]_tableVars
        => [Service!ServiceNext]_<<holderOf, tokenOf, issuedOf>>
  <2>1. CASE UNCHANGED tableVars
    BY <2>1 DEF tableVars, holderOf, tokenOf, issuedOf
  <2>2. ASSUME TableInv, NEW k \in Keys, NEW o \in Owners, NEW ty \in Types,
               NEW t \in 1 .. MaxTTL, DBLock(k, o, ty, t)
        PROVE  Service!ServiceNext
    BY <2>2, LockGrants DEF Service!ServiceNext
  <2>3. ASSUME TableInv, NEW k \in Keys, NEW o, DBRelease(k, o) PROVE Service!ServiceNext
    BY <2>3, ReleaseWithdraws DEF Service!ServiceNext
  <2> QED
    BY <2>1, <2>2, <2>3 DEF TableNext
<1> QED
  BY <1>1, <1>2, TableInitInv, TableNextInv, PTL
     DEF TableSpec, ImplementsService, Service!ServiceSpec, holderOf, tokenOf, issuedOf

-----------------------------------------------------------------------------
(* The transactions.                                                       *)
USE DEF Ids

(* What the type invariant says of one transaction.                        *)
LEMMA Progresses ==
  ASSUME DBTypeOK, NEW t \in Txns
  PROVE  /\ tx[t].pc \in {"idle", "fetch", "write"}
         /\ tx[t].pc = "idle" <=> tx[t] = Idle
         /\ tx[t].pc # "idle" => tx[t].call \in Call
         /\ tx[t].pc = "write" => tx[t].row \in Row \cup {NoRow}
  BY DEF DBTypeOK, Progress, Idle

(* The calls a client can make are well typed.                             *)
LEMMA CallsAreCalls == Calls \subseteq Call
<1>1. 1 .. MaxTTL \subseteq 0 .. MaxTTL /\ {0} \subseteq 0 .. MaxTTL
  BY TableAssumption
<1> QED
  BY Zenon, <1>1 DEF Calls, Call, Ops

(* The transactions that stay as they are keep their part of the invariant *)
(* if their row and their lock on it are left alone.                       *)
LEMMA OthersKeep ==
  ASSUME DBIndInv, NEW t \in Txns,
         DBTypeOK', TableInv',
         \A u \in Txns \ {t} : tx'[u] = tx[u],
         \A u \in Txns \ {t}, k \in Keys :
           (rowLock[k] = u /\ rows[k] # NoRow) => rowLock'[k] = u /\ rows'[k] = rows[k],
         tx'[t].pc # "idle" => tx'[t].call \in Calls,
         tx'[t].pc = "write" => /\ Writes(tx'[t].call, tx'[t].row)
                                /\ tx'[t].row # NoRow => /\ rowLock'[tx'[t].call.key] = t
                                                         /\ rows'[tx'[t].call.key] = tx'[t].row
  PROVE  DBIndInv'
<1>1. Decided'
  BY DEF DBIndInv, Decided, Writes, Releasable, Collides, Scanned
<1>2. ASSUME NEW u \in Txns, tx'[u].pc = "write", tx'[u].row # NoRow
      PROVE  rowLock'[tx'[u].call.key] = u /\ rows'[tx'[u].call.key] = tx'[u].row
  <2>1. CASE u = t
    BY <1>2, <2>1
  <2>2. CASE u # t
    <3>1. tx'[u] = tx[u]
      BY <2>2
    <3>2. tx[u].call.key \in Keys
      BY <3>1, <1>2, Progresses DEF DBIndInv, Call
    <3>3. rowLock[tx[u].call.key] = u /\ rows[tx[u].call.key] = tx[u].row
      BY <3>1, <1>2 DEF DBIndInv, RowLocked, FetchedRowStable
    <3> QED
      BY <3>1, <3>2, <3>3, <2>2, <1>2
  <2> QED
    BY <2>1, <2>2
<1>3. RowLocked' /\ FetchedRowStable'
  BY SMTT(30), <1>2 DEF RowLocked, FetchedRowStable
<1> QED
  BY <1>1, <1>3 DEF DBIndInv

(* A transaction that ends gives back its locks and no other.              *)
LEMMA FinishKeeps ==
  ASSUME DBIndInv, NEW t \in Txns, Finish(t), TableInv',
         \A k \in Keys : (rowLock[k] \in Txns \ {t} /\ rows[k] # NoRow) => rows'[k] = rows[k]
  PROVE  DBIndInv'
<1>1. tx' = [tx EXCEPT ![t] = Idle] /\ Idle \in Progress /\ Idle.pc = "idle"
  BY DEF Finish, Progress, Idle
<1>2. tx' \in [Txns -> Progress] /\ tx'[t] = Idle /\ \A u \in Txns \ {t} : tx'[u] = tx[u]
  BY <1>1 DEF DBIndInv, DBTypeOK
<1>3. rowLock' \in [Keys -> Txns \cup {NoTxn}]
  BY DEF Finish, DBIndInv, DBTypeOK
<1>4. DBTypeOK'
  BY Zenon, <1>2, <1>3 DEF DBTypeOK, TableInv
<1>5. \A u \in Txns \ {t}, k \in Keys :
        (rowLock[k] = u /\ rows[k] # NoRow) => rowLock'[k] = u /\ rows'[k] = rows[k]
  BY DEF Finish
<1> QED
  BY Zenon, <1>1, <1>2, <1>4, <1>5, OthersKeep

(* The begin of a transaction preserves DBIndInv: it has fetched and       *)
(* locked nothing.                                                         *)
LEMMA BeginStep ==
  ASSUME DBIndInv, NEW t \in Txns, NEW c \in Calls, Begin(t, c)
  PROVE  DBIndInv'
<1> DEFINE p == [pc |-> "fetch", call |-> c]
<1>1. p \in Progress /\ p.pc = "fetch" /\ p.call = c
  BY CallsAreCalls DEF Progress
<1>2. tx' = [tx EXCEPT ![t] = p] /\ UNCHANGED <<rows, version, rowLock>>
  BY DEF Begin
<1> HIDE DEF p
<1>3. tx' \in [Txns -> Progress] /\ tx'[t] = p /\ \A u \in Txns \ {t} : tx'[u] = tx[u]
  BY <1>1, <1>2 DEF DBIndInv, DBTypeOK
<1>4. DBTypeOK' /\ TableInv'
  BY Zenon, <1>2, <1>3 DEF DBIndInv, DBTypeOK, TableInv, RowsNewest
<1> QED
  BY <1>1, <1>2, <1>3, <1>4, OthersKeep

(* SELECT ... FOR UPDATE: the row it returns is free, or there is none.    *)
LEMMA FetchLockStep ==
  ASSUME DBIndInv, NEW t \in Txns, FetchLock(t)
  PROVE  DBIndInv'
<1> DEFINE c == tx[t].call
           r == rows[c.key]
           p == [pc |-> "write", call |-> c, row |-> r]
<1>1. c \in Call /\ c.key \in Keys /\ c \in Calls /\ r \in Row \cup {NoRow}
  <2>1. tx[t].pc = "fetch"
    BY DEF FetchLock
  <2>2. c \in Call /\ c \in Calls
    BY <2>1, Progresses DEF DBIndInv, Decided
  <2> QED
    BY <2>2 DEF Call, DBIndInv, DBTypeOK
<1>2. TableInv' /\ UNCHANGED <<rows, version>>
  BY Zenon DEF FetchLock, DBIndInv, TableInv, RowsNewest
<1>3. CASE Finish(t)
  BY <1>2, <1>3, FinishKeeps
<1>4. CASE Writes(c, r) /\ tx' = [tx EXCEPT ![t] = p] /\ LockRow(t, c.key)
  <2>1. p \in Progress /\ p.pc = "write" /\ p.call = c /\ p.row = r
    BY <1>1 DEF Progress
  <2> HIDE DEF p, c
  <2>2. tx' \in [Txns -> Progress] /\ tx'[t] = p /\ \A u \in Txns \ {t} : tx'[u] = tx[u]
    BY <1>4, <2>1 DEF DBIndInv, DBTypeOK
  <2>3. rowLock' \in [Keys -> Txns \cup {NoTxn}] /\ (r # NoRow => rowLock'[c.key] = t)
    BY <1>1, <1>4 DEF LockRow, DBIndInv, DBTypeOK
  <2>4. \A u \in Txns \ {t}, k \in Keys : rowLock[k] = u => rowLock'[k] = u
    <3>1. r = NoRow \/ rowLock[c.key] = NoTxn
      BY DEF FetchLock, Readable, c
    <3> QED
      BY <3>1, <1>1, <1>4, TxnAssumption DEF LockRow, DBIndInv, DBTypeOK
  <2>5. DBTypeOK'
    BY Zenon, <2>2, <2>3, <1>2 DEF DBIndInv, DBTypeOK
  <2> QED
    BY <1>1, <1>2, <1>4, <2>1, <2>2, <2>3, <2>4, <2>5, OthersKeep
<1> QED
  BY <1>3, <1>4 DEF FetchLock

-----------------------------------------------------------------------------
(* The row that a committing transaction writes over is the one it read.   *)
LEMMA CommitIsCurrent ==
  ASSUME DBIndInv, NEW t \in Txns, Commit(t)
  PROVE  /\ tx[t].call \in Calls /\ tx[t].call.key \in Keys
         /\ tx[t].row = rows[tx[t].call.key]
         /\ Writes(tx[t].call, tx[t].row)
<1>1. tx[t].pc = "write"
  BY DEF Commit, Write
<1>2. tx[t].call \in Calls /\ Writes(tx[t].call, tx[t].row)
  BY <1>1 DEF DBIndInv, Decided
<1>3. tx[t].call.key \in Keys
  BY <1>1, Progresses DEF DBIndInv, Call
<1>4. CASE tx[t].row # NoRow
  BY <1>1, <1>2, <1>3, <1>4 DEF DBIndInv, FetchedRowStable
<1>5. CASE tx[t].row = NoRow
  <2>1. tx[t].call.op = "Lock"
    BY <1>2, <1>5 DEF Writes, Releasable
  <2>2. LockWrite(tx[t].call, tx[t].row)
    BY <2>1 DEF Commit, Write
  <2> QED
    BY <1>2, <1>3, <1>5, <2>2 DEF LockWrite
<1> QED
  BY <1>4, <1>5

(* A commit is one atomic Lock or Release of the table.                    *)
LEMMA CommitIsTableStep ==
  ASSUME DBIndInv, NEW t \in Txns, Commit(t)
  PROVE  TableNext
<1> DEFINE c == tx[t].call
           r == tx[t].row
<1>1. c \in Calls /\ c.key \in Keys /\ r = rows[c.key] /\ Writes(c, r)
  BY CommitIsCurrent
<1>2. \/ c.op = "Lock" /\ LockWrite(c, r)
      \/ c.op = "Release" /\ ReleaseWrite(c)
  BY DEF Commit, Write
<1> HIDE DEF c, r
<1>3. CASE c.op = "Lock" /\ LockWrite(c, r)
  <2>1. c.owner \in Owners /\ c.type \in Types /\ c.ttl \in 1 .. MaxTTL
    BY <1>1, <1>3 DEF Calls
  <2>2. ~Collides(r, c.owner)
    BY <1>1, <1>3 DEF Writes
  <2>3. DBLock(c.key, c.owner, c.type, c.ttl)
    BY <1>1, <1>3, <2>2 DEF LockWrite, DBLock
  <2> QED
    BY <1>1, <2>1, <2>3 DEF TableNext
<1>4. CASE c.op = "Release" /\ ReleaseWrite(c)
  <2>1. c.owner \in Owners \cup {NoOwner}
    BY <1>1 DEF Calls
  <2>2. DBRelease(c.key, c.owner)
    BY <1>1, <1>4 DEF Writes, ReleaseWrite, DBRelease
  <2> QED
    BY <1>1, <2>1, <2>2 DEF TableNext
<1> QED
  BY <1>2, <1>3, <1>4

(* It changes one row, which no other transaction has locked.              *)
LEMMA CommitStep ==
  ASSUME DBIndInv, NEW t \in Txns, Commit(t)
  PROVE  DBIndInv'
<1> DEFINE k0 == tx[t].call.key
<1>1. k0 \in Keys /\ tx[t].row = rows[k0] /\ tx[t].pc = "write"
  BY CommitIsCurrent DEF Commit, Write
<1>2. TableInv'
  BY SMTT(30), CommitIsTableStep, TableNextInv DEF DBIndInv
<1>3. \A k \in Keys : k # k0 => rows'[k] = rows[k]
  BY Zenon DEF Commit, Write, LockWrite, ReleaseWrite, StoreRow, DBIndInv, DBTypeOK
<1>4. rowLock[k0] \notin Txns \ {t} \/ rows[k0] = NoRow
  BY <1>1 DEF DBIndInv, RowLocked
<1>5. Finish(t)
  BY DEF Commit
<1> QED
  BY <1>2, <1>3, <1>4, <1>5, FinishKeeps

(* Every step of a transaction, failures included, preserves DBIndInv.     *)
LEMMA DBNextInv == DBIndInv /\ [DBNext]_dbVars => DBIndInv'
<1> SUFFICES ASSUME DBIndInv, [DBNext]_dbVars PROVE DBIndInv'
  BY SMTT(30)
<1>1. CASE UNCHANGED dbVars
  BY Zenon, <1>1 DEF dbVars, DBIndInv, DBTypeOK, TableInv, RowsNewest, Decided, RowLocked,
       FetchedRowStable
<1>2. ASSUME NEW t \in Txns, DuplicateKey(t) \/ Fail(t) PROVE DBIndInv'
  <2>1. Finish(t) /\ UNCHANGED <<rows, version>>
    BY <1>2 DEF DuplicateKey, Fail
  <2>2. TableInv'
    BY Zenon, <2>1 DEF DBIndInv, TableInv, RowsNewest
  <2> QED
    BY <2>1, <2>2, FinishKeeps
<1> QED
  BY <1>1, <1>2, BeginStep, FetchLockStep, CommitStep DEF DBNext

(* DBIndInv holds before the first transaction.                            *)
LEMMA DBInitInv == DBInit => DBIndInv
<1> SUFFICES ASSUME DBInit PROVE DBIndInv
  OBVIOUS
<1>1. TableInv
  BY TableInitInv DEF DBInit
<1>2. \A t \in Txns : tx[t] = Idle /\ tx[t].pc = "idle"
  BY DEF DBInit, Idle
<1>3. DBTypeOK
  BY Zenon, <1>1, <1>2 DEF DBInit, DBTypeOK, TableInv, Progress
<1> QED
  BY <1>1, <1>2, <1>3 DEF DBIndInv, Decided, RowLocked, FetchedRowStable

-----------------------------------------------------------------------------
(* The invariant of the transactions, for any number of them.              *)
THEOREM DBInvariance == DBSpec => []DBIndInv
  BY DBInitInv, DBNextInv, PTL DEF DBSpec

(* Type correctness of the table, the row locks and the transactions.      *)
THEOREM DBTypeCorrect == DBSpec => []DBTypeOK
<1>1. DBIndInv => DBTypeOK
  BY DEF DBIndInv
<1> QED
  BY <1>1, DBInvariance, PTL

(* lock_db.go:226-231: no transaction changes or deletes a row that        *)
(* another has fetched in order to write it.                               *)
THEOREM FetchedRowsStay == DBSpec => []FetchedRowStable
<1>1. DBIndInv => FetchedRowStable
  BY DEF DBIndInv
<1> QED
  BY <1>1, DBInvariance, PTL

(* lock_db.go:20-125: the transactions are atomic.  To the table each is a *)
(* single Lock or Release, or nothing.                                     *)
THEOREM TransactionsAreAtomic == DBSpec => ImplementsTable
<1>1. DBInit => TableInit
  BY DEF DBInit
<1>2. DBIndInv /\ [DBNext]_dbVars => [TableNext]_tableVars
  <2> SUFFICES ASSUME DBIndInv, [DBNext]_dbVars, ~UNCHANGED tableVars PROVE TableNext
    OBVIOUS
  <2>1. PICK t \in Txns : Commit(t)
    BY DEF DBNext, dbVars, tableVars, Begin, FetchLock, DuplicateKey, Fail
  <2> QED
    BY <2>1, CommitIsTableStep
<1> QED
  BY <1>1, <1>2, DBInvariance, PTL DEF DBSpec, ImplementsTable, TableSpec

(* The transactions provide the lock service that clients rely on.         *)
THEOREM TransactionsAreService == DBSpec => ImplementsService
  BY TransactionsAreAtomic, TableIsService DEF ImplementsTable
=============================================================================
