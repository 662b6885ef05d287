------------------------------ MODULE MCLockDB -------------------------------
(* Instances of LockDB for TLC.                                            *)
EXTENDS LockDB

CONSTANTS k1, o1, o2, g1, g2, t1, t2, t3

MCKeys == {k1}
MCOwners == {o1, o2}
MCGuids == {g1, g2}
MCTxns == {t1, t2, t3}
=============================================================================
