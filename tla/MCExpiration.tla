---------------------------- MODULE MCExpiration -----------------------------
(* Instances of Expiration for TLC.                                        *)
EXTENDS Expiration

CONSTANTS k1, o1, o2, g1, g2, s1, s2

MCKeys == {k1}
OneOwner == {o1}
TwoOwners == {o1, o2}
OneGuid == {g1}
TwoGuids == {g1, g2}
OneServer == {s1}
TwoServers == {s1, s2}
=============================================================================
