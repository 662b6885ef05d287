----------------------------- MODULE MCLocketAPI -----------------------------
(* An instance of LocketAPI for TLC.                                       *)
EXTENDS LocketAPI, TLC

CONSTANTS g1, g2

MCGuids == {g1, g2}
GuidSymmetry == Permutations(MCGuids)
MCKeys == {<<1>>, <<2, 2>>}
MCOwners == {<<7>>}
MCLockType == <<3, 3>>
MCPresenceType == <<4>>
MCTypes == {<<>>, MCLockType, MCPresenceType}
MCEmpty == <<>>

(* Long enough for a length of two bytes.                                  *)
Long == [i \in 1 .. 130 |-> 9]

(* An empty table, and one with a legacy row that nobody holds or that has *)
(* no type.                                                                *)
Legacy(o, ty) == [owner |-> o, type |-> ty, index |-> 0, id |-> NoGuid, ttl |-> 0]
LegacyTables ==
  {[k \in MCKeys |-> IF k = <<1>> THEN row ELSE NoRow] :
     row \in {NoRow, Legacy(<<>>, MCLockType), Legacy(<<7>>, <<>>)}}

Resource(k, o, v, ty, c) == [key |-> k, owner |-> o, value |-> v, type |-> ty, code |-> c]
Request(method, msg) == [method |-> method, msg |-> msg, extra |-> <<>>]
LockOf(r, t) == Request("Lock", [resource |-> r, ttl |-> t])

(* A type given by its name, by its code, by both, by both that disagree,  *)
(* or not at all, and types and codes that there are not.                  *)
Typings ==
  ({<<>>, MCLockType} \X {-1, 0, 1, 2, 3}) \cup {<<MCPresenceType, 0>>, <<<<5>>, 0>>, <<<<5>>, 1>>}

(* Fields 6 and 200 of every wire type: a varint, eight bytes, a string, a *)
(* group with a field in it, four bytes.                                   *)
Extras ==
  {<<48, 129, 1>>, <<49, 0, 0, 0, 0, 0, 0, 0, 0>>, <<50, 2, 10, 1>>,
   <<51, 8, 5, 52>>, <<53, 1, 2, 3, 4>>, <<192, 12, 0>>}

MCRequests ==
  {LockOf(Resource(<<1>>, <<7>>, <<>>, y[1], y[2]), 300) : y \in Typings}
    \cup {LockOf(Resource(<<2, 2>>, <<7>>, v, <<>>, 2), 1) : v \in {<<>>, Long}}
    \cup {LockOf(Resource(<<2, 2>>, <<7>>, <<>>, <<>>, 2), t) : t \in {-1, 0}}
    \cup {LockOf(Resource(<<2, 2>>, <<>>, <<>>, <<>>, 2), 1), LockOf(Nil, 1)}
    \cup {[LockOf(Resource(<<1>>, <<7>>, <<>>, <<>>, 1), 300) EXCEPT !.extra = x] : x \in Extras}
    \cup {Request("Release", [resource |-> Resource(k, o, <<>>, <<>>, 0)]) :
            k \in MCKeys, o \in {<<>>, <<7>>}}
    \cup {Request("Release", [resource |-> Nil])}
    \cup {Request("Fetch", [key |-> k]) : k \in MCKeys}
    \cup {Request("FetchAll", [type |-> y[1], code |-> y[2]]) : y \in Typings}
=============================================================================
