-------------------- MODULE LocketAPIProofs --------------------
(***************************************************************************)
(* The Locket service as its clients see it (LocketAPI): the inductive     *)
(* invariant, the properties of the service that follow from it, and that  *)
(* the service implements the lock table behind the wire.                  *)
(*                                                                         *)
(* The invariant relates a call in flight to the bytes that stand for it   *)
(* and to the table: a request in a buffer is a message a client sent, an  *)
(* answer was right when the handler gave it, and the lines the metrics    *)
(* notifier has still to send count rows of one snapshot.                  *)
(***************************************************************************)
EXTENDS LocketAPI, LocketMessageProofs, LockDBProofs, FiniteSetTheorems
-----------------------------------------------------------------------------
(* The replies of each method.                                             *)
SentReplies(method) ==
  CASE method \in {"Lock", "Release"} -> {<<>>}
    [] method = "Fetch" -> [resource : SentResources]
    [] method = "FetchAll" -> SentFetchAllResponses

(* The call q once its request is on the wire.                             *)
CallSent(q) ==
  [pc |-> "sent", method |-> q.method, msg |-> q.msg, extra |-> q.extra,
   bytes |-> IF q.extra = <<>> THEN RequestBytes(q.method, q.msg) ELSE NewerBytes(q.msg, q.extra)]

(* The call q once the handler's answer m is on the wire, without the rows *)
(* of the keys in lost.                                                    *)
CallReplied(q, m, lost) ==
  [pc |-> "replied", method |-> q.method, msg |-> q.msg,
   reply |-> m, lost |-> lost, bytes |-> ReplyBytes(q.method, m)]

(* The call in progress is one of the requests, or the answer to one.      *)
CallInv ==
  \/ rpc = NoCall
  \/ \E q \in Requests : rpc = CallSent(q)
  \/ \E q \in Requests : \E m \in SentReplies(q.method) : \E lost \in SUBSET Keys :
       rpc = CallReplied(q, m, lost)

(* The row and the value of a key are what the last Lock asked for.        *)
GrantedInv ==
  /\ value \in [Keys -> Strings]
  /\ granted \in [Keys -> ClientResources \cup {Nil}]
  /\ \A k \in Keys : granted[k] # Nil =>
       /\ rows[k] # NoRow /\ rows[k].owner = granted[k].owner
       /\ rows[k].type = Means(granted[k]) /\ value[k] = granted[k].value /\ granted[k].key = k

(* The locks of a type that somebody holds.                                *)
HeldOf(ty) == {k \in Keys : Held(rows[k]) /\ rows[k].type = ty}

(* The table has not changed since the answer was made.                    *)
AnswerInv ==
  rpc # NoCall /\ rpc.pc = "replied" =>
    /\ rpc.method = "Fetch" => rpc.msg.key \in Keys /\ rpc.reply.resource = AsResource(rpc.msg.key)
    /\ rpc.method = "FetchAll" =>
         Range(rpc.reply.resources) = {AsResource(k) : k \in HeldOf(Means(rpc.msg)) \ rpc.lost}

(* What was counted at this tick was listed since.                         *)
NotifierInv ==
  /\ seen \in [Counted -> SUBSET Nat]
  /\ notifier.pc = "locks" => Listed(PresenceType) \in seen[PresenceType]
  /\ notifier.pc \in {"locks", "presences"} => notifier.locks \in seen[LockType]
  /\ notifier.pc \in {"presences", "sent"} => notifier.presences \in seen[PresenceType]

-----------------------------------------------------------------------------
(* The requests are messages that Marshal takes.                           *)
LEMMA ClientsSend ==
  /\ ClientResources \subseteq SentResources
  /\ ClientMessages("Lock") \subseteq SentLockRequests
  /\ ClientMessages("Release") \subseteq SentCarriers
  /\ ClientMessages("Fetch") \subseteq SentFetchRequests
  /\ ClientMessages("FetchAll") \subseteq SentFetchAllRequests
<1>1. NoOwner \in Strings
  <2>1. Pow2[WordBits - 5] \in Nat
    BY Room
  <2> QED BY <2>1, APIAssumption DEF Strings, Bytes
<1>2. ClientResources \subseteq SentResources
  BY <1>1, APIAssumption DEF ClientResources, SentResources
<1>3. ClientMessages("Lock") \subseteq SentLockRequests
  BY <1>2 DEF ClientMessages, SentLockRequests
<1>4. ClientMessages("Release") \subseteq SentCarriers
  BY <1>2 DEF ClientMessages, SentCarriers
<1>5. ClientMessages("Fetch") \subseteq SentFetchRequests
  BY APIAssumption DEF ClientMessages, SentFetchRequests
<1>6. ClientMessages("FetchAll") \subseteq SentFetchAllRequests
  BY DEF ClientMessages, SentFetchAllRequests
<1> QED BY SMTT(30), <1>2, <1>3, <1>4, <1>5, <1>6

(* The server decodes the message of a request, whatever version the       *)
(* client has.                                                             *)
LEMMA SentTravels ==
  ASSUME NEW q \in Requests
  PROVE  /\ ServerDecodes(q.method, CallSent(q).bytes) = Read(q.msg, Len(CallSent(q).bytes) + 1)
         /\ q.extra = <<>> => Len(CallSent(q).bytes) = SizeRequest(q.method, q.msg)
<1> DEFINE b == CallSent(q).bytes
<1>1. /\ q.method \in {"Lock", "Release", "Fetch", "FetchAll"}
      /\ q.msg \in ClientMessages(q.method)
      /\ q.extra # <<>> => q.method = "Lock" /\ q.msg.resource # Nil /\ LaterField(q.extra)
  BY APIAssumption
<1>2. b = IF q.extra = <<>> THEN RequestBytes(q.method, q.msg) ELSE NewerBytes(q.msg, q.extra)
  BY DEF CallSent
<1> HIDE DEF b
<1>3. CASE q.extra # <<>>
  <2>1. q.msg \in SentLockRequests /\ q.method = "Lock"
    BY SMTT(30), <1>1, <1>3, ClientsSend
  <2>2. q.msg.resource \in SentResources /\ q.msg.ttl \in IntsOf(WordBits)
        /\ q.msg = LockMessage(q.msg.resource, q.msg.ttl)
    BY SMTT(30), <1>1, <1>3, <2>1 DEF SentLockRequests, LockMessage
  <2>3. b = Newer(q.msg.resource, q.msg.ttl, q.extra)
    BY Zenon, <1>2, <1>3 DEF NewerBytes, Newer
  <2>4. UnmarshalLockRequest(b) = Read(q.msg, Len(b) + 1)
    BY SMTT(30), <1>1, <1>3, <2>2, <2>3, NewerTrip
  <2> QED BY SMTT(30), <1>3, <2>1, <2>4 DEF ServerDecodes, b
<1>4. CASE q.extra = <<>>
  <2>1. b = RequestBytes(q.method, q.msg)
    BY <1>2, <1>4
  <2>2. CASE q.method = "Lock"
    <3>1. q.msg \in SentLockRequests
      BY SMTT(30), <1>1, <2>2, ClientsSend
    <3>2. b = MarshalLockRequest(q.msg)
      BY <2>1, <2>2 DEF RequestBytes
    <3>3. UnmarshalLockRequest(b) = Read(q.msg, Len(b) + 1) /\ Len(b) = SizeLockRequest(q.msg)
      BY <3>1, <3>2, RequestsTravel, SizesExact, ZenonT(60)
    <3> QED BY SMTT(30), <2>2, <3>3 DEF ServerDecodes, SizeRequest, b
  <2>3. CASE q.method = "Release"
    <3>1. q.msg \in SentCarriers
      BY SMTT(30), <1>1, <2>3, ClientsSend
    <3>2. b = MarshalReleaseRequest(q.msg)
      BY <2>1, <2>3 DEF RequestBytes
    <3>3. UnmarshalReleaseRequest(b) = Read(q.msg, Len(b) + 1) /\ Len(b) = SizeReleaseRequest(q.msg)
      BY <3>1, <3>2, RequestsTravel, SizesExact, ZenonT(60)
    <3> QED BY SMTT(30), <2>3, <3>3 DEF ServerDecodes, SizeRequest, b
  <2>4. CASE q.method = "Fetch"
    <3>1. q.msg \in SentFetchRequests
      BY SMTT(30), <1>1, <2>4, ClientsSend
    <3>2. b = MarshalFetchRequest(q.msg)
      BY SMTT(30), <2>1, <2>4 DEF RequestBytes
    <3>3. UnmarshalFetchRequest(b) = Read(q.msg, Len(b) + 1) /\ Len(b) = SizeFetchRequest(q.msg)
      BY <3>1, <3>2, RequestsTravel, SizesExact, ZenonT(60)
    <3> QED BY SMTT(30), <2>4, <3>3 DEF ServerDecodes, SizeRequest, b
  <2>5. CASE q.method = "FetchAll"
    <3>1. q.msg \in SentFetchAllRequests
      BY SMTT(30), <1>1, <2>5, ClientsSend
    <3>2. b = MarshalFetchAllRequest(q.msg)
      BY SMTT(30), <2>1, <2>5 DEF RequestBytes
    <3>3. UnmarshalFetchAllRequest(b) = Read(q.msg, Len(b) + 1) /\ Len(b) = SizeFetchAllRequest(q.msg)
      BY <3>1, <3>2, RequestsTravel, SizesExact, ZenonT(60)
    <3> QED BY SMTT(30), <2>5, <3>3 DEF ServerDecodes, SizeRequest, b
  <2> QED BY SMTT(30), <1>1, <2>2, <2>3, <2>4, <2>5
<1> QED BY <1>3, <1>4

(* The client decodes the reply that the handler returned.                 *)
LEMMA ReplyTravels ==
  ASSUME NEW method \in {"Lock", "Release", "Fetch", "FetchAll"}, NEW m \in SentReplies(method)
  PROVE  /\ ClientDecodes(method, ReplyBytes(method, m)) = Read(m, Len(ReplyBytes(method, m)) + 1)
         /\ Len(ReplyBytes(method, m)) = SizeReply(method, m)
<1>1. CASE method = "Lock"
  <2>1. m = <<>>
    BY <1>1 DEF SentReplies
  <2>2. ReplyBytes(method, m) = MarshalLockResponse(<<>>) /\ Len(MarshalLockResponse(<<>>)) = 0
    BY SMTT(30), <1>1, <2>1 DEF ReplyBytes, MarshalLockResponse
  <2>3. ClientDecodes(method, ReplyBytes(method, m)) = UnmarshalLockResponse(MarshalLockResponse(<<>>))
    BY SMTT(30), <1>1, <2>2 DEF ClientDecodes
  <2>4. SizeReply(method, m) = 0
    BY <1>1 DEF SizeReply, SizeLockResponse
  <2> QED BY <2>1, <2>2, <2>3, <2>4, RepliesTravel, Zenon
<1>2. CASE method = "Release"
  <2>1. m = <<>>
    BY <1>2 DEF SentReplies
  <2>2. ReplyBytes(method, m) = MarshalReleaseResponse(<<>>) /\ Len(MarshalReleaseResponse(<<>>)) = 0
    BY <1>2, <2>1 DEF ReplyBytes, MarshalReleaseResponse
  <2>3. ClientDecodes(method, ReplyBytes(method, m)) = UnmarshalReleaseResponse(MarshalReleaseResponse(<<>>))
    BY <1>2, <2>2 DEF ClientDecodes
  <2>4. SizeReply(method, m) = 0
    BY <1>2 DEF SizeReply, SizeReleaseResponse
  <2> QED BY <2>1, <2>2, <2>3, <2>4, RepliesTravel, Zenon
<1>3. CASE method = "Fetch"
  <2>1. m \in SentCarriers
    BY <1>3 DEF SentReplies, SentCarriers
  <2>2. ReplyBytes(method, m) = MarshalFetchResponse(m) /\ SizeReply(method, m) = SizeFetchResponse(m)
    BY <1>3 DEF ReplyBytes, SizeReply
  <2>3. ClientDecodes(method, ReplyBytes(method, m)) = UnmarshalFetchResponse(MarshalFetchResponse(m))
    BY <1>3, <2>2 DEF ClientDecodes
  <2> QED BY <2>1, <2>2, <2>3, RepliesTravel, SizesExact, Zenon
<1>4. CASE method = "FetchAll"
  <2>1. m \in SentFetchAllResponses
    BY <1>4 DEF SentReplies
  <2>2. ReplyBytes(method, m) = MarshalFetchAllResponse(m) /\ SizeReply(method, m) = SizeFetchAllResponse(m)
    BY <1>4 DEF ReplyBytes, SizeReply
  <2>3. ClientDecodes(method, ReplyBytes(method, m)) = UnmarshalFetchAllResponse(MarshalFetchAllResponse(m))
    BY SMTT(30), <1>4, <2>2 DEF ClientDecodes
  <2> QED BY <2>1, <2>2, <2>3, RepliesTravel, SizesExact, Zenon
<1> QED BY SMTT(30), <1>1, <1>2, <1>3, <1>4

(* Of the call in progress.                                                *)
LEMMA CallTravels ==
  ASSUME CallInv
  PROVE  SizeExact /\ RoundTrip
<1>1. CASE rpc = NoCall
  BY <1>1 DEF SizeExact, RoundTrip
<1>2. ASSUME NEW q \in Requests, rpc = CallSent(q) PROVE SizeExact /\ RoundTrip
  <2>1. rpc.pc = "sent" /\ rpc.method = q.method /\ rpc.msg = q.msg /\ rpc.extra = q.extra
    BY <1>2 DEF CallSent
  <2>2. rpc.bytes = CallSent(q).bytes
    BY <1>2
  <2>3. "sent" # "replied"
    OBVIOUS
  <2> QED BY <2>1, <2>2, <2>3, SentTravels, Zenon DEF SizeExact, RoundTrip
<1>3. ASSUME NEW q \in Requests, NEW m \in SentReplies(q.method), NEW lost, rpc = CallReplied(q, m, lost)
      PROVE  SizeExact /\ RoundTrip
  <2>1. rpc.pc = "replied" /\ rpc.method = q.method /\ rpc.reply = m /\ rpc.bytes = ReplyBytes(q.method, m)
    BY <1>3 DEF CallReplied
  <2>2. q.method \in {"Lock", "Release", "Fetch", "FetchAll"}
    BY APIAssumption
  <2>3. "sent" # "replied"
    OBVIOUS
  <2> QED BY <2>1, <2>2, <2>3, ReplyTravels, Zenon DEF SizeExact, RoundTrip
<1> QED BY SMTT(30), <1>1, <1>2, <1>3 DEF CallInv

-----------------------------------------------------------------------------
(* What the handlers do.                                                   *)

(* A request that passes validate means the type that the handler uses.    *)
LEMMA TypeMeant ==
  ASSUME NEW r, Validate(r.type, r.code)
  PROVE  GetType(r) = Means(r) /\ Means(r) \in Counted
<1>1. LockType # PresenceType /\ <<>> \notin Counted /\ Counted = {LockType, PresenceType}
  BY APIAssumption DEF Counted
<1>2. CASE r.code = 0 /\ r.type \in Counted
  BY SMTT(30), <1>1, <1>2 DEF GetType, Means
<1>3. CASE r.code = 1 /\ r.type \in {<<>>, LockType}
  BY SMTT(30), <1>1, <1>3 DEF GetType, Means
<1>4. CASE r.code = 2 /\ r.type \in {<<>>, PresenceType}
  BY SMTT(30), <1>1, <1>4 DEF GetType, Means
<1> QED BY SMTT(30), <1>2, <1>3, <1>4 DEF Validate, GetType

(* GetResource keeps all but the type and its code.                        *)
LEMMA ResourceGot ==
  ASSUME NEW r \in ClientResources, Validate(r.type, r.code)
  PROVE  LET g == GetResource(r)
         IN  g.key = r.key /\ g.owner = r.owner /\ g.value = r.value /\ g.type = Means(r)
<1>1. GetType(r) = Means(r)
  BY TypeMeant
<1>2. CASE r.code = 0
  <2>1. GetType(r) = r.type
    BY <1>2 DEF GetType
  <2> QED BY SMTT(30), <1>1, <1>2, <2>1 DEF GetResource, ClientResources
<1>3. CASE r.code # 0
  BY SMTT(30), <1>1, <1>3 DEF GetResource, ClientResources
<1> QED BY SMTT(30), <1>2, <1>3

(* A handler works on the message that the client sent.                    *)
LEMMA ArrivedSent ==
  ASSUME CallInv, NEW method, NEW req \in Arrived(method, ServerDecodes(method, rpc.bytes))
  PROVE  \E q \in Requests : rpc = CallSent(q) /\ q.method = method /\ req = q.msg
<1>1. rpc # NoCall /\ rpc.pc = "sent" /\ rpc.method = method
      /\ req = ServerDecodes(method, rpc.bytes).val
  BY DEF Arrived
<1>2. ASSUME NEW q \in Requests, NEW m, NEW lost, rpc = CallReplied(q, m, lost) PROVE FALSE
  BY SMTT(30), <1>1, <1>2 DEF CallReplied
<1>3. PICK q \in Requests : rpc = CallSent(q)
  BY SMTT(30), <1>1, <1>2 DEF CallInv
<1>4. q.method = rpc.method /\ q.msg = rpc.msg
  BY <1>3 DEF CallSent
<1>5. RoundTrip
  BY SMTT(30), CallTravels
<1>6. ServerDecodes(method, rpc.bytes) = Read(rpc.msg, Len(rpc.bytes) + 1)
  BY <1>1, <1>5, Zenon DEF RoundTrip
<1>7. req = rpc.msg
  BY SMTT(30), <1>1, <1>6 DEF Read
<1> QED BY SMTT(30), <1>1, <1>3, <1>4, <1>7

(* Lock stores what the client sent, with the type it means.               *)
LEMMA LockStep ==
  ASSUME CallInv, HandleLock
  PROVE  \E q \in Requests :
           LET r == q.msg.resource IN
           /\ r \in ClientResources /\ r.owner \in Owners /\ Means(r) \in Counted /\ q.msg.ttl \in 1 .. MaxTTL
           /\ DBLock(r.key, r.owner, Means(r), q.msg.ttl)
           /\ value' = [value EXCEPT ![r.key] = r.value]
           /\ granted' = [granted EXCEPT ![r.key] = r]
           /\ rpc' \in {CallReplied(q, <<>>, {}), NoCall} /\ <<>> \in SentReplies(q.method)
           /\ q.method = "Lock"
<1>1. PICK req \in Arrived("Lock", UnmarshalLockRequest(rpc.bytes)) :
        /\ Acceptable(req)
        /\ LET r == GetResource(req.resource) IN
           /\ DBLock(r.key, r.owner, r.type, req.ttl)
           /\ value' = [value EXCEPT ![r.key] = r.value]
           /\ granted' = [granted EXCEPT ![r.key] = rpc.msg.resource]
        /\ Committed
  BY Zenon DEF HandleLock
<1>2. req \in Arrived("Lock", ServerDecodes("Lock", rpc.bytes))
  BY <1>1 DEF ServerDecodes
<1>3. PICK q \in Requests : rpc = CallSent(q) /\ q.method = "Lock" /\ req = q.msg
  BY SMTT(30), <1>2, ArrivedSent
<1> DEFINE r == q.msg.resource
<1>4. q.msg \in ClientMessages("Lock")
  BY SMTT(30), <1>3, APIAssumption
<1>5. r \in ClientResources \cup {Nil} /\ q.msg.ttl \in IntsOf(WordBits) /\ q.msg.ttl <= MaxTTL
  BY SMTT(30), <1>4 DEF ClientMessages
<1>6. Validate(Deref(r).type, Deref(r).code) /\ q.msg.ttl > 0 /\ Deref(r).owner # <<>>
  BY SMTT(30), <1>1, <1>3 DEF Acceptable
<1>7. r # Nil
  BY SMTT(30), <1>6 DEF Deref, Blank
<1>8. r \in ClientResources /\ Validate(r.type, r.code) /\ r.owner # <<>>
  BY SMTT(30), <1>5, <1>6, <1>7 DEF Deref
<1>9. r.owner \in Owners
  <2>1. r.owner \in Owners \cup {NoOwner}
    BY SMTT(30), <1>8 DEF ClientResources
  <2> QED BY SMTT(30), <1>8, <2>1, APIAssumption
<1>10. q.msg.ttl \in 1 .. MaxTTL
  BY SMTT(30), <1>5, <1>6, IntsType, TableAssumption
<1>11. Means(r) \in Counted
  BY SMTT(30), <1>8, TypeMeant
<1> DEFINE g == GetResource(r)
<1>12. g.key = r.key /\ g.owner = r.owner /\ g.value = r.value /\ g.type = Means(r)
  BY SMTT(30), <1>8, ResourceGot
<1>13. rpc.msg = q.msg /\ rpc.method = q.method
  BY SMTT(30), <1>3 DEF CallSent
<1>14. /\ DBLock(g.key, g.owner, g.type, q.msg.ttl)
       /\ value' = [value EXCEPT ![g.key] = g.value]
       /\ granted' = [granted EXCEPT ![g.key] = r]
  BY SMTT(30), <1>1, <1>3, <1>13
<1>15. rpc' \in {CallReplied(q, <<>>, {}), NoCall}
  BY SMTT(30), <1>1, <1>13 DEF Committed, Reply, ReplyWithout, CallReplied
<1>16. <<>> \in SentReplies(q.method)
  BY <1>3 DEF SentReplies
<1> HIDE DEF r, g
<1>17. /\ DBLock(r.key, r.owner, Means(r), q.msg.ttl)
       /\ value' = [value EXCEPT ![r.key] = r.value]
       /\ granted' = [granted EXCEPT ![r.key] = r]
  BY <1>12, <1>14, Zenon
<1> QED BY <1>3, <1>8, <1>9, <1>10, <1>11, <1>15, <1>16, <1>17, Zenon DEF r

(* Release removes the row of the key that the client names, if the owner  *)
(* is the one it names.                                                    *)
LEMMA ReleaseStep ==
  ASSUME CallInv, HandleRelease
  PROVE  \E q \in Requests :
           LET r == q.msg.resource IN
           /\ r \in ClientResources /\ DBRelease(r.key, r.owner)
           /\ granted' = [granted EXCEPT ![r.key] = Nil] /\ UNCHANGED value
           /\ rpc' \in {CallReplied(q, <<>>, {}), NoCall} /\ <<>> \in SentReplies(q.method)
           /\ q.method = "Release"
<1>1. PICK req \in Arrived("Release", UnmarshalReleaseRequest(rpc.bytes)) :
        /\ req.resource # Nil
        /\ DBRelease(req.resource.key, req.resource.owner)
        /\ granted' = [granted EXCEPT ![req.resource.key] = Nil]
        /\ Committed
        /\ UNCHANGED value
  BY Zenon DEF HandleRelease
<1>2. req \in Arrived("Release", ServerDecodes("Release", rpc.bytes))
  BY <1>1 DEF ServerDecodes
<1>3. PICK q \in Requests : rpc = CallSent(q) /\ q.method = "Release" /\ req = q.msg
  BY SMTT(30), <1>2, ArrivedSent
<1>4. q.msg \in ClientMessages("Release")
  BY SMTT(30), <1>3, APIAssumption
<1>5. q.msg.resource \in ClientResources
  BY SMTT(30), <1>1, <1>3, <1>4 DEF ClientMessages
<1>6. rpc.msg = q.msg /\ rpc.method = q.method
  BY SMTT(30), <1>3 DEF CallSent
<1>7. rpc' \in {CallReplied(q, <<>>, {}), NoCall}
  BY SMTT(30), <1>1, <1>6 DEF Committed, Reply, ReplyWithout, CallReplied
<1>8. <<>> \in SentReplies(q.method)
  BY SMTT(30), <1>3 DEF SentReplies
<1> QED BY <1>1, <1>3, <1>5, <1>7, <1>8, Zenon

-----------------------------------------------------------------------------
(* Counting and listing.                                                   *)

(* They are finitely many.                                                 *)
LEMMA HeldFinite ==
  ASSUME NEW ty
  PROVE  IsFiniteSet(HeldOf(ty)) /\ HeldOf(ty) \subseteq Keys
<1>1. HeldOf(ty) \in SUBSET Keys
  BY DEF HeldOf
<1> QED BY SMTT(30), <1>1, CountAssumption, FS_Subset

(* Count and FetchAll agree: a FetchAll lists every held lock once.        *)
LEMMA CountIsListed ==
  ASSUME NEW ty
  PROVE  Count(ty) = Listed(ty) /\ Listed(ty) \in Nat
<1> DEFINE K == HeldOf(ty)
           L == FetchAll({ty})
           f == [k \in K |-> AsLock(k, rows[k])]
<1>1. L = {AsLock(k, rows[k]) : k \in K}
  BY SMTT(30) DEF FetchAll, HeldOf
<1>2. \A k \in K : AsLock(k, rows[k]).key = k
  BY DEF AsLock
<1>3. Count(ty) = Cardinality(K) /\ Listed(ty) = Cardinality(L)
  BY DEF Count, Listed, HeldOf
<1>4. IsFiniteSet(K)
  BY SMTT(30), HeldFinite
<1> HIDE DEF K, L
<1>5. f \in [K -> L] /\ \A k \in K : f[k].key = k
  BY SMTT(30), <1>1, <1>2
<1>6. f \in Injection(K, L)
  <2>1. DOMAIN f = K
    OBVIOUS
  <2> HIDE DEF f
  <2> QED BY <1>5, <2>1, Zenon DEF Injection, IsInjective
<1>7. f \in Surjection(K, L)
  BY SMTT(30), <1>1, <1>5 DEF Surjection
<1>8. ExistsBijection(K, L)
  BY SMTT(30), <1>6, <1>7 DEF ExistsBijection, Bijection
<1>9. Cardinality(L) = Cardinality(K) /\ Cardinality(K) \in Nat
  BY SMTT(30), <1>4, <1>8, FS_Bijection, FS_CardinalityType
<1> QED BY SMTT(30), <1>3, <1>9

(* An order of a finite set is a sequence of all its elements.             *)
LEMMA Enumerated ==
  ASSUME NEW S, IsFiniteSet(S), NEW s \in Orders(S)
  PROVE  s \in Seq(S) /\ Range(s) = S
<1> DEFINE n == Cardinality(S)
<1>1. n \in Nat
  BY SMTT(30), FS_CardinalityType
<1>2. s \in [1 .. n -> S] /\ \A t \in S : \E i \in 1 .. n : s[i] = t
  BY DEF Orders, Bijection, Injection, Surjection
<1>8. DOMAIN s = 1 .. n
  BY SMTT(30), <1>2
<1>9. Range(s) = S
  BY SMTT(30), <1>2, <1>8 DEF Range
<1>10. s \in Seq(S)
  BY SMTT(30), <1>1, <1>2
<1> QED BY SMTT(30), <1>9, <1>10

(* A row is answered as a resource that Marshal takes.                     *)
LEMMA RowResource ==
  ASSUME TableInv, GrantedInv, NEW k \in Keys, rows[k] # NoRow
  PROVE  AsResource(k) \in SentResources
<1>1. rows[k] \in Row
  BY SMTT(30) DEF TableInv
<1>2. rows[k].owner \in Owners \cup {NoOwner} /\ rows[k].type \in Types
  BY SMTT(30), <1>1 DEF Row
<1>3. <<>> \in Strings
  <2>1. Pow2[WordBits - 5] \in Nat
    BY SMTT(30), Room
  <2> QED BY SMTT(30), <2>1 DEF Strings, Bytes
<1>4. rows[k].owner \in Strings /\ rows[k].type \in Strings /\ k \in Strings
  BY SMTT(30), <1>2, <1>3, APIAssumption
<1>5. value[k] \in Strings
  BY DEF GrantedInv
<1>6. GetTypeCode(rows[k].type) \in {0, 1, 2}
  BY SMTT(30) DEF GetTypeCode
<1>7. {0, 1, 2} \subseteq IntsOf(EnumBits)
  BY SMTT(30), EnumRoom DEF IntsOf
<1> QED BY SMTT(30), <1>4, <1>5, <1>6, <1>7 DEF AsResource, SentResources

(* Fetch answers with the row of the key.                                  *)
LEMMA FetchStep ==
  ASSUME TableInv, GrantedInv, CallInv, HandleFetch
  PROVE  \E q \in Requests :
           LET m == [resource |-> AsResource(q.msg.key)] IN
           /\ q.method = "Fetch" /\ q.msg.key \in Keys /\ Held(rows[q.msg.key])
           /\ rpc' = CallReplied(q, m, {}) /\ m \in SentReplies(q.method)
<1>1. PICK req \in Arrived("Fetch", UnmarshalFetchRequest(rpc.bytes)) :
        Held(rows[req.key]) /\ Reply([resource |-> AsResource(req.key)])
  BY SMTT(30) DEF HandleFetch
<1>2. req \in Arrived("Fetch", ServerDecodes("Fetch", rpc.bytes))
  BY SMTT(30), <1>1 DEF ServerDecodes
<1>3. PICK q \in Requests : rpc = CallSent(q) /\ q.method = "Fetch" /\ req = q.msg
  BY SMTT(30), <1>2, ArrivedSent
<1>4. q.msg \in ClientMessages("Fetch")
  BY SMTT(30), <1>3, APIAssumption
<1>5. q.msg.key \in Keys
  BY SMTT(30), <1>4 DEF ClientMessages
<1>6. rpc.msg = q.msg /\ rpc.method = q.method
  BY SMTT(30), <1>3 DEF CallSent
<1> DEFINE r == AsResource(q.msg.key)
<1>7. r \in SentResources
  BY SMTT(30), <1>1, <1>3, <1>5, RowResource DEF Held
<1>8. Reply([resource |-> r])
  BY SMTT(30), <1>1, <1>3
<1> HIDE DEF r
<1>9. rpc' = CallReplied(q, [resource |-> r], {})
  BY SMTT(30), <1>6, <1>8 DEF Reply, ReplyWithout, CallReplied
<1>10. [resource |-> r] \in SentReplies(q.method)
  BY SMTT(30), <1>3, <1>7 DEF SentReplies
<1> QED BY SMTT(30), <1>1, <1>3, <1>5, <1>9, <1>10 DEF r

(* FetchAll answers with the held rows of the type that the client means,  *)
(* but for those it could not read.                                        *)
LEMMA FetchAllStep ==
  ASSUME TableInv, GrantedInv, CallInv, HandleFetchAll
  PROVE  \E q \in Requests : \E m \in SentReplies(q.method) : \E lost \in SUBSET Keys :
           /\ q.method = "FetchAll" /\ Means(q.msg) \in Counted
           /\ Range(m.resources) = {AsResource(k) : k \in HeldOf(Means(q.msg)) \ lost}
           /\ rpc' = CallReplied(q, m, lost)
<1>1. PICK req \in Arrived("FetchAll", UnmarshalFetchAllRequest(rpc.bytes)) :
        /\ Validate(req.type, req.code)
        /\ LET ty == GetType(req)
               locks == FetchAll(IF ty = <<>> THEN Types ELSE {ty})
           IN \E lost \in SUBSET {l.key : l \in locks} :
                \E s \in Orders({AsResource(k) : k \in {l.key : l \in locks} \ lost}) :
                  ReplyWithout(lost, [resources |-> s])
  BY Zenon DEF HandleFetchAll
<1>2. req \in Arrived("FetchAll", ServerDecodes("FetchAll", rpc.bytes))
  BY <1>1 DEF ServerDecodes
<1>3. PICK q \in Requests : rpc = CallSent(q) /\ q.method = "FetchAll" /\ req = q.msg
  BY SMTT(30), <1>2, ArrivedSent
<1> DEFINE ty == GetType(req)
           L == FetchAll({ty})
<1>4. ty = Means(q.msg) /\ ty \in Counted
  BY SMTT(30), <1>1, <1>3, TypeMeant
<1>5. ty # <<>>
  BY SMTT(30), <1>4, APIAssumption
<1>6. \E lost \in SUBSET {l.key : l \in L} :
        \E s \in Orders({AsResource(k) : k \in {l.key : l \in L} \ lost}) :
          ReplyWithout(lost, [resources |-> s])
  BY Zenon, <1>1, <1>5
<1>7. {l.key : l \in L} = HeldOf(ty)
  <2>1. L = {AsLock(k, rows[k]) : k \in HeldOf(ty)}
    BY SMTT(30) DEF FetchAll, HeldOf
  <2>2. \A k : AsLock(k, rows[k]).key = k
    BY SMTT(30) DEF AsLock
  <2> HIDE DEF L, ty
  <2> QED BY SMTT(30), <2>1, <2>2
<1> HIDE DEF ty, L
<1>8. PICK lost \in SUBSET HeldOf(ty) :
        \E s \in Orders({AsResource(k) : k \in HeldOf(ty) \ lost}) : ReplyWithout(lost, [resources |-> s])
  BY Zenon, <1>6, <1>7
<1> DEFINE K == HeldOf(ty) \ lost
           R == {AsResource(k) : k \in K}
<1>9. PICK s \in Orders(R) : ReplyWithout(lost, [resources |-> s])
  BY Zenon, <1>8
<1>10. IsFiniteSet(K) /\ K \subseteq HeldOf(ty) /\ lost \in SUBSET Keys
  BY SMTT(30), HeldFinite, FS_Subset
<1>11. R \subseteq SentResources
  <2> SUFFICES ASSUME NEW k \in HeldOf(ty) PROVE AsResource(k) \in SentResources
    BY SMTT(30)
  <2>1. k \in Keys /\ rows[k] # NoRow
    BY SMTT(30) DEF HeldOf, Held
  <2> QED BY SMTT(30), <2>1, RowResource
<1>12. IsFiniteSet(R)
  <2> DEFINE f == [k \in K |-> AsResource(k)]
  <2> HIDE DEF K
  <2>1. f \in Surjection(K, R)
    BY SMTT(30) DEF Surjection
  <2> HIDE DEF f, R
  <2> QED BY SMTT(30), <1>10, <2>1, FS_Surjection
<1>13. s \in Seq(R) /\ Range(s) = R
  <2> HIDE DEF R
  <2> QED BY Zenon, <1>9, <1>12, Enumerated
<1>14. s \in Seq(SentResources)
  <2> HIDE DEF R
  <2> QED BY SMTT(30), <1>11, <1>13
<1>15. rpc.msg = q.msg /\ rpc.method = q.method
  BY SMTT(30), <1>3 DEF CallSent
<1>16. rpc' = CallReplied(q, [resources |-> s], lost)
  BY SMTT(30), <1>9, <1>15 DEF ReplyWithout, CallReplied
<1>17. [resources |-> s] \in SentReplies(q.method)
  BY SMTT(30), <1>3, <1>14 DEF SentReplies, SentFetchAllResponses
<1>18. [resources |-> s].resources = s
  BY SMTT(30)
<1> HIDE DEF R
<1>19. Range([resources |-> s].resources) = {AsResource(k) : k \in HeldOf(Means(q.msg)) \ lost}
  BY SMTT(30), <1>4, <1>13, <1>18 DEF R
<1> QED BY SMTT(30), <1>3, <1>4, <1>10, <1>16, <1>17, <1>19

-----------------------------------------------------------------------------
(* The invariant.                                                          *)
APIInv == TableInv /\ CallInv /\ GrantedInv /\ AnswerInv /\ NotifierInv

(* The service is started with no call in progress, and with no resource   *)
(* granted.                                                                *)
LEMMA APIInitInv == APIInit => APIInv
<1> SUFFICES ASSUME APIInit PROVE APIInv
  BY SMTT(30)
<1>1. TableInv
  BY SMTT(30), TableInitInv DEF APIInit
<1>2. CallInv /\ AnswerInv
  BY SMTT(30) DEF APIInit, CallInv, AnswerInv
<1>3. GrantedInv
  <2>1. Pow2[WordBits - 5] \in Nat
    BY SMTT(30), Room
  <2>2. <<>> \in Strings
    BY SMTT(30), <2>1 DEF Strings, Bytes
  <2> QED BY SMTT(30), <2>2 DEF APIInit, GrantedInv
<1>4. NotifierInv
  BY SMTT(30) DEF APIInit, NotifierInit, NotifierInv, Waiting
<1> QED BY SMTT(30), <1>1, <1>2, <1>3, <1>4 DEF APIInv

(* A step of the service that is not one of the notifier.                  *)
CallNext ==
  \/ \E q \in Requests : Send(q)
  \/ HandleLock \/ HandleRelease \/ HandleFetch \/ HandleFetchAll
  \/ HandlerFails \/ Receive

(* Every step of a call is Lock or Release on the table, or leaves it.     *)
LEMMA CallTable ==
  ASSUME CallInv, CallNext
  PROVE  [TableNext]_tableVars
<1>1. CASE HandleLock
  <2>1. PICK q \in Requests :
          LET r == q.msg.resource IN
          /\ r \in ClientResources /\ r.owner \in Owners /\ Means(r) \in Counted /\ q.msg.ttl \in 1 .. MaxTTL
          /\ DBLock(r.key, r.owner, Means(r), q.msg.ttl)
    BY SMTT(30), <1>1, LockStep
  <2>2. q.msg.resource.key \in Keys /\ Means(q.msg.resource) \in Types
    BY SMTT(30), <2>1, APIAssumption DEF ClientResources
  <2> QED BY SMTT(30), <2>1, <2>2 DEF TableNext
<1>2. CASE HandleRelease
  <2>1. PICK q \in Requests : q.msg.resource \in ClientResources /\ DBRelease(q.msg.resource.key, q.msg.resource.owner)
    BY SMTT(30), <1>2, ReleaseStep
  <2>2. q.msg.resource.key \in Keys /\ q.msg.resource.owner \in Owners \cup {NoOwner}
    BY SMTT(30), <2>1 DEF ClientResources
  <2> QED BY SMTT(30), <2>1, <2>2 DEF TableNext
<1>3. CASE \/ \E q \in Requests : Send(q)
           \/ HandleFetch \/ HandleFetchAll \/ HandlerFails \/ Receive
  BY Zenon, <1>3 DEF Send, HandleFetch, HandleFetchAll, HandlerFails, Receive, tableVars
<1> QED BY SMTT(30), <1>1, <1>2, <1>3 DEF CallNext

(* The call in progress stays a request or an answer to one.               *)
LEMMA CallKept ==
  ASSUME TableInv, GrantedInv, CallInv, CallNext
  PROVE  CallInv'
<1>1. ASSUME NEW q \in Requests, Send(q) PROVE CallInv'
  <2>1. rpc' = CallSent(q)
    BY SMTT(30), <1>1 DEF Send, CallSent
  <2> QED BY SMTT(30), <2>1 DEF CallInv
<1>2. ASSUME NEW q \in Requests, NEW m \in SentReplies(q.method), NEW lost \in SUBSET Keys,
             rpc' = CallReplied(q, m, lost)
      PROVE  CallInv'
  BY SMTT(30), <1>2 DEF CallInv
<1>3. ASSUME NEW q \in Requests, <<>> \in SentReplies(q.method),
             rpc' \in {CallReplied(q, <<>>, {}), NoCall}
      PROVE  CallInv'
  <2>1. CASE rpc' = NoCall
    BY <2>1 DEF CallInv
  <2>2. CASE rpc' = CallReplied(q, <<>>, {})
    <3>1. {} \in SUBSET Keys
      OBVIOUS
    <3> QED BY Zenon, <1>2, <1>3, <2>2, <3>1
  <2> QED BY <1>3, <2>1, <2>2, Zenon
<1>4. CASE HandleLock
  <2>1. PICK q \in Requests : rpc' \in {CallReplied(q, <<>>, {}), NoCall} /\ <<>> \in SentReplies(q.method)
    BY SMTT(30), <1>4, LockStep
  <2> QED BY Zenon, <1>3, <2>1
<1>5. CASE HandleRelease
  <2>1. PICK q \in Requests : rpc' \in {CallReplied(q, <<>>, {}), NoCall} /\ <<>> \in SentReplies(q.method)
    BY SMTT(30), <1>5, ReleaseStep
  <2> QED BY Zenon, <1>3, <2>1
<1>6. CASE HandleFetch
  <2>1. PICK q \in Requests : \E m \in SentReplies(q.method) : rpc' = CallReplied(q, m, {})
    BY Zenon, <1>6, FetchStep
  <2>2. {} \in SUBSET Keys
    OBVIOUS
  <2> QED BY Zenon, <1>2, <2>1, <2>2
<1>7. CASE HandleFetchAll
  BY SMTT(30), <1>2, <1>7, FetchAllStep
<1>8. CASE HandlerFails \/ Receive
  BY SMTT(30), <1>8 DEF HandlerFails, Receive, CallInv
<1> QED BY SMTT(30), <1>1, <1>4, <1>5, <1>6, <1>7, <1>8 DEF CallNext

(* A lock that is granted, and the row and the value behind it.            *)
Backed(k) ==
  granted[k] # Nil =>
    /\ rows[k] # NoRow /\ rows[k].owner = granted[k].owner
    /\ rows[k].type = Means(granted[k]) /\ value[k] = granted[k].value /\ granted[k].key = k

(* Lock stores the row, its value and the history of it together, Release  *)
(* forgets the history with the row, and no other call changes them.       *)
LEMMA GrantedKept ==
  ASSUME TableInv, GrantedInv, CallInv, CallNext
  PROVE  GrantedInv'
<1>0. /\ value \in [Keys -> Strings] /\ granted \in [Keys -> ClientResources \cup {Nil}]
      /\ rows \in [Keys -> Row \cup {NoRow}] /\ \A k \in Keys : Backed(k)
  BY SMTT(30) DEF GrantedInv, TableInv, Backed
<1>1. CASE HandleLock
  <2>1. PICK q \in Requests :
          LET r == q.msg.resource IN
          /\ r \in ClientResources /\ r.owner \in Owners /\ Means(r) \in Counted /\ q.msg.ttl \in 1 .. MaxTTL
          /\ DBLock(r.key, r.owner, Means(r), q.msg.ttl)
          /\ value' = [value EXCEPT ![r.key] = r.value]
          /\ granted' = [granted EXCEPT ![r.key] = r]
    BY SMTT(30), <1>1, LockStep
  <2> DEFINE r == q.msg.resource
             j == r.key
  <2>2. j \in Keys /\ r.value \in Strings /\ Means(r) \in Types /\ r \in ClientResources
    BY Zenon, <2>1, APIAssumption DEF ClientResources
  <2>3. PICK g : StoreRow(j, LockedRow(rows[j], r.owner, Means(r), q.msg.ttl, g))
    BY Zenon, <2>1 DEF DBLock
  <2> DEFINE new == LockedRow(rows[j], r.owner, Means(r), q.msg.ttl, g)
  <2>4. rows' = [rows EXCEPT ![j] = new] /\ new.owner = r.owner /\ new.type = Means(r)
    BY Zenon, <2>3 DEF StoreRow, LockedRow
  <2>5. rows'[j] # NoRow /\ rows'[j].owner = r.owner /\ \A k \in Keys : k # j => rows'[k] = rows[k]
    BY SMTT(30), <2>1, <2>2, LockWrites
  <2>6. rows'[j].type = Means(r)
    BY Zenon, <1>0, <2>2, <2>4
  <2>7. value' = [value EXCEPT ![j] = r.value] /\ granted' = [granted EXCEPT ![j] = r]
    BY SMTT(30), <2>1
  <2> HIDE DEF new, r, j
  <2>8. value' \in [Keys -> Strings] /\ granted' \in [Keys -> ClientResources \cup {Nil}]
    BY SMTT(30), <1>0, <2>2, <2>7
  <2>9. ASSUME NEW k \in Keys PROVE Backed(k)'
    <3>1. CASE k = j
      <4>1. granted'[k] = r /\ value'[k] = r.value
        BY SMTT(30), <1>0, <2>2, <2>7, <3>1
      <4> QED BY SMTT(30), <2>5, <2>6, <3>1, <4>1 DEF Backed, j
    <3>2. CASE k # j
      <4>1. granted'[k] = granted[k] /\ value'[k] = value[k] /\ rows'[k] = rows[k]
        BY SMTT(30), <1>0, <2>2, <2>5, <2>7, <3>2
      <4> QED BY SMTT(30), <1>0, <4>1 DEF Backed
    <3> QED BY SMTT(30), <3>1, <3>2
  <2> QED BY SMTT(30), <2>8, <2>9 DEF GrantedInv, Backed
<1>2. CASE HandleRelease
  <2>1. PICK q \in Requests :
          LET r == q.msg.resource IN
          /\ r \in ClientResources /\ DBRelease(r.key, r.owner)
          /\ granted' = [granted EXCEPT ![r.key] = Nil] /\ UNCHANGED value
    BY Zenon, <1>2, ReleaseStep
  <2> DEFINE j == q.msg.resource.key
  <2>2. j \in Keys
    BY Zenon, <2>1 DEF ClientResources
  <2>3. rows' = [rows EXCEPT ![j] = NoRow]
    BY SMTT(30), <2>1 DEF DBRelease
  <2> HIDE DEF j
  <2>4. granted' = [granted EXCEPT ![j] = Nil] /\ value' = value
    BY SMTT(30), <2>1 DEF j
  <2>5. granted' \in [Keys -> ClientResources \cup {Nil}]
    BY Zenon, <1>0, <2>4
  <2>6. \A k \in Keys : Backed(k)'
    <3> SUFFICES ASSUME NEW k \in Keys, granted'[k] # Nil PROVE Backed(k)'
      BY SMTT(30) DEF Backed
    <3>1. k # j /\ granted'[k] = granted[k] /\ rows'[k] = rows[k]
      BY SMTT(30), <1>0, <2>2, <2>3, <2>4
    <3> QED BY SMTT(30), <1>0, <2>4, <3>1 DEF Backed
  <2> QED BY Zenon, <1>0, <2>4, <2>5, <2>6 DEF GrantedInv, Backed
<1>3. CASE \/ \E q \in Requests : Send(q)
           \/ HandleFetch \/ HandleFetchAll \/ HandlerFails \/ Receive
  <2>1. rows' = rows /\ value' = value /\ granted' = granted
    BY Zenon, <1>3 DEF Send, HandleFetch, HandleFetchAll, HandlerFails, Receive, tableVars
  <2> QED BY SMTT(30), <2>1 DEF GrantedInv
<1> QED BY SMTT(30), <1>1, <1>2, <1>3 DEF CallNext


(* Resources are answered as before while the table and the values stay.   *)
LEMMA SameAnswers ==
  ASSUME rows' = rows, value' = value
  PROVE  /\ \A k : AsResource(k)' = AsResource(k)
         /\ \A ty : HeldOf(ty)' = HeldOf(ty)
         /\ \A ty : Listed(ty)' = Listed(ty)
<1>1. \A k : AsResource(k)' = AsResource(k)
  BY SMTT(30) DEF AsResource
<1>2. \A ty : HeldOf(ty)' = HeldOf(ty)
  BY SMTT(30) DEF HeldOf
<1>3. \A ty : FetchAll({ty})' = FetchAll({ty})
  BY SMTT(30) DEF FetchAll
<1>4. \A ty : Listed(ty)' = Listed(ty)
  BY SMTT(30), <1>3 DEF Listed
<1> QED BY SMTT(30), <1>1, <1>2, <1>4

(* An answer is made from the table as it is, and stays true of it until   *)
(* the client has it.                                                      *)
LEMMA AnswerKept ==
  ASSUME TableInv, GrantedInv, CallInv, AnswerInv, CallNext
  PROVE  AnswerInv'
<1>1. ASSUME NEW q \in Requests, Send(q) PROVE AnswerInv'
  <2>1. rpc'.pc = "sent"
    BY SMTT(30), <1>1 DEF Send
  <2> QED BY SMTT(30), <2>1 DEF AnswerInv
<1>2. ASSUME NEW q, NEW m, NEW lost, rpc' = CallReplied(q, m, lost)
      PROVE  rpc'.method = q.method /\ rpc'.msg = q.msg /\ rpc'.reply = m /\ rpc'.lost = lost
  BY SMTT(30), <1>2 DEF CallReplied
<1>3. CASE HandleLock
  <2>1. rpc' = NoCall \/ rpc'.method = "Lock"
    BY SMTT(30), <1>2, <1>3, LockStep
  <2> QED BY Zenon, <2>1 DEF AnswerInv
<1>4. CASE HandleRelease
  <2>1. rpc' = NoCall \/ rpc'.method = "Release"
    BY SMTT(30), <1>2, <1>4, ReleaseStep
  <2> QED BY SMTT(30), <2>1 DEF AnswerInv
<1>5. CASE HandleFetch
  <2>1. PICK q \in Requests :
           LET m == [resource |-> AsResource(q.msg.key)] IN
           /\ q.method = "Fetch" /\ q.msg.key \in Keys /\ Held(rows[q.msg.key])
           /\ rpc' = CallReplied(q, m, {}) /\ m \in SentReplies(q.method)
    BY SMTT(30), <1>5, FetchStep
  <2> DEFINE r == AsResource(q.msg.key)
  <2>2. rpc'.method = "Fetch" /\ rpc'.msg = q.msg /\ rpc'.reply = [resource |-> r]
    BY SMTT(30), <1>2, <2>1
  <2>3. rows' = rows /\ value' = value
    BY SMTT(30), <1>5 DEF HandleFetch, tableVars
  <2>4. AsResource(q.msg.key)' = r
    BY SMTT(30), <2>3, SameAnswers
  <2>5. AsResource(rpc.msg.key)' = AsResource(q.msg.key)'
    BY <2>2 DEF AsResource
  <2>6. [resource |-> r].resource = r /\ "Fetch" # "FetchAll"
    OBVIOUS
  <2> HIDE DEF r
  <2> QED BY <2>1, <2>2, <2>4, <2>5, <2>6, Zenon DEF AnswerInv
<1>6. CASE HandleFetchAll
  <2>0. PICK q \in Requests : \E m, lost :
           /\ q.method = "FetchAll"
           /\ Range(m.resources) = {AsResource(k) : k \in HeldOf(Means(q.msg)) \ lost}
           /\ rpc' = CallReplied(q, m, lost)
    BY SMTT(30), <1>6, FetchAllStep
  <2>1. PICK m, lost :
           /\ q.method = "FetchAll"
           /\ Range(m.resources) = {AsResource(k) : k \in HeldOf(Means(q.msg)) \ lost}
           /\ rpc' = CallReplied(q, m, lost)
    BY SMTT(30), <2>0
  <2>2. rpc'.method = "FetchAll" /\ rpc'.msg = q.msg /\ rpc'.reply = m /\ rpc'.lost = lost
    BY SMTT(30), <1>2, <2>1
  <2>3. rows' = rows /\ value' = value
    BY SMTT(30), <1>6 DEF HandleFetchAll, tableVars
  <2>4. /\ \A k : AsResource(k)' = AsResource(k)
        /\ \A ty : HeldOf(ty)' = HeldOf(ty)
    BY SMTT(30), <2>3, SameAnswers
  <2>5. HeldOf(Means(rpc.msg))' = HeldOf(Means(q.msg))
    <3>1. Means(rpc.msg)' = Means(q.msg)
      BY SMTT(30), <2>2 DEF Means
    <3> QED BY SMTT(30), <2>3, <3>1 DEF HeldOf, Held
  <2>6. {AsResource(k) : k \in HeldOf(Means(rpc.msg)) \ rpc.lost}' = {AsResource(k) : k \in HeldOf(Means(q.msg)) \ lost}
    BY SMTT(30), <2>2, <2>4, <2>5
  <2>7. "Fetch" # "FetchAll"
    OBVIOUS
  <2> QED BY <2>1, <2>2, <2>6, <2>7, Zenon DEF AnswerInv
<1>7. CASE HandlerFails \/ Receive
  BY SMTT(30), <1>7 DEF HandlerFails, Receive, AnswerInv
<1> QED BY SMTT(30), <1>1, <1>3, <1>4, <1>5, <1>6, <1>7 DEF CallNext

(* The same answer while the table, the values and the call stay.          *)
LEMMA AnswerStays ==
  ASSUME AnswerInv, rows' = rows, value' = value, rpc' = rpc
  PROVE  AnswerInv'
<1>1. /\ \A k : AsResource(k)' = AsResource(k)
      /\ \A ty : HeldOf(ty)' = HeldOf(ty)
  BY SameAnswers
<1>2. HeldOf(Means(rpc.msg))' = HeldOf(Means(rpc.msg)) /\ AsResource(rpc.msg.key)' = AsResource(rpc.msg.key)
  BY DEF HeldOf, Means, AsResource
<1>3. {AsResource(k) : k \in HeldOf(Means(rpc.msg)) \ rpc.lost}'
        = {AsResource(k) : k \in HeldOf(Means(rpc.msg)) \ rpc.lost}
  BY SMTT(30), <1>1, <1>2
<1> QED BY SMTT(30), <1>2, <1>3 DEF AnswerInv

(* A FetchAll lists a number of locks, before and after every step.        *)
LEMMA ListedNow == \A ty : Listed(ty) \in Nat
  BY CountIsListed

(* The same of the next state.                                             *)
LEMMA ListedNext == (\A ty : Listed(ty) \in Nat)'
  BY ListedNow, PTL

(* While a round of the notifier goes on, its history only grows, by what  *)
(* a FetchAll would list.                                                  *)
LEMMA NotifierObserves ==
  ASSUME NotifierInv, Observe, UNCHANGED notifier
  PROVE  NotifierInv'
<1>1. LockType \in Counted /\ PresenceType \in Counted
  BY DEF Counted
<1>2. \A ty : Listed(ty)' \in Nat
  BY SMTT(30), ListedNext
<1>3. CASE notifier.pc \in {"waiting", "done"}
  <2>1. seen' = [ty \in Counted |-> {}]
    BY SMTT(30), <1>3 DEF Observe
  <2> QED BY SMTT(30), <1>3, <2>1 DEF NotifierInv
<1>4. CASE notifier.pc \notin {"waiting", "done"}
  <2>1. seen' = [ty \in Counted |-> seen[ty] \cup {Listed(ty)'}]
    BY <1>4 DEF Observe
  <2> QED BY SMTT(30), <1>1, <1>2, <2>1 DEF NotifierInv
<1> QED BY SMTT(30), <1>3, <1>4

(* The notifier counts what a FetchAll lists.                              *)
LEMMA NotifierSteps ==
  ASSUME NotifierInv, NotifierNext, rows' = rows, value' = value
  PROVE  NotifierInv'
<1>1. LockType \in Counted /\ PresenceType \in Counted
  BY DEF Counted
<1>2. \A ty : Count(ty) = Listed(ty) /\ Listed(ty) \in Nat /\ Listed(ty)' = Listed(ty)
  BY SMTT(30), CountIsListed, SameAnswers
<1>3. CASE CountLocks
  BY SMTT(30), <1>1, <1>2, <1>3 DEF CountLocks, NotifierInv
<1>4. CASE CountPresences
  BY SMTT(30), <1>1, <1>2, <1>4 DEF CountPresences, NotifierInv
<1>5. CASE CountFails \/ SendPresences
  BY SMTT(30), <1>5 DEF CountFails, SendPresences, EndRound, Waiting, NotifierInv
<1>6. CASE SendLocks
  BY <1>6 DEF SendLocks, NotifierInv
<1>7. CASE NotifierSignal
  BY SMTT(30), <1>7 DEF NotifierSignal, NotifierInv
<1> QED BY SMTT(30), <1>3, <1>4, <1>5, <1>6, <1>7 DEF NotifierNext

-----------------------------------------------------------------------------
(* Every step of the service preserves the invariant.                      *)
LEMMA APINextInv == APIInv /\ [APINext]_apiVars => APIInv'
<1> SUFFICES ASSUME APIInv, [APINext]_apiVars PROVE APIInv'
  OBVIOUS
<1>0. TableInv /\ CallInv /\ GrantedInv /\ AnswerInv /\ NotifierInv
  BY DEF APIInv
<1>1. CASE CallNext /\ Observe /\ UNCHANGED notifier
  <2>1. TableInv'
    BY SMTT(30), <1>0, <1>1, CallTable, TableNextInv
  <2>2. CallInv' /\ GrantedInv' /\ AnswerInv'
    BY SMTT(30), <1>0, <1>1, CallKept, GrantedKept, AnswerKept
  <2>3. NotifierInv'
    BY SMTT(30), <1>0, <1>1, NotifierObserves
  <2> QED BY SMTT(30), <2>1, <2>2, <2>3 DEF APIInv
<1>2. ASSUME rows' = rows, version' = version, value' = value, rpc' = rpc, granted' = granted
      PROVE  TableInv' /\ CallInv' /\ GrantedInv' /\ AnswerInv'
  <2>1. TableInv'
    BY SMTT(30), <1>0, <1>2 DEF TableInv, RowsNewest
  <2>2. CallInv'
    BY SMTT(30), <1>0, <1>2 DEF CallInv
  <2>3. GrantedInv'
    BY SMTT(30), <1>0, <1>2 DEF GrantedInv
  <2>4. AnswerInv'
    BY SMTT(30), <1>0, <1>2, AnswerStays
  <2> QED BY SMTT(30), <2>1, <2>2, <2>3, <2>4
<1>3. CASE NotifierNext /\ UNCHANGED <<tableVars, callVars>>
  <2>1. rows' = rows /\ version' = version /\ value' = value /\ rpc' = rpc /\ granted' = granted
    BY SMTT(30), <1>3 DEF tableVars, callVars
  <2>2. NotifierInv'
    BY SMTT(30), <1>0, <1>3, <2>1, NotifierSteps
  <2> QED BY SMTT(30), <1>2, <2>1, <2>2 DEF APIInv
<1>4. CASE Restarts
  <2>1. rows' = rows /\ version' = version /\ value' = value /\ rpc' = NoCall /\ granted' = granted
    BY SMTT(30), <1>4 DEF Restarts, tableVars
  <2>2. TableInv' /\ GrantedInv'
    BY SMTT(30), <1>0, <2>1 DEF TableInv, RowsNewest, GrantedInv
  <2>3. CallInv' /\ AnswerInv'
    BY SMTT(30), <2>1 DEF CallInv, AnswerInv
  <2>4. NotifierInv'
    BY SMTT(30), <1>4 DEF Restarts, EndRound, Waiting, NotifierInv
  <2> QED BY SMTT(30), <2>2, <2>3, <2>4 DEF APIInv
<1>5. CASE UNCHANGED apiVars
  <2>1. rows' = rows /\ version' = version /\ value' = value /\ rpc' = rpc /\ granted' = granted
        /\ notifier' = notifier /\ seen' = seen
    BY SMTT(30), <1>5 DEF apiVars, tableVars, callVars, notifierVars
  <2>2. Listed(PresenceType)' = Listed(PresenceType)
    BY SMTT(30), <2>1, SameAnswers
  <2>3. NotifierInv'
    BY SMTT(30), <1>0, <2>1, <2>2 DEF NotifierInv
  <2> QED BY SMTT(30), <1>2, <2>1, <2>3 DEF APIInv
<1> QED BY SMTT(30), <1>1, <1>3, <1>4, <1>5 DEF APINext, CallNext

(* The invariant of the service: its calls, its table and what the         *)
(* notifier counts (handler.go:42-179, metrics.go:37-66).                  *)
THEOREM ServiceInvariance == APISpec => []APIInv
  BY APIInitInv, APINextInv, PTL DEF APISpec

(* MarshalTo fills exactly the buffer that Marshal allocates with Size,    *)
(* for every request and every reply of every size and width               *)
(* (locket.pb.go:827-1080 against 1109-1223).                              *)
THEOREM BuffersFit == APISpec => []SizeExact
<1>1. APIInv => SizeExact
  BY SMTT(30), CallTravels DEF APIInv
<1> QED BY <1>1, ServiceInvariance, PTL

(* Whatever one side of the service sends is what the other side decodes,  *)
(* the fields of a later version skipped (locket.pb.go:1329-2238).         *)
THEOREM MessagesArrive == APISpec => []RoundTrip
<1>1. APIInv => RoundTrip
  BY SMTT(30), CallTravels DEF APIInv
<1> QED BY <1>1, ServiceInvariance, PTL

(* An answer of the service is decoded by the client as it was made.       *)
LEMMA AnswerDecoded ==
  ASSUME CallInv, rpc # NoCall, rpc.pc = "replied"
  PROVE  ClientDecodes(rpc.method, rpc.bytes).val = rpc.reply
<1>1. RoundTrip
  BY CallTravels
<1>2. ClientDecodes(rpc.method, rpc.bytes) = Read(rpc.reply, Len(rpc.bytes) + 1)
  BY <1>1, Zenon DEF RoundTrip
<1> QED BY <1>2 DEF Read

(* A resource with another type and code.                                  *)
LEMMA Retyped ==
  ASSUME NEW r \in ClientResources, NEW t, NEW c
  PROVE  [r EXCEPT !.type = t, !.code = c]
           = [key |-> r.key, owner |-> r.owner, value |-> r.value, type |-> t, code |-> c]
<1> DEFINE u == [r EXCEPT !.type = t]
<1>1. DOMAIN r = {"key", "owner", "value", "type", "code"}
  BY DEF ClientResources
<1>2. /\ DOMAIN u = {"key", "owner", "value", "type", "code"}
      /\ u.key = r.key /\ u.owner = r.owner /\ u.value = r.value /\ u.type = t
  BY <1>1
<1>3. [r EXCEPT !.type = t, !.code = c] = [u EXCEPT !.code = c]
  OBVIOUS
<1> HIDE DEF u
<1>4. [u EXCEPT !.code = c] = [key |-> u.key, owner |-> u.owner, value |-> u.value, type |-> u.type, code |-> c]
  BY SMTT(30), <1>2
<1> QED BY <1>2, <1>3, <1>4, Zenon

(* A Fetch returns the resource as the client that locked it last sent it, *)
(* with the type it meant given both ways (handler.go:42-112,              *)
(* helpers.go:3-35, lock_db.go:226-247).                                   *)
THEOREM LockedIsFetched == APISpec => []FetchReturnsLocked
<1>1. APIInv => FetchReturnsLocked
  <2> SUFFICES ASSUME APIInv, rpc # NoCall, rpc.pc = "replied", rpc.method = "Fetch",
                      granted[rpc.msg.key] # Nil
               PROVE  LET lock == granted[rpc.msg.key]
                      IN ClientDecodes("Fetch", rpc.bytes).val.resource
                           = [lock EXCEPT !.type = Means(lock), !.code = GetTypeCode(Means(lock))]
    BY DEF FetchReturnsLocked
  <2> DEFINE k == rpc.msg.key
             lock == granted[k]
  <2>1. ClientDecodes("Fetch", rpc.bytes).val = rpc.reply
    BY SMTT(30), AnswerDecoded DEF APIInv
  <2>2. k \in Keys /\ rpc.reply.resource = AsResource(k)
    BY SMTT(30) DEF APIInv, AnswerInv
  <2>3. /\ lock \in ClientResources
        /\ rows[k].owner = lock.owner /\ rows[k].type = Means(lock) /\ value[k] = lock.value /\ lock.key = k
    BY <2>2 DEF APIInv, GrantedInv
  <2> HIDE DEF k, lock
  <2>4. AsResource(k) = [key |-> lock.key, owner |-> lock.owner, value |-> lock.value,
                         type |-> Means(lock), code |-> GetTypeCode(Means(lock))]
    BY <2>3, Zenon DEF AsResource
  <2>5. \A t, c : [lock EXCEPT !.type = t, !.code = c]
                    = [key |-> lock.key, owner |-> lock.owner, value |-> lock.value, type |-> t, code |-> c]
    BY Zenon, <2>3, Retyped
  <2>6. AsResource(k) = [lock EXCEPT !.type = Means(lock), !.code = GetTypeCode(Means(lock))]
    BY <2>4, <2>5, Zenon
  <2>7. ClientDecodes("Fetch", rpc.bytes).val.resource = AsResource(k)
    BY <2>1, <2>2, Zenon
  <2> QED BY <2>6, <2>7, Zenon DEF k, lock
<1> QED BY <1>1, ServiceInvariance, PTL

(* A FetchAll that is accepted lists the held locks of the type it means   *)
(* and no other, and leaves out only those whose row could not be read     *)
(* (handler.go:114-179, lock_db.go:154-209).                               *)
THEOREM TypeIsListed == APISpec => []FetchAllByType
<1>1. APIInv => FetchAllByType
  <2> DEFINE TypeOf(k) == IF granted[k] = Nil THEN rows[k].type ELSE Means(granted[k])
             got == Range(ClientDecodes("FetchAll", rpc.bytes).val.resources)
  <2> SUFFICES ASSUME APIInv, rpc # NoCall, rpc.pc = "replied", rpc.method = "FetchAll"
               PROVE  {r.key : r \in got}
                        = {k \in Keys : Held(rows[k]) /\ TypeOf(k) = Means(rpc.msg)} \ rpc.lost
    BY DEF FetchAllByType
  <2>1. ClientDecodes("FetchAll", rpc.bytes).val = rpc.reply
    BY SMTT(30), AnswerDecoded DEF APIInv
  <2>2. got = {AsResource(k) : k \in HeldOf(Means(rpc.msg)) \ rpc.lost}
    BY SMTT(30), <2>1 DEF APIInv, AnswerInv
  <2>3. \A k : AsResource(k).key = k
    BY SMTT(30) DEF AsResource
  <2>4. \A k \in Keys : TypeOf(k) = rows[k].type
    BY DEF APIInv, GrantedInv
  <2> HIDE DEF got, TypeOf
  <2>5. {r.key : r \in got} = HeldOf(Means(rpc.msg)) \ rpc.lost
    BY SMTT(30), <2>2, <2>3
  <2>6. HeldOf(Means(rpc.msg)) = {k \in Keys : Held(rows[k]) /\ TypeOf(k) = Means(rpc.msg)}
    BY <2>4 DEF HeldOf
  <2> QED BY SMTT(30), <2>5, <2>6
<1> QED BY <1>1, ServiceInvariance, PTL

(* A number is sent as a gauge only if a FetchAll would have listed as     *)
(* many locks at some moment since the tick (metrics.go:46-66, Count at    *)
(* lock_db.go:211-224 against FetchAll at lock_db.go:154-209).             *)
THEOREM SentIsListed == APISpec => []SentCountsListed
<1>1. APIInv => SentCountsListed
  BY DEF APIInv, NotifierInv, SentCountsListed
<1> QED BY <1>1, ServiceInvariance, PTL

(* The calls of the service use the locks table only by Lock and Release,  *)
(* with what the clients sent.                                             *)
THEOREM ServiceUsesTable == APISpec => TableSpec
<1>1. APIInit => TableInit
  BY DEF APIInit
<1>2. APIInv /\ [APINext]_apiVars => [TableNext]_tableVars
  <2> SUFFICES ASSUME APIInv, [APINext]_apiVars PROVE [TableNext]_tableVars
    OBVIOUS
  <2>1. CASE CallNext
    BY SMTT(30), <2>1, CallTable DEF APIInv
  <2>2. CASE NotifierNext /\ UNCHANGED <<tableVars, callVars>>
    BY <2>2
  <2>3. CASE UNCHANGED apiVars
    BY <2>3 DEF apiVars
  <2>4. CASE Restarts
    BY <2>4 DEF Restarts
  <2> QED BY SMTT(30), <2>1, <2>2, <2>3, <2>4 DEF APINext, CallNext
<1> QED BY <1>1, <1>2, ServiceInvariance, PTL DEF APISpec, TableSpec

(* So the service, from the bytes of a request to the row, is a lock       *)
(* service: a lock that a client holds is never given to another, and no   *)
(* token is issued twice (handler.go:42-99, lock_db.go:31-125).            *)
THEOREM ServiceLocks == APISpec => ImplementsService
  BY ServiceUsesTable, TableIsService, PTL
=============================================================================
