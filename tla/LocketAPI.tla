------------------------------ MODULE LocketAPI ------------------------------
(***************************************************************************)
(* The gRPC service: a client's request is encoded, decoded by the server, *)
(* validated and carried out by handlers/handler.go on the locks table,    *)
(* and the reply travels back.  The metrics notifier counts meanwhile.     *)
(*                                                                         *)
(* Clients of several versions call: those that send only a type, only a   *)
(* type code, or both, and those built from a later locket.proto, whose    *)
(* messages have fields this server does not know.                         *)
(*                                                                         *)
(* One call is in progress at a time: LockDB.tla shows that a call changes *)
(* the table atomically.  External: gRPC carries the bytes unchanged.      *)
(***************************************************************************)
EXTENDS MetricsNotifier, LocketWire

CONSTANTS
  InitialTables,   \* contents of the table at the start (bounds TableInit)
  Requests,        \* the requests clients make: [method, msg, extra]
  NoCall           \* no call in progress

(* What clients of the service put into a request of each method.          *)
ClientResources ==
  [key : Keys, owner : Owners \cup {NoOwner}, value : Strings, type : Strings,
   code : IntsOf(EnumBits)]

ClientMessages(method) ==
  CASE method = "Lock" ->
         [resource : ClientResources \cup {Nil}, ttl : {t \in IntsOf(WordBits) : t <= MaxTTL}]
    [] method = "Release" -> [resource : ClientResources \cup {Nil}]
    [] method = "Fetch" -> [key : Keys]
    [] method = "FetchAll" -> [type : Strings, code : IntsOf(EnumBits)]

ASSUME APIAssumption ==
  /\ Keys \subseteq Strings /\ Owners \subseteq Strings /\ Types \subseteq Strings
  /\ NoOwner = <<>>
  /\ Counted \subseteq Types \ {<<>>} /\ LockType # PresenceType
  /\ \A q \in Requests :
       /\ q.method \in {"Lock", "Release", "Fetch", "FetchAll"}
       /\ q.msg \in ClientMessages(q.method)
       /\ q.extra # <<>> => q.method = "Lock" /\ q.msg.resource # Nil /\ LaterField(q.extra)

VARIABLES
  value,    \* the column "value" of the row of each path
  rpc,      \* the call in progress
  granted   \* history: the resource of the Lock request behind each row

callVars == <<value, rpc, granted>>
apiVars == <<tableVars, notifierVars, callVars>>

-----------------------------------------------------------------------------
(* models/helpers.go; the codes are UNKNOWN = 0, LOCK = 1, PRESENCE = 2.   *)
GetTypeCode(ty) ==
  CASE ty = LockType -> 1 [] ty = PresenceType -> 2 [] OTHER -> 0

(* Mutant of GetType: the code is not looked at.                           *)
GetTypeAsGiven(r) == r.type

GetType(r) ==
  CASE r.code = 1 -> LockType [] r.code = 2 -> PresenceType [] OTHER -> r.type

(* Mutant of GetResource: the type is left as the client sent it.          *)
GetResourceAsSent(r) ==
  [r EXCEPT !.code = IF r.code = 0 THEN GetTypeCode(r.type) ELSE r.code]

GetResource(r) ==
  IF r.code = 0 THEN [r EXCEPT !.code = GetTypeCode(r.type)]
                ELSE [r EXCEPT !.type = GetType(r)]

(* handlers.validate on the type and the code of a request.                *)
Validate(ty, code) ==
  \/ code = 0 /\ ty \in Counted
  \/ code \in {1, 2} /\ ty \in {<<>>, GetType([type |-> ty, code |-> code])}

(* The getters of a nil resource return zero values.                       *)
Deref(r) == IF r = Nil THEN Blank ELSE r

(* What fetchLock and FetchAll make of a row.                              *)
AsResource(k) ==
  [key |-> k, owner |-> rows[k].owner, value |-> value[k],
   type |-> rows[k].type, code |-> GetTypeCode(rows[k].type)]

-----------------------------------------------------------------------------
(* The client's stub: the request as bytes.                                *)
RequestBytes(method, m) ==
  CASE method = "Lock" -> MarshalLockRequest(m)
    [] method = "Release" -> MarshalReleaseRequest(m)
    [] method = "Fetch" -> MarshalFetchRequest(m)
    [] method = "FetchAll" -> MarshalFetchAllRequest(m)

(* A Lock request of a later version: further fields in the request and in *)
(* its resource.                                                           *)
NewerBytes(m, extra) ==
  PutBytes(10, SizeResource(m.resource) + Len(extra), MarshalResource(m.resource) \o extra)
    \o PutVarint(16, m.ttl) \o extra

Send(q) ==
  /\ rpc = NoCall
  /\ rpc' = [pc |-> "sent", method |-> q.method, msg |-> q.msg, extra |-> q.extra,
             bytes |-> IF q.extra = <<>> THEN RequestBytes(q.method, q.msg)
                                         ELSE NewerBytes(q.msg, q.extra)]
  /\ UNCHANGED <<tableVars, value, granted>>

(* The server's generated handler decodes the bytes for the method called. *)
ServerDecodes(method, bytes) ==
  CASE method = "Lock" -> UnmarshalLockRequest(bytes)
    [] method = "Release" -> UnmarshalReleaseRequest(bytes)
    [] method = "Fetch" -> UnmarshalFetchRequest(bytes)
    [] method = "FetchAll" -> UnmarshalFetchAllRequest(bytes)

ReplyBytes(method, m) ==
  CASE method = "Lock" -> MarshalLockResponse(m)
    [] method = "Release" -> MarshalReleaseResponse(m)
    [] method = "Fetch" -> MarshalFetchResponse(m)
    [] method = "FetchAll" -> MarshalFetchAllResponse(m)

(* lost is history: the keys whose rows are missing from the reply because *)
(* they could not be read.                                                 *)
ReplyWithout(lost, m) ==
  rpc' = [pc |-> "replied", method |-> rpc.method, msg |-> rpc.msg,
          reply |-> m, lost |-> lost, bytes |-> ReplyBytes(rpc.method, m)]

Reply(m) == ReplyWithout({}, m)

(* A transaction has committed: the caller is told so, or gets an error    *)
(* because the answer of the database was lost.                            *)
Committed == Reply(<<>>) \/ rpc' = NoCall

ClientDecodes(method, bytes) ==
  CASE method = "Lock" -> UnmarshalLockResponse(bytes)
    [] method = "Release" -> UnmarshalReleaseResponse(bytes)
    [] method = "Fetch" -> UnmarshalFetchResponse(bytes)
    [] method = "FetchAll" -> UnmarshalFetchAllResponse(bytes)

(* The request of this method that the server has decoded, if there is one.*)
Arrived(method, decoded) ==
  IF rpc # NoCall /\ rpc.pc = "sent" /\ rpc.method = method
  THEN {d.val : d \in {u \in {decoded} : u.ok}} ELSE {}

-----------------------------------------------------------------------------
(* locketHandler.Lock past its checks, with SQLDB.Lock.  RegisterTTL, the  *)
(* last call of it, changes no state of this module: Expiration.tla has    *)
(* it, and the release of an expired lock is a Release to the table.       *)
Acceptable(req) ==
  LET r == Deref(req.resource) IN
  Validate(r.type, r.code) /\ req.ttl > 0 /\ r.owner # <<>>

HandleLock ==
  \E req \in Arrived("Lock", UnmarshalLockRequest(rpc.bytes)) :
    /\ Acceptable(req)
    /\ LET r == GetResource(req.resource) IN
       /\ DBLock(r.key, r.owner, r.type, req.ttl)
       /\ value' = [value EXCEPT ![r.key] = r.value]
       /\ granted' = [granted EXCEPT ![r.key] = rpc.msg.resource]
    /\ Committed

HandleRelease ==
  \E req \in Arrived("Release", UnmarshalReleaseRequest(rpc.bytes)) :
    /\ req.resource # Nil
    /\ DBRelease(req.resource.key, req.resource.owner)
    /\ granted' = [granted EXCEPT ![req.resource.key] = Nil]
    /\ Committed
    /\ UNCHANGED value

HandleFetch ==
  \E req \in Arrived("Fetch", UnmarshalFetchRequest(rpc.bytes)) :
    /\ Held(rows[req.key])
    /\ Reply([resource |-> AsResource(req.key)])
    /\ UNCHANGED <<tableVars, value, granted>>

(* The rows come in no particular order.                                   *)
Orders(S) == Bijection(1 .. Cardinality(S), S)

(* Rows can be missing from the answer, with no error: the loop ends when  *)
(* the next row cannot be had, and goes on to the next when a row cannot   *)
(* be scanned.                                                             *)
HandleFetchAll ==
  \E req \in Arrived("FetchAll", UnmarshalFetchAllRequest(rpc.bytes)) :
    /\ Validate(req.type, req.code)
    /\ LET ty == GetType(req)
           locks == FetchAll(IF ty = <<>> THEN Types ELSE {ty})
       IN \E lost \in SUBSET {l.key : l \in locks} :
            \E s \in Orders({AsResource(k) : k \in {l.key : l \in locks} \ lost}) :
              ReplyWithout(lost, [resources |-> s])
    /\ UNCHANGED <<tableVars, value, granted>>

(* Every other outcome is an error: bytes that do not decode, a request    *)
(* that is not valid, a collision, no such lock, or a transaction that did *)
(* not commit.                                                             *)
HandlerFails ==
  /\ rpc # NoCall /\ rpc.pc = "sent"
  /\ rpc' = NoCall
  /\ UNCHANGED <<tableVars, value, granted>>

Receive ==
  /\ rpc # NoCall /\ rpc.pc = "replied"
  /\ rpc' = NoCall
  /\ UNCHANGED <<tableVars, value, granted>>

(* The process ends and is started again, with the table as it was: a      *)
(* Release without a resource dereferences nil, which nothing recovers     *)
(* (handler.go:91, lock_db.go:103), an unrecoverable error of the database *)
(* makes the server exit, or the process is killed.                        *)
Restarts ==
  /\ rpc' = NoCall
  /\ EndRound
  /\ UNCHANGED <<tableVars, value, granted>>

-----------------------------------------------------------------------------
APIInit ==
  /\ rows \in InitialTables
  /\ TableInit
  /\ NotifierInit
  /\ value = [k \in Keys |-> <<>>]
  /\ rpc = NoCall
  /\ granted = [k \in Keys |-> Nil]

APINext ==
  \/ /\ \/ \E q \in Requests : Send(q)
        \/ HandleLock \/ HandleRelease \/ HandleFetch \/ HandleFetchAll
        \/ HandlerFails \/ Receive
     /\ Observe
     /\ UNCHANGED notifier
  \/ NotifierNext /\ UNCHANGED <<tableVars, callVars>>
  \/ Restarts

APISpec == APIInit /\ [][APINext]_apiVars

-----------------------------------------------------------------------------
SizeRequest(method, m) ==
  CASE method = "Lock" -> SizeLockRequest(m)
    [] method = "Release" -> SizeReleaseRequest(m)
    [] method = "Fetch" -> SizeFetchRequest(m)
    [] method = "FetchAll" -> SizeFetchAllRequest(m)

SizeReply(method, m) ==
  CASE method = "Lock" -> SizeLockResponse(m)
    [] method = "Release" -> SizeReleaseResponse(m)
    [] method = "Fetch" -> SizeFetchResponse(m)
    [] method = "FetchAll" -> SizeFetchAllResponse(m)

(* MarshalTo fills exactly the buffer that Marshal allocates with Size     *)
(* (locket.pb.go:827-1080 against 1109-1223): one byte less and it would   *)
(* write out of range, one more and the length that precedes a nested      *)
(* resource would be wrong.                                                *)
SizeExact ==
  rpc # NoCall =>
    /\ rpc.pc = "sent" /\ rpc.extra = <<>> => Len(rpc.bytes) = SizeRequest(rpc.method, rpc.msg)
    /\ rpc.pc = "replied" => Len(rpc.bytes) = SizeReply(rpc.method, rpc.reply)

(* Whatever one side sends is what the other side decodes: negative        *)
(* numbers, empty and long strings, absent and repeated resources, and the *)
(* fields of a later version, which are skipped (locket.pb.go:1329-2238).  *)
RoundTrip ==
  rpc # NoCall =>
    /\ rpc.pc = "sent" =>
         ServerDecodes(rpc.method, rpc.bytes) = Read(rpc.msg, Len(rpc.bytes) + 1)
    /\ rpc.pc = "replied" =>
         ClientDecodes(rpc.method, rpc.bytes) = Read(rpc.reply, Len(rpc.bytes) + 1)

(* The type a client means by a type and a code: the code, if it gives one.*)
Means(r) ==
  CASE r.code = 1 \/ r.type = LockType -> LockType
    [] r.code = 2 \/ r.type = PresenceType -> PresenceType
    [] OTHER -> <<>>

(* A Fetch returns the resource as the client that locked it last sent it, *)
(* with the type it meant given both ways, whichever way it gave it, and   *)
(* whether or not it was told that it has the lock (handler.go:42-112,     *)
(* helpers.go:3-35, lock_db.go:226-247).                                   *)
FetchReturnsLocked ==
  rpc # NoCall /\ rpc.pc = "replied" /\ rpc.method = "Fetch" =>
    LET got == ClientDecodes("Fetch", rpc.bytes).val.resource
        lock == granted[rpc.msg.key]
    IN lock # Nil =>
         got = [lock EXCEPT !.type = Means(lock), !.code = GetTypeCode(Means(lock))]

(* A FetchAll that is accepted lists the held locks of the type it means,  *)
(* no other, and leaves out only those whose row could not be read: how    *)
(* the locker gave the type, and how the caller gives it, make no          *)
(* difference, and a row of an unknown type is never among them            *)
(* (handler.go:114-179, lock_db.go:154-209; rows are lost at 177 and       *)
(* 182-185).                                                               *)
FetchAllByType ==
  rpc # NoCall /\ rpc.pc = "replied" /\ rpc.method = "FetchAll" =>
    LET got == Range(ClientDecodes("FetchAll", rpc.bytes).val.resources)
        TypeOf(k) == IF granted[k] = Nil THEN rows[k].type ELSE Means(granted[k])
    IN {r.key : r \in got}
         = {k \in Keys : Held(rows[k]) /\ TypeOf(k) = Means(rpc.msg)} \ rpc.lost
=============================================================================
