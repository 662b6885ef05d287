----------------------------- MODULE LocketWire ------------------------------
(***************************************************************************)
(* The messages of models/locket.pb.go and their protobuf encoding: Size,  *)
(* Marshal and Unmarshal of each message over the shared varint and        *)
(* skipping code.  The generated code repeats one template per field; here *)
(* a field is one operator and a message is the list of its fields.        *)
(*                                                                         *)
(* A string is the sequence of its bytes, of which nothing is asked.  The  *)
(* widths of the machine integers are parameters: WordBits is 64 and       *)
(* EnumBits is 32 in the code.                                             *)
(***************************************************************************)
EXTENDS Integers, Sequences, FiniteSetsExt

CONSTANTS
  WordBits,   \* width of int, int64 and uint64
  EnumBits,   \* width of TypeCode and of a field number (int32)
  Nil         \* a nil *Resource

(* The last byte of the longest varint carries as many bits as in the code *)
(* (one of a word, four of an enum).                                       *)
ASSUME WidthAssumption ==
  /\ WordBits \in Nat /\ WordBits % 7 = 64 % 7
  /\ EnumBits \in Nat /\ EnumBits % 7 = 32 % 7
  /\ EnumBits < WordBits

Pow2[n \in 0 .. WordBits] == IF n = 0 THEN 1 ELSE 2 * Pow2[n - 1]

Words == Pow2[WordBits]
Uint(x) == x % Words

TwosComplement(u, bits) == IF u >= Pow2[bits - 1] THEN u - Pow2[bits] ELSE u
Signed(v, bits) == TwosComplement(v % Pow2[bits], bits)

-----------------------------------------------------------------------------
(* Varints and Size.                                                       *)
EncodeVarint[v \in 0 .. Words - 1] ==
  IF v >= 128 THEN <<128 + (v % 128)>> \o EncodeVarint[v \div 128] ELSE <<v>>

Sov[x \in 0 .. Words - 1] ==
  IF x \div 128 = 0 THEN 1 ELSE 1 + Sov[x \div 128]

(* Mutant of SizeBytes: every length is taken to fit one byte.             *)
SizeBytesShort(n) == 1 + n + 1

SizeBytes(n) == 1 + n + Sov[n]
SizeString(s) == IF s = <<>> THEN 0 ELSE SizeBytes(Len(s))
SizeVarint(x) == IF x = 0 THEN 0 ELSE 1 + Sov[Uint(x)]

SizeResource(m) ==
  SizeString(m.key) + SizeString(m.owner) + SizeString(m.value)
    + SizeString(m.type) + SizeVarint(m.code)

SizeNested(r) == IF r = Nil THEN 0 ELSE SizeBytes(SizeResource(r))

SizeLockRequest(m) == SizeNested(m.resource) + SizeVarint(m.ttl)
SizeLockResponse(m) == 0
SizeReleaseRequest(m) == SizeNested(m.resource)
SizeReleaseResponse(m) == 0
SizeFetchRequest(m) == SizeString(m.key)
SizeFetchResponse(m) == SizeNested(m.resource)
SizeFetchAllRequest(m) == SizeString(m.type) + SizeVarint(m.code)

(* Of the first n resources of a list.                                     *)
SizeFirst(rs) ==
  LET size[n \in 0 .. Len(rs)] == IF n = 0 THEN 0 ELSE size[n - 1] + SizeNested(rs[n])
  IN size
SizeFetchAllResponse(m) == SizeFirst(m.resources)[Len(m.resources)]

-----------------------------------------------------------------------------
(* Marshal: the tag, the length and the payload of each field that is not  *)
(* zero.  The length of a nested message is its Size.                      *)
PutBytes(tag, n, s) == <<tag>> \o EncodeVarint[n] \o s
PutString(tag, s) == IF s = <<>> THEN <<>> ELSE PutBytes(tag, Len(s), s)
PutVarint(tag, x) == IF x = 0 THEN <<>> ELSE <<tag>> \o EncodeVarint[Uint(x)]

(* The tags are 8 * field number + wire type: 0xa, 0x12, 0x1a, 0x22, 0x28. *)
MarshalResource(m) ==
  PutString(10, m.key) \o PutString(18, m.owner) \o PutString(26, m.value)
    \o PutString(34, m.type) \o PutVarint(40, m.code)

PutNested(tag, r) ==
  IF r = Nil THEN <<>> ELSE PutBytes(tag, SizeResource(r), MarshalResource(r))

MarshalLockRequest(m) == PutNested(10, m.resource) \o PutVarint(16, m.ttl)
MarshalLockResponse(m) == <<>>
MarshalReleaseRequest(m) == PutNested(10, m.resource)
MarshalReleaseResponse(m) == <<>>
MarshalFetchRequest(m) == PutString(10, m.key)
MarshalFetchResponse(m) == PutNested(10, m.resource)
MarshalFetchAllRequest(m) == PutString(10, m.type) \o PutVarint(16, m.code)

(* The first n resources of a list.                                        *)
MarshalFirst(rs) ==
  LET bytes[n \in 0 .. Len(rs)] == IF n = 0 THEN <<>> ELSE bytes[n - 1] \o PutNested(10, rs[n])
  IN bytes
MarshalFetchAllResponse(m) == MarshalFirst(m.resources)[Len(m.resources)]

-----------------------------------------------------------------------------
(* Unmarshal.  A reader returns the value and the index after it, or fails *)
(* (an overlong varint, a truncated input, a negative length...).          *)
Failed == [ok |-> FALSE]
Read(v, i) == [ok |-> TRUE, val |-> v, next |-> i]

(* The number that the last n bytes up to index e stand for, the low seven *)
(* bits first.                                                             *)
Groups(bs, e) ==
  LET number[n \in 0 .. e] ==
        IF n = 0 THEN 0 ELSE (bs[e + 1 - n] % 128) + 128 * number[n - 1]
  IN number

(* Where a varint at i can end; it fails if it does not within a word.     *)
Ends(bs, i) == {j \in i .. i + (WordBits \div 7) : j <= Len(bs) /\ bs[j] < 128}

ReadGroups(bs, i, e) == Read(Uint(Groups(bs, e)[e + 1 - i]), e + 1)
ReadFirst(bs, i, ends) == IF ends = {} THEN Failed ELSE ReadGroups(bs, i, Min(ends))
DecodeVarint(bs, i) == ReadFirst(bs, i, Ends(bs, i))

DecodeSigned(v, bits) == IF v.ok THEN Read(Signed(v.val, bits), v.next) ELSE Failed

(* The bytes that the length n, just read, announces.  In the code the     *)
(* index is a word: a length near its limit makes postIndex negative, and  *)
(* the slice panics (locket.pb.go:1381-1385).  Here that length fails as   *)
(* any other that is too long; Marshal never writes one.                   *)
Announced(bs, n) ==
  IF n.ok /\ n.val >= 0 /\ n.next + n.val - 1 <= Len(bs)
  THEN Read(SubSeq(bs, n.next, n.next + n.val - 1), n.next + n.val) ELSE Failed

DecodeLength(bs, i) == DecodeSigned(DecodeVarint(bs, i), WordBits)
DecodeBytes(bs, i) == Announced(bs, DecodeLength(bs, i))

-----------------------------------------------------------------------------
(* skipLocket: the index after a field whose number is not known, with the *)
(* depth of the groups that are open there.  skipLocket calls itself for   *)
(* the fields of a group, and a group ends at its end-group tag.           *)
Past(n, depth) == IF n.ok THEN Read(depth, n.next) ELSE Failed
PastLength(n, depth) == IF n.ok /\ n.val >= 0 THEN Read(depth, n.next + n.val) ELSE Failed

(* Mutant of SkipTagged: a length-delimited field is skipped without its   *)
(* payload.                                                                *)
SkipTaggedPrefix(bs, w, depth) ==
  IF ~w.ok THEN Failed
  ELSE CASE w.val % 8 \in {0, 2} -> Past(DecodeVarint(bs, w.next), depth)
         [] w.val % 8 = 1 -> Read(depth, w.next + 8)
         [] w.val % 8 = 5 -> Read(depth, w.next + 4)
         [] OTHER -> Failed

SkipTagged(bs, w, depth) ==
  IF ~w.ok THEN Failed
  ELSE CASE w.val % 8 = 0 -> Past(DecodeVarint(bs, w.next), depth)
         [] w.val % 8 = 1 -> Read(depth, w.next + 8)
         [] w.val % 8 = 2 -> PastLength(DecodeLength(bs, w.next), depth)
         [] w.val % 8 = 3 -> Read(depth + 1, w.next)
         [] w.val % 8 = 4 -> Read(IF depth = 0 THEN 0 ELSE depth - 1, w.next)
         [] w.val % 8 = 5 -> Read(depth, w.next + 4)
         [] OTHER -> Failed

SkipStates == [ok : {TRUE}, val : Nat, next : Nat \ {0}] \cup {Failed}

SkipLoop(bs) ==
  LET skip[s \in SkipStates] ==
        IF s.ok /\ s.val > 0 THEN skip[SkipTagged(bs, DecodeVarint(bs, s.next), s.val)] ELSE s
  IN skip

SkipLocket(bs, i) == SkipLoop(bs)[SkipTagged(bs, DecodeVarint(bs, i), 0)]

-----------------------------------------------------------------------------
(* The fields of each message, in the order of their numbers.              *)
Field(name, kind) == [name |-> name, kind |-> kind]

Bytes == Seq(Nat)
Resources == [key : Bytes, owner : Bytes, value : Bytes, type : Bytes, code : Int]
LockRequests == [resource : Resources \cup {Nil}, ttl : Int]
Carriers == [resource : Resources \cup {Nil}]
FetchRequests == [key : Bytes]
FetchAllRequests == [type : Bytes, code : Int]
FetchAllResponses == [resources : Seq(Resources)]

(* What clients put into them: numbers of their widths, and strings small  *)
(* enough for the size of a message to be an int.                          *)
IntsOf(bits) == -Pow2[bits - 1] .. Pow2[bits - 1] - 1
Strings == {s \in Bytes : Len(s) <= Pow2[WordBits - 5]}
SentResources ==
  [key : Strings, owner : Strings, value : Strings, type : Strings, code : IntsOf(EnumBits)]
SentLockRequests == [resource : SentResources \cup {Nil}, ttl : IntsOf(WordBits)]
SentCarriers == [resource : SentResources \cup {Nil}]
SentFetchRequests == [key : Strings]
SentFetchAllRequests == [type : Strings, code : IntsOf(EnumBits)]
SentFetchAllResponses == [resources : Seq(SentResources)]

ASSUME NilAssumption == Nil \notin Resources

ResourceFields ==
  <<Field("key", "string"), Field("owner", "string"), Field("value", "string"),
    Field("type", "string"), Field("code", "enum")>>
LockRequestFields == <<Field("resource", "message"), Field("ttl", "int64")>>
CarrierFields == <<Field("resource", "message")>>
FetchRequestFields == <<Field("key", "string")>>
FetchAllRequestFields == <<Field("type", "string"), Field("code", "enum")>>
FetchAllResponseFields == <<Field("resources", "repeated")>>

Blank == [key |-> <<>>, owner |-> <<>>, value |-> <<>>, type |-> <<>>, code |-> 0]

WireType(kind) == IF kind \in {"enum", "int64"} THEN 0 ELSE 2

States(messages) == [ok : {TRUE}, val : messages, next : Nat \ {0}] \cup {Failed}

(* The condition of the loop of every Unmarshal, which has put the fields  *)
(* before st.next into the message st.val.                                 *)
Unmarshalled(bs, st) == st.ok => st.next > Len(bs)

FieldNumber(tag) == Signed(tag.val \div 8, EnumBits)

SkipUnknown(bs, m, s) == IF s.ok /\ s.next - 1 <= Len(bs) THEN Read(m, s.next) ELSE Failed

(* A turn of that loop: the tag at st.next, its field number, and the      *)
(* value after it if the message has such a field.                         *)
Turn(bs, fields, st, tag, num, v) ==
  IF tag.val % 8 = 4 \/ num <= 0 THEN Failed
  ELSE IF num \notin DOMAIN fields THEN SkipUnknown(bs, st.val, SkipLocket(bs, st.next))
  ELSE IF tag.val % 8 # WireType(fields[num].kind) \/ ~v.ok THEN Failed
  ELSE Read([st.val EXCEPT ![fields[num].name] = v.val], v.next)

(* A field of a later locket.proto, as protobuf encodes it: a tag with a   *)
(* number above all of this one's, then what the wire type asks for.  A    *)
(* group, which proto3 itself does not write, has at most one field here.  *)
FieldNumbers == 1 .. Pow2[EnumBits - 3] - 1
EncodedTag(num, w) == EncodeVarint[8 * num + w]
Beginnings(x) == {SubSeq(x, 1, i) : i \in 0 .. Len(x)}
Endings(x) == {SubSeq(x, i, Len(x)) : i \in 1 .. Len(x) + 1}

Payload(w, y) ==
  \/ w = 0 /\ \E v \in 0 .. Words - 1 : y = EncodeVarint[v]
  \/ w = 1 /\ Len(y) = 8
  \/ w = 2 /\ \E b \in Endings(y) : y = EncodeVarint[Len(b)] \o b
  \/ w = 5 /\ Len(y) = 4

PlainField(num, x) ==
  \E w \in {0, 1, 2, 5}, y \in Endings(x) : x = EncodedTag(num, w) \o y /\ Payload(w, y)

GroupField(num, x) ==
  \E y \in Endings(x) :
    /\ x = EncodedTag(num, 3) \o y
    /\ \E g \in Beginnings(y) :
         /\ y = g \o EncodedTag(num, 4)
         /\ g = <<>> \/ \E k \in FieldNumbers : PlainField(k, g)

LaterField(x) ==
  /\ x \in Strings
  /\ \E num \in FieldNumbers :
       num > Len(ResourceFields) /\ (PlainField(num, x) \/ GroupField(num, x))

DecodePlain(bs, i, kind) ==
  CASE kind = "enum" -> DecodeSigned(DecodeVarint(bs, i), EnumBits)
    [] kind = "int64" -> DecodeSigned(DecodeVarint(bs, i), WordBits)
    [] kind = "string" -> DecodeBytes(bs, i)

(* Unmarshal of a Resource, whose fields are plain.                        *)
ResourceField(bs, st, tag, num) ==
  Turn(bs, ResourceFields, st, tag, num, DecodePlain(bs, tag.next, ResourceFields[num].kind))
ResourceTurn(bs, st, tag) ==
  IF tag.ok THEN ResourceField(bs, st, tag, FieldNumber(tag)) ELSE Failed

ResourceLoop(bs) ==
  LET loop[st \in States(Resources)] ==
        IF Unmarshalled(bs, st) THEN st ELSE loop[ResourceTurn(bs, st, DecodeVarint(bs, st.next))]
  IN loop

UnmarshalResource(bs, m) == ResourceLoop(bs)[Read(m, 1)]

Moved(r, i) == IF r.ok THEN Read(r.val, i) ELSE Failed
Appended(s, r) == IF r.ok THEN Read(Append(s, r.val), r.next) ELSE Failed

DecodeNested(b, m) ==
  IF b.ok THEN Moved(UnmarshalResource(b.val, m), b.next) ELSE Failed

(* The value of a field at i, given what the message holds for it so far:  *)
(* a nested message is merged, a repeated one is appended.                 *)
DecodeField(bs, i, kind, old) ==
  CASE kind = "message" -> DecodeNested(DecodeBytes(bs, i), IF old = Nil THEN Blank ELSE old)
    [] kind = "repeated" -> Appended(old, DecodeNested(DecodeBytes(bs, i), Blank))
    [] OTHER -> DecodePlain(bs, i, kind)

MessageField(bs, fields, st, tag, num) ==
  Turn(bs, fields, st, tag, num,
       DecodeField(bs, tag.next, fields[num].kind, st.val[fields[num].name]))
MessageTurn(bs, fields, st, tag) ==
  IF tag.ok THEN MessageField(bs, fields, st, tag, FieldNumber(tag)) ELSE Failed

MessageLoop(bs, fields, messages) ==
  LET loop[st \in States(messages)] ==
        IF Unmarshalled(bs, st) THEN st
        ELSE loop[MessageTurn(bs, fields, st, DecodeVarint(bs, st.next))]
  IN loop

Decode(bs, fields, messages, m) == MessageLoop(bs, fields, messages)[Read(m, 1)]

UnmarshalLockRequest(bs) ==
  Decode(bs, LockRequestFields, LockRequests, [resource |-> Nil, ttl |-> 0])
UnmarshalLockResponse(bs) == Decode(bs, <<>>, {<<>>}, <<>>)
UnmarshalReleaseRequest(bs) == Decode(bs, CarrierFields, Carriers, [resource |-> Nil])
UnmarshalReleaseResponse(bs) == Decode(bs, <<>>, {<<>>}, <<>>)
UnmarshalFetchRequest(bs) == Decode(bs, FetchRequestFields, FetchRequests, [key |-> <<>>])
UnmarshalFetchResponse(bs) == Decode(bs, CarrierFields, Carriers, [resource |-> Nil])
UnmarshalFetchAllRequest(bs) ==
  Decode(bs, FetchAllRequestFields, FetchAllRequests, [type |-> <<>>, code |-> 0])
UnmarshalFetchAllResponse(bs) ==
  Decode(bs, FetchAllResponseFields, FetchAllResponses, [resources |-> <<>>])
=============================================================================
