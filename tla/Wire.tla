---------------------------------- MODULE Wire ----------------------------------
(***************************************************************************)
(* The bytes of a message: the generated marshalling code of               *)
(* protos/pb/gen/schema_vtproto.pb.go and the frame around it.  A message  *)
(* is a record with the fields of gen.Request and gen.Response (a request  *)
(* and an event leave code at 0), a payload is a sequence of bytes.  TLC's *)
(* integers have 32 bits, so a varint is read up to Huge and every larger  *)
(* one as Huge: ids and codes stay below, and payloads are shorter, so     *)
(* that a longer length is an error, as one that is negative as an int is  *)
(* in the code.  A field number is computed from the bytes of its tag, as  *)
(* it is truncated to 32 bits.                                             *)
(***************************************************************************)
EXTENDS Integers, Sequences, FiniteSetsExt

\* The zstd library, which is external.
CONSTANTS
  EncodeAll(_),      \* the compressed form of a payload
  DecodeAll(_),      \* the payload that a compressed form stands for ...
  Decompressible(_)  \* ... unless it is not the compressed form of anything

Huge == 268435455    \* 2^28 - 1

Byte == 0..255
Message ==
  [kind : {"request", "response", "event"}, headers : Seq(Seq(Byte)), method : Seq(Byte),
   id : Nat, body : Seq(Byte), code : Nat, unknown : Seq(Byte)]

Blank(kind) == [kind |-> kind, headers |-> <<>>, method |-> <<>>, id |-> 0,
                body |-> <<>>, code |-> 0, unknown |-> <<>>]

----------------------------------------------------------------------------
(* Varints (protohelpers): groups of 7 bits, least significant first, the  *)
(* high bit set on all but the last.                                       *)

\* bits.Len64
BitLen[v \in Nat] == IF v = 0 THEN 0 ELSE 1 + BitLen[v \div 2]

\* (bits.Len64(v | 1) + 6) / 7
SizeOfVarint(v) == (BitLen[IF v = 0 THEN 1 ELSE v] + 6) \div 7

EncodeVarint[v \in Nat] ==
  IF v < 128 THEN <<v>> ELSE <<(v % 128) + 128>> \o EncodeVarint[v \div 128]

\* The number whose groups of 7 bits, least significant first, are a, b, c and e.
FromGroups(a, b, c, e) == a + 128 * b + 16384 * c + 2097152 * e

(* The loop "for shift := uint(0); ; shift += 7": at most ten groups       *)
(* (ErrIntOverflow), none past the end (ErrUnexpectedEOF).  Four groups    *)
(* hold what is not larger than Huge.                                      *)
Varint(d, i) ==
  LET ends == {k \in 1..10 : i + k <= Len(d) /\ d[i + k] < 128}
      last == Min(ends)
      Group(k) == IF k <= last THEN d[i + k] % 128 ELSE 0
  IN  IF ends = {}
        THEN [ok |-> FALSE, val |-> 0, next |-> i]
        ELSE [ok |-> TRUE, next |-> i + last,
              val |-> IF \E k \in 5..10 : Group(k) # 0
                        THEN Huge
                        ELSE FromGroups(Group(1), Group(2), Group(3), Group(4))]

----------------------------------------------------------------------------
(* MarshalToSizedBufferVT and SizeVT.  The code writes from the end of the *)
(* buffer to its start: what it leaves there, read forwards, is Marshal.   *)

BytesField(tag, b) == IF b = <<>> THEN <<>> ELSE <<tag>> \o EncodeVarint[Len(b)] \o b
VarintField(tag, v) == IF v = 0 THEN <<>> ELSE <<tag>> \o EncodeVarint[v]

(* A header is written even when it is empty: it has its place in the list.*)
HeaderField(h) == <<10>> \o EncodeVarint[Len(h)] \o h

HeaderFields(headers) ==
  LET upTo[n \in 0..Len(headers)] ==
        IF n = 0 THEN <<>> ELSE upTo[n - 1] \o HeaderField(headers[n])
  IN  upTo[Len(headers)]

Marshal(m) ==
  HeaderFields(m.headers)
    \o BytesField(18, m.method) \o VarintField(24, m.id) \o BytesField(34, m.body)
    \o VarintField(40, m.code) \o m.unknown

SizedBytes(b) == 1 + Len(b) + SizeOfVarint(Len(b))

SizedHeaders(headers) ==
  LET upTo[n \in 0..Len(headers)] ==
        IF n = 0 THEN 0 ELSE upTo[n - 1] + SizedBytes(headers[n])
  IN  upTo[Len(headers)]

\* Mutation of SizeVT: a zero code is counted, though Marshal leaves it out.
SizeVTCountsZero(m) ==
  SizedHeaders(m.headers)
    + (IF m.method = <<>> THEN 0 ELSE SizedBytes(m.method))
    + (IF m.id = 0 THEN 0 ELSE 1 + SizeOfVarint(m.id))
    + (IF m.body = <<>> THEN 0 ELSE SizedBytes(m.body))
    + 1 + SizeOfVarint(m.code) + Len(m.unknown)

SizeVT(m) ==
  SizedHeaders(m.headers)
    + (IF m.method = <<>> THEN 0 ELSE SizedBytes(m.method))
    + (IF m.id = 0 THEN 0 ELSE 1 + SizeOfVarint(m.id))
    + (IF m.body = <<>> THEN 0 ELSE SizedBytes(m.body))
    + (IF m.code = 0 THEN 0 ELSE 1 + SizeOfVarint(m.code))
    + Len(m.unknown)

----------------------------------------------------------------------------
(* UnmarshalVT, one round of its loop: the field that starts at index i of *)
(* d is put into m.  i counts the bytes already read, as iNdEx does; tag   *)
(* is the varint at i and arg the one after it, if there is one.           *)

Bad(m, i) == [ok |-> FALSE, msg |-> m, next |-> i]
Good(m, i) == [ok |-> TRUE, msg |-> m, next |-> i]

(* wire & 7, and int32(wire >> 3), of which only the sign matters when it  *)
(* is negative: the bits 3 to 34 of a tag are in its first five groups.    *)
WireType(d, i) == d[i + 1] % 8

FieldNum(d, i, tag) ==
  LET Group(k) == IF i + k <= tag.next THEN d[i + k] % 128 ELSE 0
  IN  IF Group(5) >= 64
        THEN -1
        ELSE Group(1) \div 8 + 16 * FromGroups(Group(2), Group(3), Group(4), Group(5))

(* protohelpers.Skip on a field that is not part of a group.               *)
SkipTo(wireType, tag, arg) ==
  CASE wireType = 0 /\ arg.ok -> arg.next
    [] wireType = 1 -> tag.next + 8
    [] wireType = 2 /\ arg.ok -> arg.next + arg.val
    [] wireType = 5 -> tag.next + 4
    [] OTHER -> Huge

PutBytes(m, num, b) ==
  CASE num = 1 -> [m EXCEPT !.headers = Append(@, b)]
    [] num = 2 -> [m EXCEPT !.method = b]
    [] num = 4 -> [m EXCEPT !.body = b]

PutVarint(m, num, v) == IF num = 3 THEN [m EXCEPT !.id = v] ELSE [m EXCEPT !.code = v]

VarintFields(m) == IF m.kind = "response" THEN {3, 5} ELSE {3}

\* Mutation of UnmarshalField: a field is not checked against the end of the
\* payload (the check "postIndex > l" is missing).
UnmarshalFieldUnchecked(m, d, i, tag, arg) ==
  LET num == FieldNum(d, i, tag)
      wireType == WireType(d, i)
      postIndex == arg.next + arg.val
      skip == SkipTo(wireType, tag, arg)
  IN  IF ~tag.ok \/ wireType = 4 \/ num <= 0 THEN Bad(m, i) ELSE
      CASE num \in {1, 2, 4} ->
             IF wireType = 2 /\ arg.ok THEN Good(m, postIndex) ELSE Bad(m, i)
        [] num \in VarintFields(m) ->
             IF wireType = 0 /\ arg.ok
               THEN Good(PutVarint(m, num, arg.val), arg.next) ELSE Bad(m, i)
        [] OTHER -> IF skip <= Len(d) THEN Good(m, skip) ELSE Bad(m, i)

UnmarshalField(m, d, i, tag, arg) ==
  LET num == FieldNum(d, i, tag)
      wireType == WireType(d, i)
      postIndex == arg.next + arg.val
      skip == SkipTo(wireType, tag, arg)
  IN  IF ~tag.ok \/ wireType = 4 \/ num <= 0 THEN Bad(m, i) ELSE
      CASE num \in {1, 2, 4} ->
             IF wireType = 2 /\ arg.ok /\ postIndex <= Len(d)
               THEN Good(PutBytes(m, num, SubSeq(d, arg.next + 1, postIndex)), postIndex)
               ELSE Bad(m, i)
        [] num \in VarintFields(m) ->
             IF wireType = 0 /\ arg.ok
               THEN Good(PutVarint(m, num, arg.val), arg.next) ELSE Bad(m, i)
        [] OTHER -> IF skip <= Len(d)
                      THEN Good([m EXCEPT !.unknown = @ \o SubSeq(d, i + 1, skip)], skip)
                      ELSE Bad(m, i)

----------------------------------------------------------------------------
(* The headers of a request in the hands of a handler (ctx.go): a list in  *)
(* which keys and values alternate.                                        *)

\* Mutation of GetHeader: every element is taken for a key ("i++").
GetHeaderStepsOne(headers, key) ==
  LET hits == {i \in DOMAIN headers : headers[i] = key}
  IN  CASE hits = {} -> [is |-> "default", val |-> <<>>]
        [] hits # {} /\ Min(hits) = Len(headers) -> [is |-> "panic", val |-> <<>>]
        [] OTHER -> [is |-> "value", val |-> headers[Min(hits) + 1]]

(* The first key that matches decides; a key without a value is an index   *)
(* out of range.                                                           *)
GetHeader(headers, key) ==
  LET hits == {i \in DOMAIN headers : i % 2 = 1 /\ headers[i] = key}
  IN  CASE hits = {} -> [is |-> "default", val |-> <<>>]
        [] hits # {} /\ Min(hits) = Len(headers) -> [is |-> "panic", val |-> <<>>]
        [] OTHER -> [is |-> "value", val |-> headers[Min(hits) + 1]]

----------------------------------------------------------------------------
(* The frame: a big-endian 32-bit length that counts the flag and the      *)
(* payload, the flag, the payload.                                         *)

headerSize == 5

PutUint32(n) == <<(n \div 16777216) % 256, (n \div 65536) % 256, (n \div 256) % 256, n % 256>>
Uint32(d) == d[1] * 16777216 + d[2] * 65536 + d[3] * 256 + d[4]

Flag(kind) == CASE kind = "request" -> 1 [] kind = "response" -> 2 [] kind = "event" -> 3
ZstdFlag(kind) == Flag(kind) + 3
KindOf(flag) == CASE flag \in {1, 4} -> "request" [] flag \in {2, 5} -> "response"
                  [] flag \in {3, 6} -> "event" [] OTHER -> "unknown"

(* An encoder, or a decoder, is taken from its pool and put back: neither  *)
(* keeps anything from one call to the next.                               *)
CompressZstd(src) == EncodeAll(src)
DecompressZstd(src) == DecodeAll(src)
================================================================================
