--------------------------------- MODULE Codec ---------------------------------
(***************************************************************************)
(* A message from its encoder to the reader at the other end of a stream:  *)
(* EncoderImpl with its pool of buffers (internal/encoder.go), the bytes   *)
(* on the stream, and the read cycle with its reused buffer and pooled     *)
(* message objects.  The reader is a client, which is sent responses       *)
(* (transport/quic/client/multiplexer.go), or a server, which is sent      *)
(* requests and events (server.go); the two loops read frames alike.       *)
(*                                                                         *)
(* Several goroutines encode, one reads.  Besides what the encoders write  *)
(* the peer may send frames of its own making (RawFrames: another version  *)
(* of the schema, an unknown flag, a payload that does not parse).         *)
(***************************************************************************)
EXTENDS Wire

CONSTANTS
  Messages,              \* the messages the encoders send, each once
  RawFrames,             \* [raw |-> bytes]: frames from a peer that is not this encoder
  Waiting,               \* the ids for which a client's call is waiting
  MaxFrames,             \* bound on the frames sent in a behaviour
  Encoders,              \* goroutines that encode
  Buffers,               \* *Buffer objects
  defaultBufSize,        \* 1024 in the code
  compressionThreshold,  \* 16384 in the code
  None

ASSUME SizesAssumption == defaultBufSize \in Nat /\ compressionThreshold \in Nat
ASSUME WaitingAssumption == Waiting \subseteq Nat
ASSUME NoneAssumption ==
  None \notin Message /\ None \notin [buf : Buffers, used : Nat, msg : Messages]

\* The application builds a message field by field: it cannot set unknown fields,
\* and only a response has a code.
ASSUME MessagesAssumption ==
  \A m \in Messages :
    /\ m \in Message
    /\ m.unknown = <<>>
    /\ m.kind # "response" => m.code = 0
    /\ m.id <= Huge /\ m.code <= Huge /\ Len(Marshal(m)) < Huge

\* Whatever else the peer sends keeps to the frame format.
ASSUME RawFramesAssumption ==
  \A f \in RawFrames :
    /\ f \notin Messages
    /\ f.raw \in Seq(Byte) /\ Len(f.raw) >= 4 /\ Len(f.raw) < Huge
    /\ Len(f.raw) = 4 + Uint32(f.raw)

\* What the library has compressed it gives back, and it makes bytes of bytes.
ASSUME ZstdAssumption ==
  /\ \A m \in Messages :
       LET z == EncodeAll(Marshal(m))
       IN  z \in Seq(Byte) /\ Decompressible(z) /\ DecodeAll(z) = Marshal(m)
  /\ \A f \in RawFrames :
       LET z == SubSeq(f.raw, 6, Len(f.raw))
       IN  Decompressible(z) => DecodeAll(z) \in Seq(Byte) /\ Len(DecodeAll(z)) < Huge

VARIABLES
  data,       \* data[b]: the backing array of buffer b
  bufferPool, \* the buffers in bufferPool
  held,       \* held[e]: the buffer encoder e is about to write, or None
  sent,       \* history: the frames put on the stream, in order
  stream,     \* the bytes on the stream that are not read yet
  reader,     \* who reads: "client" or "server"
  chansMap,   \* the ids in a client's map of waiting calls
  phase,      \* the read cycle: "read", "unmarshal", "over" (returned), "panicked"
  reqBuff,    \* the backing array of the slice it reads payloads into
  dAtA,       \* the payload UnmarshalVT works on
  iNdEx,      \* how much of it has been read
  cur,        \* the message object being filled, or None
  objects,    \* the pooled gen.Request and gen.Response of the reader
  consumed,   \* how many frames have been read
  delivered   \* history: <<frame number, message>> for every decoded message

encVars == <<data, bufferPool, held>>
readVars == <<chansMap, phase, reqBuff, dAtA, iNdEx, cur, objects, consumed, delivered>>
vars == <<encVars, sent, stream, reader, readVars>>

Type(kind) == IF kind = "response" THEN "response" ELSE "request"

Init ==
  /\ data = [b \in Buffers |-> [k \in 1..defaultBufSize |-> 0]]
  /\ bufferPool = Buffers
  /\ held = [e \in Encoders |-> None]
  /\ sent = <<>>
  /\ stream = <<>>
  /\ reader \in {"client", "server"}
  /\ chansMap = IF reader = "client" THEN Waiting ELSE {}
  /\ phase = "read"
  /\ reqBuff = <<>>
  /\ dAtA = <<>>
  /\ iNdEx = 0
  /\ cur = None
  /\ objects = [t \in {"request", "response"} |-> Blank(t)]
  /\ consumed = 0
  /\ delivered = <<>>

----------------------------------------------------------------------------
(* Encoding.                                                               *)


(* getBuffer: the array of a pooled buffer, resliced, or a new array (the  *)
(* buffer object of the model then stands for the new *Buffer).            *)
GetBuffer(array, size) ==
  IF Len(array) < size THEN [array |-> [k \in 1..size |-> 0], len |-> size]
                       ELSE [array |-> array, len |-> size]

(* copy(array[at:], bytes)                                                 *)
CopyTo(array, at, bytes) ==
  SubSeq(array, 1, at) \o bytes \o SubSeq(array, at + Len(bytes) + 1, Len(array))

(* encodeMessage on a buffer's array: marshal into the end of the payload  *)
(* slice, compress if that is worth it, then the flag and the length.      *)
Encoded(m, array) ==
  LET buf == GetBuffer(array, headerSize + SizeVT(m))
      n == Len(Marshal(m))
      marshalled == CopyTo(buf.array, buf.len - n, Marshal(m))
      payload == SubSeq(marshalled, headerSize + 1, headerSize + n)
      compressed == CompressZstd(payload)
      shrinks == n > compressionThreshold /\ Len(compressed) < n
      payloadLen == IF shrinks THEN Len(compressed) ELSE n
      body == IF shrinks THEN CopyTo(marshalled, headerSize, compressed) ELSE marshalled
      flag == IF shrinks THEN ZstdFlag(m.kind) ELSE Flag(m.kind)
  IN  [array |-> CopyTo(body, 0, PutUint32(1 + payloadLen) \o <<flag>>),
       used |-> headerSize + payloadLen]

Pending(m) == \E e \in Encoders : held[e] # None /\ held[e].msg = m
Room == Len(sent) + Cardinality({e \in Encoders : held[e] # None}) < MaxFrames

\* A client is sent responses, a server requests and events.
MeantFor(m) == IF reader = "client" THEN m.kind = "response" ELSE m.kind # "response"

EncodeMessage(e, m) ==
  /\ MeantFor(m)
  /\ held[e] = None
  /\ Room
  /\ m \notin Range(sent)
  /\ ~Pending(m)
  /\ \E b \in bufferPool :
       LET enc == Encoded(m, data[b])
       IN  /\ data' = [data EXCEPT ![b] = enc.array]
           /\ held' = [held EXCEPT ![e] = [buf |-> b, used |-> enc.used, msg |-> m]]
           /\ bufferPool' = bufferPool \ {b}
  /\ UNCHANGED <<sent, stream, reader, readVars>>

(* stream.Write(buf.Bytes()); buf.Release(): quic-go keeps the writes of   *)
(* two goroutines to one stream apart.                                     *)
WriteFrame(e) ==
  /\ held[e] # None
  /\ stream' = stream \o SubSeq(data[held[e].buf], 1, held[e].used)
  /\ sent' = Append(sent, held[e].msg)
  /\ bufferPool' = bufferPool \union {held[e].buf}
  /\ held' = [held EXCEPT ![e] = None]
  /\ UNCHANGED <<data, reader, readVars>>

(* External: a peer that does not use this encoder.                        *)
PeerSends(f) ==
  /\ Room
  /\ f \notin Range(sent)
  /\ stream' = stream \o f.raw
  /\ sent' = Append(sent, f)
  /\ UNCHANGED <<encVars, reader, readVars>>

----------------------------------------------------------------------------
(* Reading.                                                                *)

(* maybeDecompress: which payloads are handed on as they are.              *)
Plain(flag) == flag \notin {4, 5, 6}

(* The frame at the head of the stream is complete: io.ReadFull returns    *)
(* with the length, the flag and the payload.                              *)
Available ==
  /\ Len(stream) >= 4
  /\ \/ Uint32(stream) < 1
     \/ Len(stream) >= 4 + Uint32(stream)

payloadOf == SubSeq(stream, headerSize + 1, 4 + Uint32(stream))
flagOf == stream[headerSize]

(* io.ReadFull(s, reqBuff), after reqBuff was made or resliced: what is in *)
(* its array then, and the slice that is handed on.                        *)
Received(array, payload) ==
  IF Len(array) < Len(payload) THEN payload ELSE CopyTo(array, 0, payload)

handedOn == SubSeq(Received(reqBuff, payloadOf), 1, Len(payloadOf))

(* The kinds of message for which the reader's switch has a case.          *)
Cases == IF reader = "client" THEN {"request", "response", "event"} ELSE {"request", "event"}

(* "invalid frame length": readCycle returns, the stream is closed.        *)
ReadInvalidLength ==
  /\ phase = "read"
  /\ Available
  /\ Uint32(stream) < 1
  /\ stream' = SubSeq(stream, 5, Len(stream))
  /\ phase' = "over"
  /\ consumed' = consumed + 1
  /\ UNCHANGED <<encVars, sent, reader, chansMap, reqBuff, dAtA, iNdEx, cur, objects, delivered>>

Takes(ok) ==
  /\ phase = "read"
  /\ Available
  /\ Uint32(stream) >= 1
  /\ ok = /\ KindOf(flagOf) \in Cases
          /\ Plain(flagOf) \/ Decompressible(handedOn)
  /\ reqBuff' = Received(reqBuff, payloadOf)
  /\ stream' = SubSeq(stream, 5 + Uint32(stream), Len(stream))
  /\ consumed' = consumed + 1
  /\ UNCHANGED <<encVars, sent, reader, chansMap, delivered>>

(* No case for the flag, or the payload does not decompress: next frame.   *)
ReadIgnored ==
  /\ Takes(FALSE)
  /\ UNCHANGED <<phase, dAtA, iNdEx, cur, objects>>

(* GetRequest or GetResponse, and UnmarshalVT begins.                      *)
ReadFrame ==
  /\ Takes(TRUE)
  /\ phase' = "unmarshal"
  /\ dAtA' = IF Plain(flagOf) THEN handedOn ELSE DecompressZstd(handedOn)
  /\ iNdEx' = 0
  /\ cur' = [objects[Type(KindOf(flagOf))] EXCEPT !.kind = KindOf(flagOf)]
  /\ UNCHANGED objects

\* Mutation of Released: the object keeps its body when it goes back to the
\* pool.
ReleasedKeepsBody(m) == [Blank(Type(m.kind)) EXCEPT !.body = m.body]

(* ReleaseRequest and ReleaseResponse.                                     *)
Released(m) == Blank(Type(m.kind))

Release ==
  /\ objects' = [objects EXCEPT ![Type(cur.kind)] = Released(cur)]
  /\ cur' = None
  /\ phase' = "read"
  /\ dAtA' = <<>>
  /\ iNdEx' = 0

(* A round of UnmarshalVT's loop.  On an error the object is released and  *)
(* the read cycle goes on with the next frame.                             *)
UnmarshalRound ==
  /\ phase = "unmarshal"
  /\ iNdEx < Len(dAtA)
  /\ \E tag \in {Varint(dAtA, iNdEx)} : \E arg \in {Varint(dAtA, tag.next)} :
     \E f \in {UnmarshalField(cur, dAtA, iNdEx, tag, arg)} :
       \/ f.ok /\ cur' = f.msg /\ iNdEx' = f.next /\ UNCHANGED <<phase, dAtA, objects>>
       \/ ~f.ok /\ Release
  /\ UNCHANGED <<encVars, sent, stream, reader, chansMap, reqBuff, consumed, delivered>>

(* A client's map holds chan *gen.Response: on a request whose id is in it *)
(* the type assertion v.(chan *gen.Request) fails.                         *)
WrongChannel == reader = "client" /\ cur.kind = "request" /\ cur.id \in chansMap

(* The message is complete.  A client takes the id of a response, or of a  *)
(* request, out of the map.  The receiver is done with the message before  *)
(* it goes back to the pool (ClientCalls and Server model that part).      *)
UnmarshalReturns ==
  /\ phase = "unmarshal"
  /\ iNdEx >= Len(dAtA)
  /\ ~WrongChannel
  /\ delivered' = Append(delivered, <<consumed, cur>>)
  /\ chansMap' = IF cur.kind = "event" THEN chansMap ELSE chansMap \ {cur.id}
  /\ Release
  /\ UNCHANGED <<encVars, sent, stream, reader, reqBuff, consumed>>

(* The panic is in a goroutine of its own and ends the client's process.   *)
UnmarshalPanics ==
  /\ phase = "unmarshal"
  /\ iNdEx >= Len(dAtA)
  /\ WrongChannel
  /\ phase' = "panicked"
  /\ chansMap' = chansMap \ {cur.id}
  /\ cur' = None
  /\ dAtA' = <<>>
  /\ iNdEx' = 0
  /\ UNCHANGED <<encVars, sent, stream, reader, reqBuff, objects, consumed, delivered>>

Read == \/ ReadInvalidLength \/ ReadIgnored \/ ReadFrame
        \/ UnmarshalRound \/ UnmarshalReturns \/ UnmarshalPanics

(* Nothing left to send and the reader waits for bytes, or is gone.        *)
Quiet ==
  /\ ~Room
  /\ \A e \in Encoders : held[e] = None
  /\ phase \in {"over", "panicked"} \/ (phase = "read" /\ ~Available)
  /\ UNCHANGED vars

Next ==
  \/ \E e \in Encoders, m \in Messages : EncodeMessage(e, m)
  \/ \E e \in Encoders : WriteFrame(e)
  \/ \E f \in RawFrames : PeerSends(f)
  \/ Read
  \/ Quiet

(* The read cycle is a goroutine that the runtime schedules and whose only *)
(* blocking calls are its reads.                                           *)
Spec == Init /\ [][Next]_vars /\ WF_vars(Read)
----------------------------------------------------------------------------
(* Properties.                                                             *)

(* Types.  In particular UnmarshalVT's index never passes the end of the   *)
(* payload, whatever the payload is.                                       *)
TypeOK ==
  /\ data \in [Buffers -> Seq(Byte)]
  /\ bufferPool \subseteq Buffers
  /\ held \in [Encoders -> {None} \union [buf : Buffers, used : Nat, msg : Messages]]
  /\ \A e \in Encoders : held[e] # None =>
       held[e].buf \notin bufferPool /\ held[e].used \in headerSize..Len(data[held[e].buf])
  /\ sent \in Seq(Messages \union RawFrames)
  /\ stream \in Seq(Byte)
  /\ reader \in {"client", "server"} /\ chansMap \subseteq Waiting
  /\ phase \in {"read", "unmarshal", "over", "panicked"}
  /\ reqBuff \in Seq(Byte)
  /\ dAtA \in Seq(Byte) /\ iNdEx \in 0..Len(dAtA)
  /\ IF phase = "unmarshal" THEN cur \in Message ELSE cur = None
  /\ objects \in [{"request", "response"} -> Message]
  /\ consumed \in 0..Len(sent)
  /\ delivered \in Seq((1..Len(sent)) \X Message)

(* What the reader decodes from a frame is the message the encoder put     *)
(* into that frame, field for field: nothing of an earlier message is left *)
(* over from the pooled buffer it was encoded in, from the longer payload  *)
(* that was in reqBuff before, or from the pooled object it is decoded     *)
(* into (absent fields are not on the wire, so only Release clears them).  *)
DecodedIsEncoded ==
  \A d \in Range(delivered) : sent[d[1]] \in Messages => d[2] = sent[d[1]]

(* SizeVT, computed before the buffer is taken, is the number of bytes     *)
(* MarshalToSizedBufferVT writes, for the messages that are sent and for   *)
(* those that were decoded, unknown fields included.                       *)
SizeIsExact ==
  /\ \A d \in Range(delivered) : SizeVT(d[2]) = Len(Marshal(d[2]))
  /\ \A e \in Encoders : held[e] # None => SizeVT(held[e].msg) = Len(Marshal(held[e].msg))

(* What a list of headers says of a key, as pairs: the value of the first  *)
(* pair with that key.  A last element without a value is no pair; asked   *)
(* for, it is an index out of range.                                       *)
Lookup(headers, key) ==
  LET pairs == {n \in 1..(Len(headers) \div 2) : headers[2 * n - 1] = key}
      unpaired == Len(headers) % 2 = 1 /\ headers[Len(headers)] = key
  IN  CASE pairs # {} -> [is |-> "value", val |-> headers[2 * Min(pairs)]]
        [] pairs = {} /\ unpaired -> [is |-> "panic", val |-> <<>>]
        [] OTHER -> [is |-> "default", val |-> <<>>]

(* The headers a caller gives to Request.SetHeaders (ctx.go:219-221) are   *)
(* the ones the handler's GetHeader (ctx.go:134-145) reads at the other    *)
(* end: it returns the value of the first pair with the key, also where a  *)
(* value equals a key, and it panics, which ends the server's process, for *)
(* just the key that the caller has left without a value.                  *)
HeadersArrive ==
  \A d \in Range(delivered) :
    sent[d[1]] \in Messages /\ d[2].kind # "response" =>
      \A key \in Range(sent[d[1]].headers) \union {<<>>} :
        GetHeader(d[2].headers, key) = Lookup(sent[d[1]].headers, key)

================================================================================
