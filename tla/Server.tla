--------------------------------- MODULE Server ---------------------------------
(***************************************************************************)
(* The server, server.go, with the part of ctx.go it uses.  One goroutine  *)
(* per stream reads frames, looks the method up in a map of handlers, runs *)
(* the handler on a pooled Ctx, and writes the response back.  Request     *)
(* objects come from a pool shared by all streams and keep the backing     *)
(* array of their Body when released; UnmarshalVT writes into that array.  *)
(* Bodies are of one size, so that the array is always reused.             *)
(*                                                                         *)
(* A frame is a record [id, kind, method].  Its kind is "request",         *)
(* "event", "malformed" (an unknown flag, or a payload that does not       *)
(* decompress or unmarshal) or "empty" (a length field of 0).  Its body is *)
(* represented by its id.                                                  *)
(***************************************************************************)
EXTENDS Integers, Sequences, Functions

CONSTANTS
    Streams,        \* QUIC streams, one read cycle each
    Frames,         \* frames the clients may send, one of each id
    Preregistered,  \* <<kind, method>> registered before the first frame
    Late,           \* <<kind, method>> registered while streams are served
    Echo,           \* methods whose handler does c.SetBody(c.Body())
    ConnDrops,      \* TRUE if streams may end or refuse a write
    ReqObjs, CtxObjs,   \* pooled *gen.Request and *CtxImpl objects
    None

Kinds == {"request", "event", "malformed", "empty"}

ASSUME FramesAssumption == \A f \in Frames : f.kind \in Kinds
ASSUME NoneAssumption == None \notin ReqObjs \cup CtxObjs
ASSUME ConnDropsAssumption == ConnDrops \in BOOLEAN

VARIABLES
    registry,       \* the maps handlers and eventHandlers
    registering,    \* the entry a map write is in progress for
    crashed,        \* the Go runtime has stopped the process
    sent,           \* frames sent on each stream, in order
    inbox,          \* those not yet read
    outbox,         \* responses written on each stream
    down,           \* streams ended from outside: by the peer or the network
    pc, cur, req, ctx,  \* each read cycle: position, frame, Request, Ctx
    respBody,       \* its response's Body: a value, or an alias of an array
    reqPool, body,  \* free Requests; content of each Request's Body array
    ctxPool, locals \* free Ctxs; content of each Ctx's Locals

regVars == <<registry, registering, crashed>>
wireVars == <<sent, inbox, outbox, down>>
cycleVars == <<pc, cur, req, ctx, respBody>>
poolVars == <<reqPool, body, ctxPool, locals>>
vars == <<regVars, wireVars, cycleVars, poolVars>>

Ids == {f.id : f \in Frames}
Entries == Preregistered \cup Late
PCs == {"none", "read", "lookup", "handle", "encode", "over"}

\* The types of QRPCServerImpl, the pools and the locals of streamReadCycle.
TypeOK ==
    /\ registry \subseteq Entries
    /\ registering \in Late \cup {None}
    /\ crashed \in BOOLEAN
    /\ sent \in [Streams -> Seq(Frames)]
    /\ inbox \in [Streams -> Seq(Frames)]
    /\ down \subseteq Streams
    /\ outbox \in [Streams -> Seq([id : Ids, body : Ids])]
    /\ pc \in [Streams -> PCs]
    /\ cur \in [Streams -> Frames \cup {None}]
    /\ req \in [Streams -> ReqObjs \cup {None}]
    /\ ctx \in [Streams -> CtxObjs \cup {None}]
    /\ respBody \in [Streams -> [val : Ids] \cup [alias : ReqObjs] \cup {None}]
    /\ reqPool \subseteq ReqObjs
    /\ body \in [ReqObjs -> Ids \cup {None}]
    /\ ctxPool \subseteq CtxObjs
    /\ locals \in [CtxObjs -> Ids \cup {None}]

Init ==
    /\ registry = Preregistered
    /\ registering = None
    /\ crashed = FALSE
    /\ sent = [s \in Streams |-> <<>>]
    /\ inbox = [s \in Streams |-> <<>>]
    /\ outbox = [s \in Streams |-> <<>>]
    /\ down = {}
    /\ pc = [s \in Streams |-> "none"]
    /\ cur = [s \in Streams |-> None]
    /\ req = [s \in Streams |-> None]
    /\ ctx = [s \in Streams |-> None]
    /\ respBody = [s \in Streams |-> None]
    /\ reqPool = ReqObjs
    /\ body = [o \in ReqObjs |-> None]
    /\ ctxPool = CtxObjs
    /\ locals = [x \in CtxObjs |-> None]

--------------------------------------------------------------------------------
(* The clients and the registration of handlers                             *)

\* External: a client writes a frame to a stream.
ClientSend(s, f) ==
    /\ \A t \in Streams : \A g \in Range(sent[t]) : g.id # f.id
    /\ sent' = [sent EXCEPT ![s] = Append(@, f)]
    /\ inbox' = [inbox EXCEPT ![s] = Append(@, f)]
    /\ UNCHANGED <<regVars, outbox, down, cycleVars, poolVars>>

\* AddHandler and AddEventHandler, which write a Go map without a lock.
AddHandlerBegin(e) ==
    /\ ~crashed
    /\ registering = None
    /\ e \in Late \ registry
    /\ registering' = e
    /\ UNCHANGED <<registry, crashed, wireVars, cycleVars, poolVars>>

AddHandlerEnd ==
    /\ ~crashed
    /\ registering # None
    /\ registry' = registry \cup {registering}
    /\ registering' = None
    /\ UNCHANGED <<crashed, wireVars, cycleVars, poolVars>>

--------------------------------------------------------------------------------
(* The read cycle of a stream                                               *)

Goto(s, from, to) ==
    /\ ~crashed
    /\ pc[s] = from
    /\ pc' = [pc EXCEPT ![s] = to]

\* Mutation of ReleaseRequest: the reference is cleared before it is put back.
ReleaseRequestCleared(s) ==
    /\ reqPool' = reqPool \cup {None}
    /\ req' = [req EXCEPT ![s] = None]

\* client.ReleaseRequest: the array stays with the object.
ReleaseRequest(s) ==
    /\ reqPool' = reqPool \cup {req[s]}
    /\ req' = [req EXCEPT ![s] = None]

\* connReadCycle: the stream appears once data has come in on it.
AcceptStream(s) ==
    /\ inbox[s] # <<>>
    /\ Goto(s, "none", "read")
    /\ UNCHANGED <<regVars, wireVars, cur, req, ctx, respBody, poolVars>>

\* A frame that does not decompress, unmarshal or have a known flag is skipped.
\* Unmarshalling may have overwritten the array of the Request it used.
ReadGarbled(s) ==
    /\ inbox[s] # <<>>
    /\ Head(inbox[s]).kind = "malformed"
    /\ Goto(s, "read", "read")
    /\ inbox' = [inbox EXCEPT ![s] = Tail(@)]
    /\ \/ UNCHANGED body
       \/ \E o \in reqPool : body' = [body EXCEPT ![o] = Head(inbox[s]).id]
    /\ UNCHANGED <<regVars, sent, outbox, down, cur, req, ctx, respBody, reqPool, ctxPool,
                   locals>>

\* A length field of 0 makes the server end the read cycle, without closing the
\* stream.
ReadEmpty(s) ==
    /\ inbox[s] # <<>>
    /\ Head(inbox[s]).kind = "empty"
    /\ Goto(s, "read", "over")
    /\ inbox' = [inbox EXCEPT ![s] = Tail(@)]
    /\ UNCHANGED <<regVars, sent, outbox, down, cur, req, ctx, respBody, poolVars>>

\* Mutation of ReadFrame: the Request is not taken out of its pool.
ReadFrameShares(s) ==
    /\ inbox[s] # <<>>
    /\ Head(inbox[s]).kind \in {"request", "event"}
    /\ Goto(s, "read", "lookup")
    /\ cur' = [cur EXCEPT ![s] = Head(inbox[s])]
    /\ inbox' = [inbox EXCEPT ![s] = Tail(@)]
    /\ \E o \in reqPool :
         /\ req' = [req EXCEPT ![s] = o]
         /\ body' = [body EXCEPT ![o] = Head(inbox[s]).id]
    /\ UNCHANGED <<regVars, sent, outbox, down, ctx, respBody, reqPool, ctxPool, locals>>

\* The frame is read and unmarshalled into a pooled Request.
ReadFrame(s) ==
    /\ inbox[s] # <<>>
    /\ Head(inbox[s]).kind \in {"request", "event"}
    /\ Goto(s, "read", "lookup")
    /\ cur' = [cur EXCEPT ![s] = Head(inbox[s])]
    /\ inbox' = [inbox EXCEPT ![s] = Tail(@)]
    /\ \E o \in reqPool :
         /\ reqPool' = reqPool \ {o}
         /\ req' = [req EXCEPT ![s] = o]
         /\ body' = [body EXCEPT ![o] = Head(inbox[s]).id]
    /\ UNCHANGED <<regVars, sent, outbox, down, ctx, respBody, ctxPool, locals>>

\* The map lookup reads the registry; an entry being written may or may not be
\* seen.
Found(s) == <<cur[s].kind, cur[s].method>> \in registry \cup {registering}
Missed(s) == <<cur[s].kind, cur[s].method>> \notin registry

\* NewCtx and ReleaseCtx: a Ctx keeps its Locals in the pool, emptied.
NewCtx(s, x) ==
    /\ x \in ctxPool
    /\ ctxPool' = ctxPool \ {x}
    /\ ctx' = [ctx EXCEPT ![s] = x]

ReleaseCtx(s) ==
    /\ locals' = [locals EXCEPT ![ctx[s]] = None]
    /\ ctxPool' = ctxPool \cup {ctx[s]}
    /\ ctx' = [ctx EXCEPT ![s] = None]

\* The handler uses the Locals as a cache: Get, and Set if there was nothing.
UseLocals(s, x) == locals' = [locals EXCEPT ![x] = IF @ = None THEN cur[s].id ELSE @]

\* The handler exists and is started with a pooled Ctx.
Dispatch(s) ==
    /\ pc[s] = "lookup"
    /\ Found(s)
    /\ Goto(s, "lookup", "handle")
    /\ \E x \in CtxObjs : NewCtx(s, x) /\ UseLocals(s, x)
    /\ UNCHANGED <<regVars, wireVars, cur, req, respBody, reqPool, body>>

\* Mutation of NoHandler: an unknown event method ends the read cycle as well.
NoHandlerReturns(s) ==
    /\ pc[s] = "lookup"
    /\ Missed(s)
    /\ Goto(s, "lookup", "over")
    /\ cur' = [cur EXCEPT ![s] = None]
    /\ ReleaseRequest(s)
    /\ UNCHANGED <<regVars, wireVars, ctx, respBody, body, ctxPool, locals>>

\* No handler: an event is skipped, but a request ends the read cycle, without
\* closing the stream.
NoHandler(s) ==
    /\ pc[s] = "lookup"
    /\ Missed(s)
    /\ Goto(s, "lookup", IF cur[s].kind = "request" THEN "over" ELSE "read")
    /\ cur' = [cur EXCEPT ![s] = None]
    /\ ReleaseRequest(s)
    /\ UNCHANGED <<regVars, wireVars, ctx, respBody, body, ctxPool, locals>>

\* The runtime detects that the map is read while AddHandler writes it.
MapRace(s) ==
    /\ pc[s] = "lookup"
    /\ registering # None
    /\ registering[1] = cur[s].kind
    /\ ~crashed
    /\ crashed' = TRUE
    /\ UNCHANGED <<registry, registering, wireVars, cycleVars, poolVars>>

\* Mutation of BodyOf: every handler keeps its data in the Request's array.
BodyOfAliases(s) == [alias |-> req[s]]

\* What the handler leaves as the response's Body: its own value, or the array
\* of the Request.
BodyOf(s) ==
    IF cur[s].method \in Echo THEN [alias |-> req[s]] ELSE [val |-> body[req[s]]]

\* Mutation of Handle: an event is answered like a request.
HandleAnswersEvents(s) ==
    /\ Goto(s, "handle", "encode")
    /\ respBody' = [respBody EXCEPT ![s] = BodyOf(s)]
    /\ ReleaseCtx(s)
    /\ ReleaseRequest(s)
    /\ UNCHANGED <<regVars, wireVars, cur, body>>

\* The handler returns; ReleaseCtx resets the Locals; the Request goes back to
\* the pool before the response is encoded.
Handle(s) ==
    /\ Goto(s, "handle", IF cur[s].kind = "request" THEN "encode" ELSE "read")
    /\ respBody' = [respBody EXCEPT ![s] =
                      IF cur[s].kind = "request" THEN BodyOf(s) ELSE None]
    /\ cur' = [cur EXCEPT ![s] = IF @.kind = "request" THEN @ ELSE None]
    /\ ReleaseCtx(s)
    /\ ReleaseRequest(s)
    /\ UNCHANGED <<regVars, wireVars, body>>

\* What EncodeResponse copies from the response's Body at this moment.
Encoded(s) ==
    IF "alias" \in DOMAIN respBody[s] THEN body[respBody[s].alias] ELSE respBody[s].val

\* EncodeResponse, which cannot fail for these messages, and the write.
Respond(s) ==
    /\ pc[s] = "encode"
    /\ Goto(s, "encode", "read")
    /\ outbox' = [outbox EXCEPT ![s] = Append(@, [id |-> cur[s].id, body |-> Encoded(s)])]
    /\ respBody' = [respBody EXCEPT ![s] = None]
    /\ cur' = [cur EXCEPT ![s] = None]
    /\ UNCHANGED <<regVars, sent, inbox, down, req, ctx, poolVars>>

\* The write fails and the read cycle returns.
RespondFails(s) ==
    /\ ConnDrops
    /\ Goto(s, "encode", "over")
    /\ down' = down \cup {s}
    /\ respBody' = [respBody EXCEPT ![s] = None]
    /\ cur' = [cur EXCEPT ![s] = None]
    /\ UNCHANGED <<regVars, sent, inbox, outbox, req, ctx, poolVars>>

\* A read fails (end of stream, timeout, connection closed): it returns too.
StreamEnds(s) ==
    /\ ConnDrops
    /\ Goto(s, "read", "over")
    /\ down' = down \cup {s}
    /\ UNCHANGED <<regVars, sent, inbox, outbox, cur, req, ctx, respBody, poolVars>>

--------------------------------------------------------------------------------

\* The steps of a read cycle that wait for nobody.
CycleStep(s) ==
    \/ AcceptStream(s)
    \/ ReadGarbled(s)
    \/ ReadEmpty(s)
    \/ ReadFrame(s)
    \/ Dispatch(s)
    \/ NoHandler(s)

\* Everything was sent and nothing is being served.
Quiet ==
    /\ \A f \in Frames : \E s \in Streams : \E g \in Range(sent[s]) : g.id = f.id
    /\ \A s \in Streams :
         \/ crashed
         \/ pc[s] = "over"
         \/ pc[s] \in {"none", "read"} /\ inbox[s] = <<>>
    /\ UNCHANGED vars

Next ==
    \/ \E s \in Streams :
         \/ CycleStep(s)
         \/ Handle(s)
         \/ Respond(s)
         \/ RespondFails(s)
         \/ StreamEnds(s)
         \/ MapRace(s)
         \/ \E f \in Frames : ClientSend(s, f)
    \/ \E e \in Late : AddHandlerBegin(e)
    \/ AddHandlerEnd
    \/ Quiet

Spec == Init /\ [][Next]_vars

\* Read cycles are scheduled.  That a handler returns and that a write comes to
\* an end (server.go:222 sets no deadline, and a peer that does not read blocks
\* it by flow control) is for the application and for the peer to see to.
FairSpec == Spec /\ \A s \in Streams : WF_vars(CycleStep(s))

--------------------------------------------------------------------------------
(* Properties                                                               *)

\* Streams share the pools of Requests and Ctxs (server.go:186, ctx.go:96-114)
\* and yet a handler has the body of its own frame and finds no other's Locals.
HandlerIsolated ==
    \A s \in Streams : pc[s] = "handle" =>
        body[req[s]] = cur[s].id /\ locals[ctx[s]] = cur[s].id

\* README.md:171: "the handler sets the response and the server encodes and
\* writes it back".  The body that is written is the one the handler set.
ResponseIntact ==
    \A s \in Streams : \A i \in DOMAIN outbox[s] : outbox[s][i].body = outbox[s][i].id

\* README.md:142 and 171: on each stream the responses answer requests only,
\* at most once each and in the order in which the requests came; events are
\* not answered, and what was skipped leaves no trace.
AnsweredInOrder ==
    \A s \in Streams :
        \E pos \in [DOMAIN outbox[s] -> DOMAIN sent[s]] :
            /\ \A i \in DOMAIN pos :
                 sent[s][pos[i]].kind = "request" /\ sent[s][pos[i]].id = outbox[s][i].id
            /\ \A i, j \in DOMAIN pos : i < j => pos[i] < pos[j]

\* The application's handlers return, and the peers read what is written.
HandlersReturn == \A s \in Streams : WF_vars(Handle(s))
PeersRead == \A s \in Streams : WF_vars(Respond(s))

\* A zero-length frame was sent on the stream before f.
BehindEmpty(s, f) ==
    \E i, j \in DOMAIN sent[s] : i < j /\ sent[s][i].kind = "empty" /\ sent[s][j] = f

\* README.md:171: request frames are dispatched to the registered handler.  If
\* handlers return and peers read, a request whose method is registered when it
\* is sent is answered, unless the peer or the network ends the stream
\* (server.go:129-176, 222-228), a zero-length frame was sent before it
\* (server.go:145-148) or a racing registration ends the process: no other frame
\* on the stream, and none on another stream, keeps it from being answered.
RegisteredIsAnswered ==
    HandlersReturn /\ PeersRead =>
        \A s \in Streams : \A f \in {g \in Frames : g.kind = "request"} :
            (/\ <<"request", f.method>> \in registry
             /\ f \in Range(sent[s])
             /\ ~BehindEmpty(s, f))
                ~> (\/ \E i \in DOMAIN outbox[s] : outbox[s][i].id = f.id
                    \/ s \in down \/ crashed)
================================================================================
