------------------------------ MODULE ServerProofs ------------------------------
(* Theorems about Server, for every number of streams, frames, handlers and  *)
(* pooled objects.                                                           *)
EXTENDS Server, TLAPS

\* The types the proofs rest on: a read cycle, what it reads, and the pools.
CycleTypes ==
    /\ inbox \in [Streams -> Seq(Frames)]
    /\ pc \in [Streams -> PCs]
    /\ cur \in [Streams -> Frames \cup {None}]
    /\ req \in [Streams -> ReqObjs \cup {None}]
    /\ ctx \in [Streams -> CtxObjs \cup {None}]
    /\ DOMAIN respBody = Streams
    /\ reqPool \subseteq ReqObjs
    /\ body \in [ReqObjs -> Ids \cup {None}]
    /\ ctxPool \subseteq CtxObjs
    /\ locals \in [CtxObjs -> Ids \cup {None}]

\* What a read cycle holds at each point is its own.
OwnInv ==
    \A s \in Streams :
        /\ pc[s] \in {"lookup", "handle", "encode"} => cur[s] \in Frames
        /\ req[s] # None <=> pc[s] \in {"lookup", "handle"}
        /\ ctx[s] # None <=> pc[s] = "handle"
        /\ req[s] \notin reqPool
        /\ ctx[s] \notin ctxPool
        /\ \A t \in Streams \ {s} :
             /\ req[s] # None => req[t] # req[s]
             /\ ctx[s] # None => ctx[t] # ctx[s]

\* A Request holds the body of the frame it was filled from, a Ctx that is not
\* in use has empty Locals, and one that is in use has its own handler's.
ContentInv ==
    /\ \A s \in Streams : pc[s] \in {"lookup", "handle"} => body[req[s]] = cur[s].id
    /\ \A x \in ctxPool : locals[x] = None
    /\ \A s \in Streams : pc[s] = "handle" => locals[ctx[s]] = cur[s].id

ServerInv == CycleTypes /\ OwnInv /\ ContentInv

LEMMA ServerInit == Init => ServerInv
  BY NoneAssumption
     DEF Init, ServerInv, CycleTypes, OwnInv, ContentInv, PCs

\* The frame at the head of a stream's inbox, and what is behind it.
LEMMA HeadIsFrame ==
  ASSUME CycleTypes, NEW s \in Streams, inbox[s] # <<>>
  PROVE  /\ Head(inbox[s]) \in Frames
         /\ Head(inbox[s]).id \in Ids
         /\ Tail(inbox[s]) \in Seq(Frames)
  BY SMTT(40) DEF CycleTypes, Ids

\* Every step of a read cycle keeps the objects of the others out of its reach.
LEMMA ServerNext == ServerInv /\ [Next]_vars => ServerInv'
  <1> SUFFICES ASSUME ServerInv, [Next]_vars PROVE ServerInv'
    OBVIOUS
  <1> USE NoneAssumption DEF ServerInv, CycleTypes, PCs
  <1>1. ASSUME NEW s \in Streams, AcceptStream(s) \/ StreamEnds(s) PROVE ServerInv'
    <2>1. /\ UNCHANGED <<inbox, cur, req, ctx, respBody, reqPool, body, ctxPool, locals>>
          /\ pc[s] \in {"none", "read"}
      BY Zenon, <1>1 DEF AcceptStream, StreamEnds, Goto, wireVars, poolVars
    <2>2. PICK to \in {"read", "over"} : pc' = [pc EXCEPT ![s] = to]
      BY Zenon, <1>1 DEF AcceptStream, StreamEnds, Goto
    <2>3. /\ pc' \in [Streams -> PCs]
          /\ pc'[s] = to
          /\ \A t \in Streams \ {s} : pc'[t] = pc[t]
      BY Zenon, <2>2
    <2>4. CycleTypes'
      BY Zenon, <2>1, <2>3
    <2>5. OwnInv'
      BY <2>1, <2>3 DEF OwnInv
    <2>6. ContentInv'
      BY <2>1, <2>3 DEF ContentInv
    <2> QED
      BY Zenon, <2>4, <2>5, <2>6
  <1>2. ASSUME NEW s \in Streams, ReadEmpty(s) PROVE ServerInv'
    BY <1>2, HeadIsFrame DEF ReadEmpty, Goto, poolVars, OwnInv, ContentInv
  <1>3. ASSUME NEW s \in Streams, ReadGarbled(s) PROVE ServerInv'
    <2>1. UNCHANGED <<pc, cur, req, ctx, respBody, reqPool, ctxPool, locals>>
      BY <1>3 DEF ReadGarbled, Goto
    <2>2. body' \in [ReqObjs -> Ids \cup {None}] /\ inbox' \in [Streams -> Seq(Frames)]
      BY Zenon, <1>3, HeadIsFrame DEF ReadGarbled
    <2>3. \A o \in ReqObjs \ reqPool : body'[o] = body[o]
      BY Zenon, <1>3 DEF ReadGarbled
    <2> QED
      BY <2>1, <2>2, <2>3 DEF OwnInv, ContentInv
  <1>4. ASSUME NEW s \in Streams, ReadFrame(s) PROVE ServerInv'
    BY <1>4, HeadIsFrame DEF ReadFrame, Goto, OwnInv, ContentInv
  <1>5. ASSUME NEW s \in Streams, Dispatch(s) PROVE ServerInv'
    BY <1>5 DEF Dispatch, NewCtx, UseLocals, Goto, wireVars, OwnInv, ContentInv, Ids
  <1>6. ASSUME NEW s \in Streams, NoHandler(s) PROVE ServerInv'
    BY <1>6 DEF NoHandler, ReleaseRequest, Goto, wireVars, OwnInv, ContentInv
  <1>7. ASSUME NEW s \in Streams, Handle(s) PROVE ServerInv'
    <2>1. /\ pc[s] = "handle" /\ req[s] \in ReqObjs /\ ctx[s] \in CtxObjs
          /\ cur[s] \in Frames
      BY Zenon, <1>7 DEF Handle, Goto, OwnInv
    <2>2. CycleTypes'
      BY Zenon, <1>7, <2>1 DEF Handle, ReleaseRequest, ReleaseCtx, Goto, wireVars
    <2>3. OwnInv'
      BY <1>7, <2>1 DEF Handle, ReleaseRequest, ReleaseCtx, Goto, OwnInv
    <2>4. ContentInv'
      BY <1>7, <2>1 DEF Handle, ReleaseRequest, ReleaseCtx, Goto, OwnInv, ContentInv
    <2> QED
      BY Zenon, <2>2, <2>3, <2>4
  <1>8. ASSUME NEW s \in Streams, Respond(s) \/ RespondFails(s) PROVE ServerInv'
    <2>1. /\ UNCHANGED <<inbox, req, ctx, poolVars>> /\ DOMAIN respBody' = Streams
          /\ pc[s] = "encode" /\ pc' = [pc EXCEPT ![s] = pc'[s]]
          /\ pc'[s] \in {"read", "over"} /\ cur' = [cur EXCEPT ![s] = None]
      BY Zenon, <1>8 DEF Respond, RespondFails, Goto
    <2>2. CycleTypes'
      BY Zenon, <2>1 DEF poolVars
    <2>3. OwnInv'
      BY Zenon, <2>1 DEF poolVars, OwnInv
    <2>4. ContentInv'
      BY Zenon, <2>1 DEF poolVars, ContentInv
    <2> QED
      BY Zenon, <2>2, <2>3, <2>4
  <1>9. ASSUME NEW s \in Streams, NEW f \in Frames, ClientSend(s, f) PROVE ServerInv'
    BY <1>9 DEF ClientSend, cycleVars, poolVars, OwnInv, ContentInv
  <1>10. ASSUME UNCHANGED <<inbox, cycleVars, poolVars>> PROVE ServerInv'
    BY <1>10 DEF cycleVars, poolVars, OwnInv, ContentInv
  <1> QED
    BY Zenon, <1>1, <1>2, <1>3, <1>4, <1>5, <1>6, <1>7, <1>8, <1>9, <1>10
       DEF Next, CycleStep, MapRace, AddHandlerBegin, AddHandlerEnd, Quiet, vars, wireVars

\* A handler has its own frame's body and its own Locals, whatever the other
\* streams read, handle, skip or fail at meanwhile.
THEOREM HandlersIsolated == Spec => []HandlerIsolated
  <1>1. ServerInv => HandlerIsolated
    BY Zenon DEF ServerInv, ContentInv, HandlerIsolated
  <1> QED
    BY ServerInit, ServerNext, <1>1, PTL DEF Spec

--------------------------------------------------------------------------------
(* The response: a handler that sets a value of its own leaves nothing that  *)
(* the Request, already back in its pool, could change before the response   *)
(* is encoded.                                                               *)

RespInv ==
    /\ outbox \in [Streams -> Seq([id : Ids, body : Ids])]
    /\ \A s \in Streams : pc[s] = "encode" => respBody[s] = [val |-> cur[s].id]
    /\ ResponseIntact

LEMMA RespNext ==
  Echo = {} /\ ServerInv /\ RespInv /\ [Next]_vars => RespInv'
  <1> SUFFICES ASSUME Echo = {}, ServerInv, RespInv, [Next]_vars PROVE RespInv'
    OBVIOUS
  <1> USE DEF RespInv, ResponseIntact
  <1>1. ASSUME NEW s \in Streams, Handle(s) PROVE RespInv'
    <2>1. body[req[s]] = cur[s].id
      BY Zenon, <1>1 DEF Handle, Goto, ServerInv, ContentInv
    <2>2. pc'[s] = "encode" => respBody'[s] = [val |-> cur'[s].id]
      BY Zenon, <1>1, <2>1 DEF Handle, Goto, BodyOf, ServerInv, CycleTypes
    <2>3. \A t \in Streams \ {s} : /\ pc'[t] = pc[t] /\ cur'[t] = cur[t]
                                  /\ respBody'[t] = respBody[t]
      BY Zenon, <1>1 DEF Handle, Goto, ServerInv, CycleTypes
    <2> QED
      BY ZenonT(60), <1>1, <2>2, <2>3 DEF Handle, wireVars
  <1>2. ASSUME NEW s \in Streams, Respond(s) PROVE RespInv'
    <2>1. cur[s].id \in Ids /\ Encoded(s) = cur[s].id
      <3>1. cur[s] \in Frames /\ respBody[s] = [val |-> cur[s].id]
        BY Zenon, <1>2 DEF Respond, ServerInv, OwnInv
      <3>2. DOMAIN respBody[s] = {"val"} /\ respBody[s].val = cur[s].id
        BY <3>1
      <3> QED
        BY Zenon, <3>1, <3>2 DEF Encoded, Ids
    <2>2. PICK r \in [id : Ids, body : Ids] :
            r.body = r.id /\ outbox' = [outbox EXCEPT ![s] = Append(outbox[s], r)]
      BY Zenon, <1>2, <2>1 DEF Respond
    <2>3. outbox' \in [Streams -> Seq([id : Ids, body : Ids])]
      <3> DEFINE R == [id : Ids, body : Ids]
      <3>1. r \in R /\ outbox \in [Streams -> Seq(R)]
        BY Zenon, <2>2
      <3> HIDE DEF R
      <3>2. Append(outbox[s], r) \in Seq(R)
        BY <3>1
      <3>3. outbox' \in [Streams -> Seq(R)]
        BY Zenon, <2>2, <3>1, <3>2
      <3> QED
        BY Zenon, <3>3 DEF R
    <2>4. ASSUME NEW i \in DOMAIN Append(outbox[s], r)
          PROVE  Append(outbox[s], r)[i].body = Append(outbox[s], r)[i].id
      <3>1. CASE i = Len(outbox[s]) + 1
        BY <2>2, <3>1
      <3>2. CASE i # Len(outbox[s]) + 1
        <4>1. i \in DOMAIN outbox[s] /\ Append(outbox[s], r)[i] = outbox[s][i]
          BY <2>4, <3>2
        <4> QED
          BY Zenon, <4>1
      <3> QED
        BY Zenon, <3>1, <3>2
    <2>5. ResponseIntact'
      BY Zenon, <2>2, <2>4
    <2>6. \A t \in Streams : pc'[t] = "encode" =>
            t # s /\ pc[t] = "encode" /\ cur'[t] = cur[t] /\ respBody'[t] = respBody[t]
      BY Zenon, <1>2 DEF Respond, Goto, ServerInv, CycleTypes
    <2> QED
      BY Zenon, <2>3, <2>5, <2>6
  <1>3. ASSUME UNCHANGED outbox,
               \A s \in Streams : pc'[s] = "encode" =>
                 pc[s] = "encode" /\ cur'[s] = cur[s] /\ respBody'[s] = respBody[s]
        PROVE  RespInv'
    BY Zenon, <1>3
  <1>4. ASSUME NEW s \in Streams,
               AcceptStream(s) \/ ReadGarbled(s) \/ ReadEmpty(s) \/ ReadFrame(s)
                 \/ Dispatch(s) \/ NoHandler(s) \/ RespondFails(s) \/ StreamEnds(s)
        PROVE  RespInv'
    <2>1. UNCHANGED outbox
      BY Zenon, <1>4 DEF AcceptStream, ReadGarbled, ReadEmpty, ReadFrame, Dispatch,
         NoHandler, RespondFails, StreamEnds, wireVars
    <2>2. /\ pc'[s] # "encode"
          /\ \A t \in Streams \ {s} : /\ pc'[t] = pc[t] /\ cur'[t] = cur[t]
                                     /\ respBody'[t] = respBody[t]
      BY Zenon, <1>4 DEF AcceptStream, ReadGarbled, ReadEmpty, ReadFrame, Dispatch,
         NoHandler, RespondFails, StreamEnds, Goto, ServerInv, CycleTypes
    <2> QED
      BY Zenon, <1>3, <2>1, <2>2
  <1>5. ASSUME UNCHANGED <<outbox, cycleVars>> PROVE RespInv'
    BY Zenon, <1>3, <1>5 DEF cycleVars
  <1> QED
    BY Zenon, <1>1, <1>2, <1>4, <1>5 DEF Next, CycleStep, ClientSend, MapRace,
       AddHandlerBegin, AddHandlerEnd, Quiet, vars, wireVars

\* When no handler keeps the Request's array in its response (no method is in
\* Echo), every response on every stream carries what its handler set.
THEOREM ResponsesIntact == Echo = {} /\ Spec => []ResponseIntact
  <1>1. Init => RespInv
    BY DEF Init, RespInv, ResponseIntact
  <1>2. RespInv => ResponseIntact
    BY Zenon DEF RespInv
  <1>3. ASSUME Echo = {} PROVE Spec => []ResponseIntact
    <2>1. ServerInv /\ RespInv /\ [Next]_vars => RespInv'
      BY Zenon, <1>3, RespNext
    <2> QED
      BY ServerInit, ServerNext, <1>1, <1>2, <2>1, PTL DEF Spec
  <1> QED
    BY Zenon, <1>3

--------------------------------------------------------------------------------
(* Types                                                                    *)

Response == [id : Ids, body : Ids]
BodyRef == [val : Ids] \cup [alias : ReqObjs] \cup {None}

\* The rest of TypeOK, and what makes it inductive: a response that refers to a
\* Request's array refers to one that has been filled.
WireTypes ==
    /\ registry \subseteq Entries
    /\ registering \in Late \cup {None}
    /\ crashed \in BOOLEAN
    /\ sent \in [Streams -> Seq(Frames)]
    /\ outbox \in [Streams -> Seq(Response)]
    /\ down \subseteq Streams
    /\ respBody \in [Streams -> BodyRef]
    /\ \A s \in Streams : pc[s] = "encode" =>
         \/ \E v \in Ids : respBody[s] = [val |-> v]
         \/ \E o \in ReqObjs : respBody[s] = [alias |-> o] /\ body[o] \in Ids

LEMMA NoBody == None \in BodyRef
  BY Zenon DEF BodyRef

LEMMA WireTypesInit == Init => WireTypes
  <1> SUFFICES ASSUME Init PROVE WireTypes
    OBVIOUS
  <1>1. sent \in [Streams -> Seq(Frames)] /\ outbox \in [Streams -> Seq(Response)]
    BY DEF Init
  <1>2. respBody \in [Streams -> BodyRef] /\ \A s \in Streams : pc[s] # "encode"
    BY Zenon, NoBody DEF Init
  <1> QED
    BY Zenon, <1>1, <1>2 DEF Init, WireTypes, Entries

\* A filled array stays filled.
LEMMA BodyStays ==
  ASSUME ServerInv, [Next]_vars, NEW o \in ReqObjs, body[o] \in Ids
  PROVE  body'[o] \in Ids
  <1>1. CASE UNCHANGED body
    BY Zenon, <1>1
  <1>2. ASSUME NEW s \in Streams, NEW q \in ReqObjs, inbox[s] # <<>>,
               body' = [body EXCEPT ![q] = Head(inbox[s]).id]
        PROVE  body'[o] \in Ids
    BY Zenon, <1>2, HeadIsFrame DEF ServerInv, CycleTypes
  <1>3. \/ UNCHANGED body
        \/ \E s \in Streams, q \in ReqObjs :
             inbox[s] # <<>> /\ body' = [body EXCEPT ![q] = Head(inbox[s]).id]
    <2>1. \/ UNCHANGED body
          \/ \E s \in Streams : ReadGarbled(s) \/ ReadFrame(s)
      BY Zenon DEF Next, CycleStep, AcceptStream, ReadEmpty, Dispatch, NoHandler, Handle, Respond,
         RespondFails, StreamEnds, MapRace, ClientSend, AddHandlerBegin, AddHandlerEnd, Quiet,
         vars, poolVars
    <2>2. reqPool \subseteq ReqObjs
      BY Zenon DEF ServerInv, CycleTypes
    <2>3. ASSUME NEW s \in Streams, ReadGarbled(s) \/ ReadFrame(s)
          PROVE  /\ inbox[s] # <<>>
                 /\ \/ UNCHANGED body
                    \/ \E q \in reqPool : body' = [body EXCEPT ![q] = Head(inbox[s]).id]
      BY Zenon, <2>3 DEF ReadGarbled, ReadFrame
    <2> QED
      BY Zenon, <2>1, <2>2, <2>3
  <1> QED
    BY Zenon, <1>1, <1>2, <1>3

\* The body that EncodeResponse copies is some frame's.
LEMMA EncodedType ==
  ASSUME WireTypes, NEW s \in Streams, pc[s] = "encode"
  PROVE  Encoded(s) \in Ids
  <1>1. CASE \E v \in Ids : respBody[s] = [val |-> v]
    BY <1>1 DEF Encoded
  <1>2. CASE \E o \in ReqObjs : respBody[s] = [alias |-> o] /\ body[o] \in Ids
    BY <1>2 DEF Encoded
  <1> QED
    BY Zenon, <1>1, <1>2 DEF WireTypes

LEMMA WireTypesNext == ServerInv /\ WireTypes /\ [Next]_vars => WireTypes'
  <1> SUFFICES ASSUME ServerInv, WireTypes, [Next]_vars PROVE WireTypes'
    OBVIOUS
  <1> DEFINE Ref(s) == \/ \E v \in Ids : respBody[s] = [val |-> v]
                       \/ \E o \in ReqObjs : respBody[s] = [alias |-> o] /\ body[o] \in Ids
  <1>1. /\ registry' \subseteq Entries /\ registering' \in Late \cup {None}
        /\ crashed' \in BOOLEAN /\ down' \subseteq Streams
    <2>1. /\ UNCHANGED <<registry, registering>> \/ AddHandlerEnd \/ \E e \in Late : AddHandlerBegin(e)
          /\ UNCHANGED crashed \/ crashed' = TRUE
      BY ZenonT(60) DEF Next, CycleStep, AcceptStream, ReadGarbled, ReadEmpty, ReadFrame,
         Dispatch, NoHandler, Handle, Respond, RespondFails, StreamEnds, MapRace, ClientSend,
         AddHandlerBegin, AddHandlerEnd, Quiet, vars, regVars
    <2>2. UNCHANGED down \/ \E s \in Streams : down' = down \cup {s}
      BY ZenonT(60) DEF Next, CycleStep, AcceptStream, ReadGarbled, ReadEmpty, ReadFrame,
         Dispatch, NoHandler, Handle, Respond, RespondFails, StreamEnds, MapRace, ClientSend,
         AddHandlerBegin, AddHandlerEnd, Quiet, vars, wireVars
    <2>3. registry' \subseteq Entries /\ registering' \in Late \cup {None}
      BY Zenon, <2>1 DEF WireTypes, AddHandlerBegin, AddHandlerEnd, Entries
    <2> QED
      BY Zenon, <2>1, <2>2, <2>3 DEF WireTypes
  <1>2. sent' \in [Streams -> Seq(Frames)]
    <2>1. ASSUME NEW s \in Streams, NEW f \in Frames, ClientSend(s, f)
          PROVE  sent' \in [Streams -> Seq(Frames)]
      BY SMTT(40), <2>1 DEF ClientSend, WireTypes
    <2>2. UNCHANGED sent \/ \E s \in Streams, f \in Frames : ClientSend(s, f)
      BY Zenon DEF Next, CycleStep, AcceptStream, ReadGarbled, ReadEmpty, ReadFrame,
         Dispatch, NoHandler, Handle, Respond, RespondFails, StreamEnds, MapRace,
         AddHandlerBegin, AddHandlerEnd, Quiet, vars, wireVars
    <2> QED
      BY Zenon, <2>1, <2>2 DEF WireTypes
  <1>3. outbox' \in [Streams -> Seq(Response)]
    <2>1. ASSUME NEW s \in Streams, Respond(s) PROVE outbox' \in [Streams -> Seq(Response)]
      <3> DEFINE r == [id |-> cur[s].id, body |-> Encoded(s)]
      <3>1. cur[s] \in Frames /\ Encoded(s) \in Ids
        BY Zenon, <2>1, EncodedType DEF Respond, ServerInv, OwnInv
      <3>2. r \in Response
        BY Zenon, <3>1 DEF Response, Ids
      <3>3. outbox' = [outbox EXCEPT ![s] = Append(@, r)]
        BY Zenon, <2>1 DEF Respond
      <3> HIDE DEF r
      <3> QED
        BY <3>2, <3>3 DEF WireTypes
    <2>2. UNCHANGED outbox \/ \E s \in Streams : Respond(s)
      BY Zenon DEF Next, CycleStep, AcceptStream, ReadGarbled, ReadEmpty, ReadFrame,
         Dispatch, NoHandler, Handle, RespondFails, StreamEnds, MapRace, ClientSend,
         AddHandlerBegin, AddHandlerEnd, Quiet, vars, wireVars
    <2> QED
      BY Zenon, <2>1, <2>2 DEF WireTypes
  <1>4. /\ respBody' \in [Streams -> BodyRef]
        /\ \A s \in Streams : pc'[s] = "encode" => Ref(s)'
    <2>1. ASSUME NEW s \in Streams, Handle(s)
          PROVE  /\ respBody' \in [Streams -> BodyRef]
                 /\ \A t \in Streams : pc'[t] = "encode" => Ref(t)'
      <3>1. /\ pc[s] = "handle" /\ req[s] \in ReqObjs /\ cur[s] \in Frames
            /\ body[req[s]] = cur[s].id /\ cur[s].id \in Ids
        BY Zenon, <2>1 DEF Handle, Goto, ServerInv, CycleTypes, OwnInv, ContentInv, Ids
      <3>2. PICK r \in BodyRef :
              /\ respBody' = [respBody EXCEPT ![s] = r]
              /\ pc'[s] = "encode" => r = BodyOf(s)
        BY ZenonT(40), <2>1, <3>1 DEF Handle, Goto, BodyOf, BodyRef, ServerInv, CycleTypes
      <3>3. /\ respBody' \in [Streams -> BodyRef] /\ respBody'[s] = r
            /\ \A t \in Streams \ {s} : respBody'[t] = respBody[t] /\ pc'[t] = pc[t]
        BY <2>1, <3>2 DEF Handle, Goto, WireTypes, ServerInv, CycleTypes
      <3>4. UNCHANGED body
        BY Zenon, <2>1 DEF Handle
      <3>5. pc'[s] = "encode" => Ref(s)'
        BY Zenon, <3>1, <3>2, <3>3, <3>4 DEF BodyOf
      <3>6. ASSUME NEW t \in Streams \ {s}, pc'[t] = "encode" PROVE Ref(t)'
        <4>1. t \in Streams /\ pc[t] = "encode" /\ respBody'[t] = respBody[t]
          BY Zenon, <3>3, <3>6
        <4>2. Ref(t)
          BY Zenon, <4>1 DEF WireTypes
        <4> QED
          BY Zenon, <4>1, <4>2, BodyStays
      <3> QED
        BY <3>3, <3>5, <3>6
    <2>2. ASSUME respBody' \in [Streams -> BodyRef],
                 \A t \in Streams : pc'[t] = "encode" =>
                   pc[t] = "encode" /\ respBody'[t] = respBody[t]
          PROVE  \A t \in Streams : pc'[t] = "encode" => Ref(t)'
      <3> SUFFICES ASSUME NEW t \in Streams, pc'[t] = "encode" PROVE Ref(t)'
        BY Zenon
      <3>1. respBody'[t] = respBody[t] /\ Ref(t)
        BY Zenon, <2>2 DEF WireTypes
      <3> QED
        BY Zenon, <3>1, BodyStays
    <2>3. ASSUME NEW s \in Streams,
                 AcceptStream(s) \/ ReadGarbled(s) \/ ReadEmpty(s) \/ ReadFrame(s)
                   \/ Dispatch(s) \/ NoHandler(s) \/ Respond(s) \/ RespondFails(s) \/ StreamEnds(s)
          PROVE  /\ respBody' \in [Streams -> BodyRef]
                 /\ \A t \in Streams : pc'[t] = "encode" =>
                      pc[t] = "encode" /\ respBody'[t] = respBody[t]
      <3>1. UNCHANGED respBody \/ respBody' = [respBody EXCEPT ![s] = None]
        BY ZenonT(40), <2>3 DEF AcceptStream, ReadGarbled, ReadEmpty, ReadFrame, Dispatch,
           NoHandler, Respond, RespondFails, StreamEnds
      <3>2. pc'[s] # "encode" /\ \A t \in Streams \ {s} : pc'[t] = pc[t]
        BY Zenon, <2>3 DEF AcceptStream, ReadGarbled, ReadEmpty, ReadFrame, Dispatch,
           NoHandler, Respond, RespondFails, StreamEnds, Goto, ServerInv, CycleTypes
      <3>3. respBody' \in [Streams -> BodyRef] /\ \A t \in Streams \ {s} : respBody'[t] = respBody[t]
        <4>1. respBody \in [Streams -> BodyRef]
          BY Zenon DEF WireTypes
        <4> QED
          BY Zenon, <3>1, <4>1, NoBody
      <3> QED
        BY Zenon, <3>2, <3>3
    <2>4. CASE UNCHANGED cycleVars
      BY Zenon, <2>2, <2>4 DEF cycleVars, WireTypes
    <2>5. \/ UNCHANGED cycleVars
          \/ \E s \in Streams : Handle(s)
          \/ \E s \in Streams :
               AcceptStream(s) \/ ReadGarbled(s) \/ ReadEmpty(s) \/ ReadFrame(s)
                 \/ Dispatch(s) \/ NoHandler(s) \/ Respond(s) \/ RespondFails(s) \/ StreamEnds(s)
      BY Zenon DEF Next, CycleStep, ClientSend, MapRace, AddHandlerBegin, AddHandlerEnd, Quiet, vars
    <2> QED
      BY Zenon, <2>1, <2>2, <2>3, <2>4, <2>5
  <1> QED
    BY Zenon, <1>1, <1>2, <1>3, <1>4 DEF WireTypes

\* The types of the server, whatever the handlers leave in a response.
THEOREM ServerTypes == Spec => []TypeOK
  <1>1. ServerInv /\ WireTypes => TypeOK
    BY Zenon DEF ServerInv, CycleTypes, WireTypes, Response, BodyRef, TypeOK
  <1> QED
    BY ServerInit, ServerNext, WireTypesInit, WireTypesNext, <1>1, PTL DEF Spec

--------------------------------------------------------------------------------
(* Order                                                                    *)

Busy == {"lookup", "handle", "encode"}

\* pos says which frame each response of out answers: requests, in order, none
\* of them after frame number last.
Answering(in, out, pos, last) ==
    /\ pos \in [1..Len(out) -> 1..Len(in)]
    /\ \A i \in 1..Len(out) : /\ in[pos[i]].kind = "request" /\ in[pos[i]].id = out[i].id
                              /\ pos[i] <= last
    /\ \A i, j \in 1..Len(out) : i < j => pos[i] < pos[j]

\* A stream on which the frames in were sent, of which a suffix, unread, is still
\* to be read, and out was answered; its read cycle is at p with frame c.  The
\* frame in hand is the last one read, and was not answered yet.
Served(in, unread, out, p, c) ==
    /\ Len(unread) <= Len(in)
    /\ \A n \in 1..Len(unread) : unread[n] = in[Len(in) - Len(unread) + n]
    /\ p \in Busy => Len(unread) < Len(in) /\ c = in[Len(in) - Len(unread)]
    /\ p = "encode" => c.kind = "request"
    /\ \E pos : Answering(in, out, pos,
                  IF p \in Busy THEN Len(in) - Len(unread) - 1 ELSE Len(in) - Len(unread))

OrderInv == \A s \in Streams : Served(sent[s], inbox[s], outbox[s], pc[s], cur[s])

\* More frames, or more of them read, change nothing about those answered.
LEMMA AnsweringLater ==
  ASSUME NEW in \in Seq(Frames), NEW in2 \in Seq(Frames), NEW out \in Seq(Response), NEW pos,
         NEW m \in Int, NEW n \in Int, m <= n,
         Len(in) <= Len(in2), \A i \in 1..Len(in) : in2[i] = in[i],
         Answering(in, out, pos, m)
  PROVE  Answering(in2, out, pos, n)
  <1>1. /\ Len(in) \in Nat /\ Len(in2) \in Nat /\ Len(out) \in Nat
        /\ pos \in [1..Len(out) -> 1..Len(in)]
    BY DEF Answering
  <1>2. pos \in [1..Len(out) -> 1..Len(in2)]
    BY <1>1
  <1>3. ASSUME NEW i \in 1..Len(out)
        PROVE  in2[pos[i]].kind = "request" /\ in2[pos[i]].id = out[i].id /\ pos[i] <= n
    <2>1. pos[i] \in 1..Len(in) /\ pos[i] <= m /\ in2[pos[i]] = in[pos[i]]
      BY Zenon, <1>1, <1>3 DEF Answering
    <2>2. in[pos[i]].kind = "request" /\ in[pos[i]].id = out[i].id
      BY Zenon, <1>3 DEF Answering
    <2>3. pos[i] <= n
      BY <1>1, <2>1
    <2> QED
      BY Zenon, <2>1, <2>2, <2>3
  <1> QED
    BY Zenon, <1>2, <1>3 DEF Answering

\* A client sends a frame.
LEMMA ServedSend ==
  ASSUME NEW in \in Seq(Frames), NEW un \in Seq(Frames), NEW out \in Seq(Response),
         NEW p, NEW c, NEW f \in Frames, Served(in, un, out, p, c)
  PROVE  Served(Append(in, f), Append(un, f), out, p, c)
  <1> DEFINE in2 == Append(in, f)
             un2 == Append(un, f)
  <1>1. /\ Len(in) \in Nat /\ Len(un) \in Nat /\ Len(un) <= Len(in)
        /\ in2 \in Seq(Frames) /\ Len(in2) = Len(in) + 1 /\ Len(un2) = Len(un) + 1
    BY DEF Served
  <1>2. /\ \A i \in 1..Len(in) : in2[i] = in[i]
        /\ in2[Len(in) + 1] = f
        /\ \A i \in 1..Len(un) : un2[i] = un[i]
        /\ un2[Len(un) + 1] = f
    OBVIOUS
  <1>3. Len(in2) - Len(un2) = Len(in) - Len(un)
    BY <1>1
  <1>4. ASSUME NEW n \in 1..Len(un2) PROVE un2[n] = in2[Len(in2) - Len(un2) + n]
    <2> HIDE DEF in2, un2
    <2>1. CASE n = Len(un) + 1
      BY <1>1, <1>2, <1>3, <2>1
    <2>2. CASE n # Len(un) + 1
      <3>1. n \in 1..Len(un) /\ Len(in) - Len(un) + n \in 1..Len(in)
        BY <1>1, <1>4, <2>2
      <3>2. un[n] = in[Len(in) - Len(un) + n]
        BY Zenon, <3>1 DEF Served
      <3> QED
        BY Zenon, <1>2, <1>3, <3>1, <3>2
    <2> QED
      BY Zenon, <2>1, <2>2
  <1>5. p \in Busy => Len(un2) < Len(in2) /\ c = in2[Len(in2) - Len(un2)]
    <2> HIDE DEF in2, un2
    <2> SUFFICES ASSUME p \in Busy PROVE Len(un2) < Len(in2) /\ c = in2[Len(in2) - Len(un2)]
      OBVIOUS
    <2>1. Len(un) < Len(in) /\ c = in[Len(in) - Len(un)]
      BY Zenon DEF Served
    <2>2. Len(in) - Len(un) \in 1..Len(in) /\ Len(un2) < Len(in2)
      BY <1>1, <2>1
    <2>3. in2[Len(in) - Len(un)] = in[Len(in) - Len(un)]
      BY Zenon, <1>2, <2>2
    <2> QED
      BY Zenon, <1>3, <2>1, <2>2, <2>3
  <1>6. p = "encode" => c.kind = "request"
    BY Zenon DEF Served
  <1> DEFINE last == IF p \in Busy THEN Len(in) - Len(un) - 1 ELSE Len(in) - Len(un)
  <1>7. PICK pos : Answering(in, out, pos, last)
    BY Zenon DEF Served
  <1>8. Answering(in2, out, pos, last)
    <2>1. last \in Int /\ last <= last /\ Len(in) <= Len(in2)
      BY <1>1
    <2> HIDE DEF last, in2, un2
    <2> QED
      BY Zenon, <1>1, <1>2, <1>7, <2>1, AnsweringLater
  <1>9. last = IF p \in Busy THEN Len(in2) - Len(un2) - 1 ELSE Len(in2) - Len(un2)
    BY Zenon, <1>3
  <1>10. Len(un2) <= Len(in2)
    BY <1>1
  <1> HIDE DEF last, in2, un2
  <1>11. Served(in2, un2, out, p, c)
    BY Zenon, <1>4, <1>5, <1>6, <1>8, <1>9, <1>10 DEF Served
  <1> QED
    BY Zenon, <1>11 DEF in2, un2

\* The read cycle takes the next frame, to serve it or to skip it.
LEMMA ServedRead ==
  ASSUME NEW in \in Seq(Frames), NEW un \in Seq(Frames), NEW out \in Seq(Response),
         NEW p, NEW c, NEW q, NEW d, p \notin Busy, un # <<>>, Served(in, un, out, p, c),
         q # "encode", q \in Busy => d = Head(un)
  PROVE  Served(in, Tail(un), out, q, d)
  <1> DEFINE un2 == Tail(un)
  <1>1. /\ Len(in) \in Nat /\ Len(un) \in Nat /\ Len(un) <= Len(in) /\ Len(un) > 0
        /\ Len(un2) = Len(un) - 1
    BY DEF Served
  <1>2. \A n \in 1..Len(un2) : un2[n] = un[n + 1]
    OBVIOUS
  <1>3. \A n \in 1..Len(un) : un[n] = in[Len(in) - Len(un) + n]
    BY Zenon DEF Served
  <1>4. Head(un) = un[1]
    OBVIOUS
  <1>5. PICK pos : Answering(in, out, pos, Len(in) - Len(un))
    BY Zenon DEF Served
  <1> HIDE DEF un2
  <1>6. \A n \in 1..Len(un2) : un2[n] = in[Len(in) - Len(un2) + n]
    BY <1>1, <1>2, <1>3
  <1>7. q \in Busy => Len(un2) < Len(in) /\ d = in[Len(in) - Len(un2)]
    BY <1>1, <1>3, <1>4
  <1> DEFINE last == IF q \in Busy THEN Len(in) - Len(un2) - 1 ELSE Len(in) - Len(un2)
  <1>8. last \in Int /\ Len(in) - Len(un) \in Int /\ Len(in) - Len(un) <= last
    BY <1>1
  <1>9. Answering(in, out, pos, last)
    <2> HIDE DEF last
    <2>1. Len(in) <= Len(in)
      BY <1>1
    <2> QED
      BY Zenon, <1>5, <1>8, <2>1, AnsweringLater
  <1>10. Len(un2) <= Len(in)
    BY <1>1
  <1>11. Served(in, un2, out, q, d)
    BY Zenon, <1>6, <1>7, <1>9, <1>10 DEF Served
  <1> QED
    BY Zenon, <1>11 DEF un2

\* The read cycle goes on with the frame in hand, or is done with it.
LEMMA ServedMove ==
  ASSUME NEW in \in Seq(Frames), NEW un \in Seq(Frames), NEW out \in Seq(Response),
         NEW p, NEW c, NEW q, NEW d, Served(in, un, out, p, c),
         q \in Busy => p \in Busy /\ d = c,
         q = "encode" => d.kind = "request"
  PROVE  Served(in, un, out, q, d)
  <1> DEFINE n == Len(in) - Len(un)
             last == IF p \in Busy THEN n - 1 ELSE n
             last2 == IF q \in Busy THEN n - 1 ELSE n
  <1>1. PICK pos : Answering(in, out, pos, last)
    BY Zenon DEF Served
  <1>2. last \in Int /\ last2 \in Int /\ last <= last2 /\ Len(in) <= Len(in)
    OBVIOUS
  <1> HIDE DEF last, last2
  <1>3. Answering(in, out, pos, last2)
    BY Zenon, <1>1, <1>2, AnsweringLater
  <1> QED
    BY Zenon, <1>3 DEF Served, last2, n

\* The frame in hand is answered.
LEMMA ServedRespond ==
  ASSUME NEW in \in Seq(Frames), NEW un \in Seq(Frames), NEW out \in Seq(Response),
         NEW c, NEW r \in Response, NEW q, NEW d, Served(in, un, out, "encode", c),
         r.id = c.id, q \notin Busy
  PROVE  Served(in, un, Append(out, r), q, d)
  <1> DEFINE n == Len(in) - Len(un)
             out2 == Append(out, r)
  <1>1. /\ Len(in) \in Nat /\ Len(un) \in Nat /\ Len(un) < Len(in) /\ Len(out) \in Nat
        /\ c = in[n] /\ c.kind = "request"
    BY DEF Served, Busy
  <1>2. PICK pos : Answering(in, out, pos, n - 1)
    BY Zenon DEF Served, Busy
  <1>3. /\ Len(out2) = Len(out) + 1 /\ out2[Len(out) + 1] = r
        /\ \A i \in 1..Len(out) : out2[i] = out[i]
    <2> HIDE DEF n
    <2> QED
      OBVIOUS
  <1> DEFINE pos2 == [i \in 1..Len(out2) |-> IF i = Len(out2) THEN n ELSE pos[i]]
  <1>4. n \in 1..Len(in)
    BY <1>1
  <1>5. \A i \in 1..Len(out) : /\ pos[i] \in 1..Len(in) /\ pos[i] <= n - 1
                               /\ in[pos[i]].kind = "request" /\ in[pos[i]].id = out[i].id
    BY Zenon, <1>2 DEF Answering
  <1> HIDE DEF out2, n
  <1>6. pos2 \in [1..Len(out2) -> 1..Len(in)]
    BY <1>1, <1>3, <1>4, <1>5
  <1>7. ASSUME NEW i \in 1..Len(out2)
        PROVE  in[pos2[i]].kind = "request" /\ in[pos2[i]].id = out2[i].id /\ pos2[i] <= n
    <2>1. CASE i = Len(out2)
      BY <1>1, <1>3, <1>4, <2>1
    <2>2. CASE i # Len(out2)
      <3>1. i \in 1..Len(out) /\ pos2[i] = pos[i] /\ out2[i] = out[i]
        BY <1>1, <1>3, <1>7, <2>2
      <3>2. pos[i] <= n
        BY <1>4, <1>5, <3>1
      <3> QED
        BY Zenon, <1>5, <3>1, <3>2
    <2> QED
      BY Zenon, <2>1, <2>2
  <1>8. ASSUME NEW i \in 1..Len(out2), NEW j \in 1..Len(out2), i < j
        PROVE  pos2[i] < pos2[j]
    <2>d. \A m \in 1..Len(out2) : pos2[m] = IF m = Len(out2) THEN n ELSE pos[m]
      BY Zenon
    <2> HIDE DEF pos2
    <2>l. Len(out) \in Nat /\ Len(out2) = Len(out) + 1
      BY Zenon, <1>1, <1>3
    <2>1. i \in 1..Len(out) /\ pos2[i] = pos[i]
      <3>1. i \in 1..Len(out) /\ i # Len(out2)
        BY <1>8, <2>l
      <3> QED
        BY Zenon, <2>d, <3>1
    <2>2. CASE j = Len(out2)
      <3>1. pos2[j] = n /\ n \in Int /\ pos[i] \in Int /\ pos[i] <= n - 1
        <4>1. pos2[j] = n /\ n \in 1..Len(in) /\ pos[i] \in 1..Len(in) /\ pos[i] <= n - 1
          BY Zenon, <1>4, <1>5, <2>1, <2>2, <2>d
        <4> QED
          BY <4>1
      <3> QED
        BY <2>1, <3>1
    <2>3. CASE j # Len(out2)
      <3>0. j \in 1..Len(out)
        BY <2>l, <2>3
      <3>1. j \in 1..Len(out) /\ pos2[j] = pos[j]
        BY Zenon, <2>d, <2>3, <3>0
      <3> QED
        BY Zenon, <1>2, <1>8, <2>1, <3>1 DEF Answering
    <2> QED
      BY Zenon, <2>2, <2>3
  <1> HIDE DEF pos2
  <1>9. Answering(in, out2, pos2, n)
    BY Zenon, <1>6, <1>7, <1>8 DEF Answering
  <1>10. /\ Len(un) <= Len(in)
         /\ \A m \in 1..Len(un) : un[m] = in[Len(in) - Len(un) + m]
    BY Zenon DEF Served
  <1>11. q # "encode"
    BY Zenon DEF Busy
  <1>12. Served(in, un, out2, q, d)
    BY Zenon, <1>9, <1>10, <1>11 DEF Served, n
  <1> QED
    BY Zenon, <1>12 DEF out2

\* A stream that a step does not touch.
LEMMA ServedElsewhere ==
  ASSUME OrderInv, NEW s \in Streams,
         \A t \in Streams \ {s} : /\ sent'[t] = sent[t] /\ inbox'[t] = inbox[t]
                                  /\ outbox'[t] = outbox[t] /\ pc'[t] = pc[t] /\ cur'[t] = cur[t],
         Served(sent'[s], inbox'[s], outbox'[s], pc'[s], cur'[s])
  PROVE  OrderInv'
  BY ZenonT(40) DEF OrderInv

LEMMA OrderNext == ServerInv /\ WireTypes /\ OrderInv /\ [Next]_vars => OrderInv'
  <1> SUFFICES ASSUME ServerInv, WireTypes, OrderInv, [Next]_vars PROVE OrderInv'
    OBVIOUS
  <1>1. /\ sent \in [Streams -> Seq(Frames)] /\ inbox \in [Streams -> Seq(Frames)]
        /\ outbox \in [Streams -> Seq(Response)] /\ pc \in [Streams -> PCs]
        /\ cur \in [Streams -> Frames \cup {None}]
    BY Zenon DEF WireTypes, ServerInv, CycleTypes
  <1>2. ASSUME NEW s \in Streams, NEW f \in Frames, ClientSend(s, f) PROVE OrderInv'
    <2>1. UNCHANGED <<outbox, pc, cur>>
      BY Zenon, <1>2 DEF ClientSend, cycleVars
    <2>2. /\ sent'[s] = Append(sent[s], f) /\ inbox'[s] = Append(inbox[s], f)
          /\ \A t \in Streams \ {s} : sent'[t] = sent[t] /\ inbox'[t] = inbox[t]
      BY Zenon, <1>1, <1>2 DEF ClientSend
    <2>3. Served(Append(sent[s], f), Append(inbox[s], f), outbox[s], pc[s], cur[s])
      BY Zenon, <1>1, ServedSend DEF OrderInv
    <2> QED
      BY Zenon, <2>1, <2>2, <2>3, ServedElsewhere
  <1>3. ASSUME NEW s \in Streams, ReadFrame(s) \/ ReadGarbled(s) \/ ReadEmpty(s) PROVE OrderInv'
    <2>1. /\ UNCHANGED <<sent, outbox>> /\ inbox[s] # <<>> /\ pc[s] = "read"
          /\ inbox' = [inbox EXCEPT ![s] = Tail(@)]
      BY Zenon, <1>3 DEF ReadFrame, ReadGarbled, ReadEmpty, Goto
    <2>2. /\ pc'[s] # "encode" /\ (pc'[s] \in Busy => cur'[s] = Head(inbox[s]))
          /\ \A t \in Streams \ {s} : pc'[t] = pc[t] /\ cur'[t] = cur[t]
      BY Zenon, <1>1, <1>3 DEF ReadFrame, ReadGarbled, ReadEmpty, Goto, Busy
    <2>3. inbox'[s] = Tail(inbox[s]) /\ \A t \in Streams \ {s} : inbox'[t] = inbox[t]
      BY Zenon, <1>1, <2>1
    <2>4. pc[s] \notin Busy
      BY Zenon, <2>1 DEF Busy
    <2>5. Served(sent[s], Tail(inbox[s]), outbox[s], pc'[s], cur'[s])
      BY Zenon, <1>1, <2>1, <2>2, <2>4, ServedRead DEF OrderInv
    <2> QED
      BY Zenon, <2>1, <2>2, <2>3, <2>5, ServedElsewhere
  <1>4. ASSUME NEW s \in Streams, Respond(s) PROVE OrderInv'
    <2> DEFINE r == [id |-> cur[s].id, body |-> Encoded(s)]
    <2>1. /\ UNCHANGED <<sent, inbox>> /\ pc[s] = "encode"
          /\ outbox' = [outbox EXCEPT ![s] = Append(@, r)]
          /\ pc' = [pc EXCEPT ![s] = "read"] /\ cur' = [cur EXCEPT ![s] = None]
      BY Zenon, <1>4 DEF Respond, Goto
    <2>2. cur[s] \in Frames /\ Encoded(s) \in Ids
      BY Zenon, <2>1, EncodedType DEF ServerInv, OwnInv
    <2>3. r \in Response /\ r.id = cur[s].id
      BY Zenon, <2>2 DEF Response, Ids
    <2> HIDE DEF r
    <2>4. /\ outbox'[s] = Append(outbox[s], r) /\ pc'[s] = "read" /\ cur'[s] = None
          /\ \A t \in Streams \ {s} : /\ outbox'[t] = outbox[t] /\ pc'[t] = pc[t]
                                      /\ cur'[t] = cur[t]
      BY Zenon, <1>1, <2>1
    <2>5. Served(sent[s], inbox[s], outbox[s], "encode", cur[s]) /\ "read" \notin Busy
      BY Zenon, <2>1 DEF OrderInv, Busy
    <2>6. Served(sent[s], inbox[s], Append(outbox[s], r), "read", None)
      BY Zenon, <1>1, <2>3, <2>5, ServedRespond
    <2> QED
      BY Zenon, <2>1, <2>4, <2>6, ServedElsewhere
  <1>5. ASSUME NEW s \in Streams,
               AcceptStream(s) \/ Dispatch(s) \/ NoHandler(s) \/ Handle(s)
                 \/ RespondFails(s) \/ StreamEnds(s)
        PROVE  OrderInv'
    <2>1. UNCHANGED <<sent, inbox, outbox>>
      BY Zenon, <1>5 DEF AcceptStream, Dispatch, NoHandler, Handle, RespondFails, StreamEnds, wireVars
    <2>2. /\ pc'[s] \in Busy => pc[s] \in Busy /\ cur'[s] = cur[s]
          /\ pc'[s] = "encode" => cur'[s].kind = "request"
      BY Zenon, <1>1, <1>5 DEF AcceptStream, Dispatch, NoHandler, Handle, RespondFails, StreamEnds, Goto, Busy
    <2>3. \A t \in Streams \ {s} : pc'[t] = pc[t] /\ cur'[t] = cur[t]
      BY ZenonT(40), <1>1, <1>5 DEF AcceptStream, Dispatch, NoHandler, Handle, RespondFails, StreamEnds,
         Goto
    <2>4. Served(sent[s], inbox[s], outbox[s], pc'[s], cur'[s])
      BY ZenonT(40), <1>1, <2>2, ServedMove DEF OrderInv
    <2> QED
      BY Zenon, <2>1, <2>3, <2>4, ServedElsewhere
  <1>6. CASE UNCHANGED <<wireVars, cycleVars>>
    BY Zenon, <1>6 DEF OrderInv, wireVars, cycleVars
  <1> QED
    BY Zenon, <1>2, <1>3, <1>4, <1>5, <1>6
       DEF Next, CycleStep, MapRace, AddHandlerBegin, AddHandlerEnd, Quiet, vars

LEMMA OrderInit == Init => OrderInv
  <1> SUFFICES ASSUME Init, NEW s \in Streams
               PROVE  Served(sent[s], inbox[s], outbox[s], pc[s], cur[s])
    BY Zenon DEF OrderInv
  <1>1. sent[s] = <<>> /\ inbox[s] = <<>> /\ outbox[s] = <<>> /\ pc[s] = "none"
    BY Zenon DEF Init
  <1>2. Answering(<<>>, <<>>, <<>>, 0)
    BY DEF Answering
  <1> QED
    BY <1>1, <1>2 DEF Served, Busy

\* On every stream the responses answer requests, each at most once and in order,
\* whatever else came in between, was skipped or failed.
THEOREM AnswersInOrder == Spec => []AnsweredInOrder
  <1>1. WireTypes /\ OrderInv => AnsweredInOrder
    <2> SUFFICES ASSUME WireTypes, OrderInv, NEW s \in Streams
                 PROVE  \E pos \in [DOMAIN outbox[s] -> DOMAIN sent[s]] :
                          /\ \A i \in DOMAIN pos :
                               /\ sent[s][pos[i]].kind = "request"
                               /\ sent[s][pos[i]].id = outbox[s][i].id
                          /\ \A i, j \in DOMAIN pos : i < j => pos[i] < pos[j]
      BY Zenon DEF AnsweredInOrder
    <2>1. PICK pos, last : Answering(sent[s], outbox[s], pos, last)
      BY Zenon DEF OrderInv, Served
    <2>2. DOMAIN outbox[s] = 1..Len(outbox[s]) /\ DOMAIN sent[s] = 1..Len(sent[s])
      BY DEF WireTypes
    <2> QED
      BY Zenon, <2>1, <2>2 DEF Answering
  <1> QED
    BY ServerInit, ServerNext, WireTypesInit, WireTypesNext, OrderInit, OrderNext, <1>1, PTL
       DEF Spec
================================================================================
