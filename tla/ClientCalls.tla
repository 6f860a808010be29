------------------------------ MODULE ClientCalls ------------------------------
(***************************************************************************)
(* The call core of the qrpc client (client.go) together with the part of  *)
(* the multiplexer's read cycle that hands a response to its caller        *)
(* (transport/quic/client/multiplexer.go).                                 *)
(*                                                                         *)
(* A call is one use of SendRequest or SendEvent.  It draws a random       *)
(* 64-bit request id; collisions are not modelled, so a call is its own    *)
(* id.  The call takes a one-slot channel from a sync.Pool, stores it      *)
(* under its id in the sharded map chansMap, gives its Request object back *)
(* to the pool, writes the frame and waits in a select.  One read cycle    *)
(* per stream takes the channel out of the map and sends the response into *)
(* it without blocking.                                                    *)
(*                                                                         *)
(* A write that fails may have put the beginning of its frame on the       *)
(* stream.  The peer then takes the frames behind it for the rest: it may  *)
(* answer the call whose write failed, and miss the others.                *)
(*                                                                         *)
(* The peer is qrpc's server, which sends nothing but responses; frames of *)
(* another origin are in Codec.                                            *)
(*                                                                         *)
(* sync.Pool: Get returns any pooled object or a new one, and the pool may *)
(* drop objects.  An object that New has yet to make is empty, as is one   *)
(* that was never used, so every object is in its pool from the start.     *)
(*                                                                         *)
(* Each action is a stretch of code between two accesses to shared state   *)
(* that another goroutine can tell apart.                                  *)
(***************************************************************************)
EXTENDS Integers, FiniteSets

CONSTANTS
    Calls,      \* the calls, and their request ids
    Readers,    \* the read cycles, one per stream
    Chans,      \* response channels of chansPool
    ReqObjs,    \* *gen.Request objects of the requests pool
    RespObjs,   \* *gen.Response objects of the responses pool
    Faults,     \* which of FaultKinds the environment may inject
    None        \* nil pointer, zero id, empty slot

\* "cancel": a caller's ctx may expire; "close": the client may be closed;
\* "senderr": GetStream, SetWriteDeadline or Write may fail before Close.
FaultKinds == {"cancel", "close", "senderr"}

ASSUME FaultsAssumption == Faults \subseteq FaultKinds
ASSUME NoneAssumption == None \notin Calls \cup Chans \cup ReqObjs \cup RespObjs
ASSUME CallsFinite == IsFiniteSet(Calls)

VARIABLES
    pc,         \* where each call is
    reqOf,      \* the call's pointer to its Request (kept after its release)
    chOf,       \* the channel the call holds
    got,        \* the Response object the caller was given
    outcome,    \* the id of the response the call returned
    reqPool, reqId,         \* requests pool; RequestId field of each Request
    chPool, chBuf,          \* chansPool; the slot of each channel
    respPool, respId,       \* responses pool; RequestId of each Response
    chansMap,               \* id -> channel, None when absent
    readerResp, readerCh,   \* response and channel of a read cycle between
                            \* LoadAndDelete and the send
    wire,                   \* requests written and not yet answered
    torn,                   \* a write was cut: some stream is out of step
    partial,                \* calls whose frame is on such a stream, in part or
                            \* misread: the peer may yet take it for a request
    ctxDone,                \* calls whose ctx is done
    pendingWg,              \* counter of the WaitGroup
    closeState,             \* progress of Close
    atClose                 \* history: calls in waitResponse since before closeCh
                            \* was closed

callVars == <<pc, reqOf, chOf, got, outcome>>
reqVars == <<reqPool, reqId>>
chVars == <<chPool, chBuf>>
respVars == <<respPool, respId>>
readerVars == <<readerResp, readerCh>>
wireVars == <<wire, torn, partial>>
closeVars == <<pendingWg, closeState, atClose>>
vars == <<callVars, reqVars, chVars, respVars, chansMap, readerVars, wireVars,
          ctxDone, closeVars>>

PCs == {"idle", "built", "event", "admitted", "stored", "encoded", "sent",
        "waiting", "abandoning", "returned", "done", "failed"}

\* The types of the client's state: client.go:35-46, the pools of
\* multiplexer.go:32-42 and the locals of the two goroutines.
TypeOK ==
    /\ pc \in [Calls -> PCs]
    /\ reqOf \in [Calls -> ReqObjs \cup {None}]
    /\ chOf \in [Calls -> Chans \cup {None}]
    /\ got \in [Calls -> RespObjs \cup {None}]
    /\ outcome \in [Calls -> Calls \cup {None}]
    /\ reqPool \subseteq ReqObjs
    /\ reqId \in [ReqObjs -> Calls \cup {None}]
    /\ chPool \subseteq Chans
    /\ chBuf \in [Chans -> RespObjs \cup {None}]
    /\ respPool \subseteq RespObjs
    /\ respId \in [RespObjs -> Calls \cup {None}]
    /\ chansMap \in [Calls -> Chans \cup {None}]
    /\ readerResp \in [Readers -> RespObjs \cup {None}]
    /\ readerCh \in [Readers -> Chans \cup {None}]
    /\ wire \subseteq Calls
    /\ torn \in BOOLEAN
    /\ partial \subseteq Calls
    /\ ctxDone \subseteq Calls
    /\ pendingWg \in Nat
    /\ closeState \in {"open", "closing", "asleep", "woken", "closed", "panicked"}
    /\ atClose \subseteq Calls

Init ==
    /\ pc = [c \in Calls |-> "idle"]
    /\ reqOf = [c \in Calls |-> None]
    /\ chOf = [c \in Calls |-> None]
    /\ got = [c \in Calls |-> None]
    /\ outcome = [c \in Calls |-> None]
    /\ reqPool = ReqObjs
    /\ reqId = [o \in ReqObjs |-> None]
    /\ chPool = Chans
    /\ chBuf = [ch \in Chans |-> None]
    /\ respPool = RespObjs
    /\ respId = [o \in RespObjs |-> None]
    /\ chansMap = [i \in Calls |-> None]
    /\ readerResp = [r \in Readers |-> None]
    /\ readerCh = [r \in Readers |-> None]
    /\ wire = {}
    /\ torn = FALSE
    /\ partial = {}
    /\ ctxDone = {}
    /\ pendingWg = 0
    /\ closeState = "open"
    /\ atClose = {}

--------------------------------------------------------------------------------
(* Helpers                                                                  *)

\* No goroutine has panicked, which ends the process.
Running == closeState # "panicked"

Goto(c, from, to) ==
    /\ Running
    /\ pc[c] = from
    /\ pc' = [pc EXCEPT ![c] = to]

\* closeCh is closed.
Closed == closeState # "open"

Inside(c) == pc[c] \in {"waiting", "abandoning"}

\* pendingWg.Done of call c: the last waiter wakes a Close that sleeps in Wait.
Done(c) ==
    /\ pendingWg' = pendingWg - 1
    /\ closeState' = IF pendingWg = 1 /\ closeState = "asleep" THEN "woken" ELSE closeState
    /\ atClose' = atClose \ {c}

\* Bytes that leave a stream out of step: nothing is taken for a request until
\* more bytes follow, and then any of the calls that have a frame, or a part of
\* one, among those bytes.
OutOfStep(ids) ==
    /\ torn' = TRUE
    /\ \E taken \in SUBSET (partial \cup ids) :
          /\ torn \/ taken = {}
          /\ wire' = wire \cup taken
          /\ partial' = (partial \cup ids) \ taken

\* ShardedMap.Delete; deleting the zero id, or an absent one, does nothing.
Delete(i) ==
    chansMap' = IF i = None THEN chansMap ELSE [chansMap EXCEPT ![i] = None]

\* putChan: the channel goes back as it is, with whatever its slot holds.
PutChan(c) ==
    /\ chPool' = chPool \cup {chOf[c]}
    /\ chOf' = [chOf EXCEPT ![c] = None]

\* Mutation of PutRequest: the RequestId is left in the object.
PutRequestKeepsId(o) ==
    /\ reqId' = reqId
    /\ reqPool' = reqPool \cup {o}

\* client.ReleaseRequest: the object is reset, its RequestId included.
PutRequest(o) ==
    /\ reqId' = [reqId EXCEPT ![o] = None]
    /\ reqPool' = reqPool \cup {o}

\* sendRequestInternal and sendEventInternal return: the pointer is gone.
Forget(c) == reqOf' = [reqOf EXCEPT ![c] = None]

\* client.ReleaseResponse.
PutResponse(o) ==
    /\ respId' = [respId EXCEPT ![o] = None]
    /\ respPool' = respPool \cup {o}

--------------------------------------------------------------------------------
(* The caller                                                               *)

\* The caller obtains a Request object to fill in.
NewRequest(c) ==
    /\ Goto(c, "idle", "built")
    /\ \E o \in reqPool :
         /\ reqOf' = [reqOf EXCEPT ![c] = o]
         /\ reqPool' = reqPool \ {o}
    /\ UNCHANGED <<chOf, got, outcome, reqId, chVars, respVars, chansMap,
                   readerVars, wireVars, ctxDone, closeVars>>

\* ReleaseRequest called by the user recycles only the wrapper: the Request
\* object does not go back to its pool.
DiscardRequest(c) ==
    /\ Goto(c, "built", "done")
    /\ Forget(c)
    /\ UNCHANGED <<chOf, got, outcome, reqVars, chVars, respVars,
                   chansMap, readerVars, wireVars, ctxDone, closeVars>>

\* SendEvent: refused after Close (the Request is then dropped); otherwise the
\* Request is encoded with id 0 and released.
SendEvent(c) ==
    /\ Goto(c, "built", IF Closed THEN "done" ELSE "event")
    /\ IF Closed
         THEN /\ reqId' = reqId
              /\ reqPool' = reqPool
         ELSE PutRequest(reqOf[c])
    /\ Forget(c)
    /\ UNCHANGED <<chOf, got, outcome, chVars, respVars, chansMap,
                   readerVars, wireVars, ctxDone, closeVars>>

\* The event is written, to a stream in step or not.
WriteEvent(c) ==
    /\ Goto(c, "event", "done")
    /\ UNCHANGED wireVars \/ (torn /\ OutOfStep({}))
    /\ UNCHANGED <<reqOf, chOf, got, outcome, reqVars, chVars, respVars,
                   chansMap, readerVars, ctxDone, closeVars>>

\* No stream, no deadline, or the write of the event is cut.
EventFails(c) ==
    /\ "senderr" \in Faults \/ closeState = "closed"
    /\ Goto(c, "event", "failed")
    /\ UNCHANGED wireVars \/ OutOfStep({})
    /\ UNCHANGED <<reqOf, chOf, got, outcome, reqVars, chVars, respVars,
                   chansMap, readerVars, ctxDone, closeVars>>

\* Mutation of Admit: the Request is released before it is encoded.
AdmitReleasesEarly(c) ==
    /\ Goto(c, "built", IF Closed THEN "done" ELSE "admitted")
    /\ reqId' = [reqId EXCEPT ![reqOf[c]] = c]
    /\ reqPool' = reqPool \cup {reqOf[c]}
    /\ UNCHANGED <<reqOf, chOf, got, outcome, chVars, respVars, chansMap,
                   readerVars, wireVars, ctxDone, closeVars>>

\* SendRequest up to the closed check of sendRequestInternal: an id is drawn
\* and written into the Request if it has none (DrawsFreshId: it never has one,
\* so that c is the id of call c); after Close the call fails and the Request
\* is dropped without going back to its pool.
Admit(c) ==
    /\ Goto(c, "built", IF Closed THEN "done" ELSE "admitted")
    /\ reqId' = [reqId EXCEPT ![reqOf[c]] = IF @ = None THEN c ELSE @]
    /\ UNCHANGED <<reqOf, chOf, got, outcome, reqPool, chVars, respVars,
                   chansMap, readerVars, wireVars, ctxDone, closeVars>>

\* getChan and chansMap.Store.
Register(c) ==
    /\ Goto(c, "admitted", "stored")
    /\ \E ch \in chPool :
         /\ chPool' = chPool \ {ch}
         /\ chOf' = [chOf EXCEPT ![c] = ch]
         /\ chansMap' = [chansMap EXCEPT ![c] = ch]
    /\ UNCHANGED <<reqOf, got, outcome, reqVars, chBuf, respVars,
                   readerVars, wireVars, ctxDone, closeVars>>

\* EncodeRequest, then client.ReleaseRequest: from here on reqOf[c] points to
\* an object that another goroutine may have taken and filled in.
Encode(c) ==
    /\ Goto(c, "stored", "encoded")
    /\ PutRequest(reqOf[c])
    /\ UNCHANGED <<reqOf, chOf, got, outcome, chVars, respVars, chansMap,
                   readerVars, wireVars, ctxDone, closeVars>>

\* Mutation of Write: a deferred putChan also runs when the write succeeds.
WritePutsChan(c) ==
    /\ Goto(c, "encoded", "sent")
    /\ wire' = wire \cup {c}
    /\ chPool' = chPool \cup {chOf[c]}
    /\ Forget(c)
    /\ UNCHANGED <<chOf, got, outcome, reqVars, chBuf, respVars,
                   chansMap, readerVars, torn, partial, ctxDone, closeVars>>

\* Mutation of Write: a deferred Delete also runs when the write succeeds.
WriteDeletes(c) ==
    /\ Goto(c, "encoded", "sent")
    /\ \/ wire' = wire \cup {c} /\ UNCHANGED <<torn, partial>>
       \/ torn /\ OutOfStep({c})
    /\ Delete(reqId[reqOf[c]])
    /\ Forget(c)
    /\ UNCHANGED <<chOf, got, outcome, reqVars, chVars, respVars, readerVars,
                   ctxDone, closeVars>>

\* A stream is found and the frame is written to it; on a stream out of step the
\* peer may not see it.
Write(c) ==
    /\ Goto(c, "encoded", "sent")
    /\ \/ wire' = wire \cup {c} /\ UNCHANGED <<torn, partial>>
       \/ torn /\ OutOfStep({c})
    /\ Forget(c)
    /\ UNCHANGED <<chOf, got, outcome, reqVars, chVars, respVars,
                   chansMap, readerVars, ctxDone, closeVars>>

\* Mutation of SendFails: the error of something that comes after a complete
\* write is reported as the write's.
SendFailsAfterWrite(c) ==
    /\ "senderr" \in Faults \/ closeState = "closed"
    /\ Goto(c, "encoded", "failed")
    /\ Delete(reqId[reqOf[c]])
    /\ PutChan(c)
    /\ wire' = wire \cup {c}
    /\ Forget(c)
    /\ UNCHANGED <<got, outcome, reqVars, chBuf, respVars, readerVars,
                   torn, partial, ctxDone, closeVars>>

\* No stream (before the first one is open, or once Close has begun to reset the
\* balancers) and no deadline, with nothing written, or a write that is cut half
\* way.  The clean-up reads req.RequestId after the Request was released: it is
\* zero, or the id of the call that has taken the object since.
SendFails(c) ==
    /\ "senderr" \in Faults \/ closeState = "closed"
    /\ Goto(c, "encoded", "failed")
    /\ Delete(reqId[reqOf[c]])
    /\ PutChan(c)
    /\ UNCHANGED wireVars \/ OutOfStep({c})
    /\ Forget(c)
    /\ UNCHANGED <<got, outcome, reqVars, chBuf, respVars, readerVars,
                   ctxDone, closeVars>>

\* Mutation of WaitResponse: the waiter is not counted.
WaitResponseUncounted(c) ==
    /\ Goto(c, "sent", "waiting")
    /\ UNCHANGED <<reqOf, chOf, got, outcome, reqVars, chVars, respVars,
                   chansMap, readerVars, wireVars, ctxDone, closeVars>>

\* waitResponse up to its select.
WaitResponse(c) ==
    /\ Goto(c, "sent", "waiting")
    /\ pendingWg' = pendingWg + 1
    /\ UNCHANGED <<reqOf, chOf, got, outcome, reqVars, chVars, respVars,
                   chansMap, readerVars, wireVars, ctxDone, closeState, atClose>>

\* The environment: the caller's ctx is cancelled or its deadline passes.  The
\* select is the only place that looks, so an earlier expiry is seen there.
CtxExpires(c) ==
    /\ "cancel" \in Faults
    /\ Running
    /\ pc[c] = "waiting"
    /\ c \notin ctxDone
    /\ ctxDone' = ctxDone \cup {c}
    /\ UNCHANGED <<callVars, reqVars, chVars, respVars, chansMap, readerVars,
                   wireVars, closeVars>>

\* Mutation of GiveUp: the select has no closeCh branch.
GiveUpIgnoresClose(c) ==
    /\ c \in ctxDone
    /\ Goto(c, "waiting", "abandoning")
    /\ PutChan(c)
    /\ UNCHANGED <<reqOf, got, outcome, reqVars, chBuf, respVars, chansMap,
                   readerVars, wireVars, ctxDone, closeVars>>

\* Mutation of GiveUp: the ctx is not the call's own.
GiveUpAnyCtx(c) ==
    /\ ctxDone # {} \/ Closed
    /\ Goto(c, "waiting", "abandoning")
    /\ PutChan(c)
    /\ UNCHANGED <<reqOf, got, outcome, reqVars, chBuf, respVars, chansMap,
                   readerVars, wireVars, ctxDone, closeVars>>

\* The ctx.Done and closeCh branches of the select, first half: the channel
\* goes back to the pool while the map still names it.
GiveUp(c) ==
    /\ c \in ctxDone \/ Closed
    /\ Goto(c, "waiting", "abandoning")
    /\ PutChan(c)
    /\ UNCHANGED <<reqOf, got, outcome, reqVars, chBuf, respVars, chansMap,
                   readerVars, wireVars, ctxDone, closeVars>>

\* Their second half: the entry is deleted and the waiter is done.
Abandon(c) ==
    /\ Goto(c, "abandoning", "done")
    /\ Delete(c)
    /\ Done(c)
    /\ UNCHANGED <<reqOf, chOf, got, outcome, reqVars, chVars, respVars,
                   readerVars, wireVars, ctxDone>>

\* The receive branch: the call returns whatever its channel holds.
Receive(c) ==
    /\ pc[c] = "waiting"
    /\ chBuf[chOf[c]] # None
    /\ Goto(c, "waiting", "returned")
    /\ got' = [got EXCEPT ![c] = chBuf[chOf[c]]]
    /\ outcome' = [outcome EXCEPT ![c] = respId[chBuf[chOf[c]]]]
    /\ chBuf' = [chBuf EXCEPT ![chOf[c]] = None]
    /\ PutChan(c)
    /\ Done(c)
    /\ UNCHANGED <<reqOf, reqVars, respVars, chansMap, readerVars, wireVars,
                   ctxDone>>

\* The caller has read the response and releases it.
ReleaseResponse(c) ==
    /\ Goto(c, "returned", "done")
    /\ PutResponse(got[c])
    /\ got' = [got EXCEPT ![c] = None]
    /\ UNCHANGED <<reqOf, chOf, outcome, reqVars, chVars, chansMap,
                   readerVars, wireVars, ctxDone, closeVars>>

--------------------------------------------------------------------------------
(* A read cycle                                                             *)

\* The response to request i arrives on r's stream: it is unmarshalled into a
\* pooled object and the channel is taken out of the map.  A response with no
\* entry is released at once.
ReadResponse(r, i) ==
    /\ Running
    /\ readerResp[r] = None
    /\ i \in wire
    /\ wire' = wire \ {i}
    /\ IF chansMap[i] = None
         THEN UNCHANGED <<respVars, chansMap, readerVars>>
         ELSE \E o \in respPool :
                /\ respPool' = respPool \ {o}
                /\ respId' = [respId EXCEPT ![o] = i]
                /\ readerResp' = [readerResp EXCEPT ![r] = o]
                /\ readerCh' = [readerCh EXCEPT ![r] = chansMap[i]]
                /\ chansMap' = [chansMap EXCEPT ![i] = None]
    /\ UNCHANGED <<callVars, reqVars, chVars, torn, partial, ctxDone, closeVars>>

\* Mutation of Dispatch: the response is released after the send as well.
DispatchReleases(r) ==
    /\ Running
    /\ readerResp[r] # None
    /\ chBuf' = IF chBuf[readerCh[r]] = None
                  THEN [chBuf EXCEPT ![readerCh[r]] = readerResp[r]]
                  ELSE chBuf
    /\ PutResponse(readerResp[r])
    /\ readerResp' = [readerResp EXCEPT ![r] = None]
    /\ readerCh' = [readerCh EXCEPT ![r] = None]
    /\ UNCHANGED <<callVars, reqVars, chPool, chansMap, wireVars, ctxDone,
                   closeVars>>

\* Mutation of Dispatch: the channel has no slot, so the send succeeds only
\* when a caller is already in its select.
DispatchUnbuffered(r) ==
    /\ Running
    /\ readerResp[r] # None
    /\ IF /\ chBuf[readerCh[r]] = None
          /\ \E c \in Calls : pc[c] = "waiting" /\ chOf[c] = readerCh[r]
         THEN /\ chBuf' = [chBuf EXCEPT ![readerCh[r]] = readerResp[r]]
              /\ UNCHANGED respVars
         ELSE /\ PutResponse(readerResp[r])
              /\ UNCHANGED chBuf
    /\ readerResp' = [readerResp EXCEPT ![r] = None]
    /\ readerCh' = [readerCh EXCEPT ![r] = None]
    /\ UNCHANGED <<callVars, reqVars, chPool, chansMap, wireVars, ctxDone,
                   closeVars>>

\* The non-blocking send: a full slot means the response is released.
Dispatch(r) ==
    /\ Running
    /\ readerResp[r] # None
    /\ IF chBuf[readerCh[r]] = None
         THEN /\ chBuf' = [chBuf EXCEPT ![readerCh[r]] = readerResp[r]]
              /\ UNCHANGED respVars
         ELSE /\ PutResponse(readerResp[r])
              /\ UNCHANGED chBuf
    /\ readerResp' = [readerResp EXCEPT ![r] = None]
    /\ readerCh' = [readerCh EXCEPT ![r] = None]
    /\ UNCHANGED <<callVars, reqVars, chPool, chansMap, wireVars, ctxDone,
                   closeVars>>

--------------------------------------------------------------------------------
(* Close                                                                    *)

\* closeOnce and close(closeCh).
Close ==
    /\ "close" \in Faults
    /\ closeState = "open"
    /\ closeState' = "closing"
    /\ atClose' = {c \in Calls : Inside(c)}
    /\ UNCHANGED <<callVars, reqVars, chVars, respVars, chansMap, readerVars,
                   wireVars, ctxDone, pendingWg>>

\* What the steps of Close below leave alone.
CallsUnchanged == UNCHANGED <<callVars, reqVars, chVars, respVars, chansMap, readerVars,
                              wireVars, ctxDone, pendingWg, atClose>>

\* Mutation of CloseWait: Close does not wait for the waiters.
CloseWaitSkipped ==
    /\ closeState = "closing"
    /\ closeState' = "closed"
    /\ CallsUnchanged

\* pendingWg.Wait returns at once if nobody is counted, or sleeps.  Once it has
\* returned the multiplexers are closed one after the other, and a send may find
\* its stream gone ("closed"); a call that was admitted before may still send and
\* enter waitResponse.
CloseWait ==
    /\ closeState = "closing"
    /\ closeState' = IF pendingWg = 0 THEN "closed" ELSE "asleep"
    /\ CallsUnchanged

\* External: sync.WaitGroup lets a Wait that was woken return only if the counter
\* is still zero; an Add in between is a misuse, and panics.
CloseWakes ==
    /\ closeState = "woken"
    /\ closeState' = IF pendingWg = 0 THEN "closed" ELSE "panicked"
    /\ CallsUnchanged

CloseStep == CloseWait \/ CloseWakes

--------------------------------------------------------------------------------

\* What a caller inside SendRequest does without waiting for anyone.
CallStep(c) ==
    \/ WriteEvent(c)
    \/ EventFails(c)
    \/ Register(c)
    \/ Encode(c)
    \/ Write(c)
    \/ SendFails(c)
    \/ WaitResponse(c)
    \/ GiveUp(c)
    \/ Abandon(c)
    \/ Receive(c)

\* What the user of the client chooses to do.
UserStep(c) ==
    \/ NewRequest(c)
    \/ DiscardRequest(c)
    \/ SendEvent(c)
    \/ Admit(c)
    \/ CtxExpires(c)
    \/ ReleaseResponse(c)

\* Every call is over, or the process is.
AllDone ==
    /\ ~Running \/ \A c \in Calls : pc[c] \in {"done", "failed"}
    /\ UNCHANGED vars

Next ==
    \/ \E c \in Calls : UserStep(c) \/ CallStep(c)
    \/ \E r \in Readers : Dispatch(r) \/ (\E i \in Calls : ReadResponse(r, i))
    \/ Close
    \/ CloseStep
    \/ AllDone

Spec == Init /\ [][Next]_vars

\* Goroutines are scheduled: callers, read cycles and Close make progress.
\* Nothing is assumed of the server.
FairSpec ==
    /\ Spec
    /\ \A c \in Calls : WF_vars(CallStep(c))
    /\ \A r \in Readers : WF_vars(Dispatch(r))
    /\ WF_vars(CloseStep)

\* The server answers every request and the answer arrives.
ServerAnswers == \A i \in Calls : WF_vars(\E r \in Readers : ReadResponse(r, i))

--------------------------------------------------------------------------------
(* Properties                                                               *)

\* chansPool discipline (client.go:133-195): a channel is never in the hands
\* of two calls, nor of a call and the pool, whichever of the success, error,
\* cancel and close paths the calls leave by.
ChannelExclusive ==
    \A c \in Calls : chOf[c] # None =>
        /\ chOf[c] \notin chPool
        /\ \A d \in Calls \ {c} : chOf[d] # chOf[c]

\* requests pool discipline: a call that still fills in or encodes its Request
\* (NewRequest up to client.ReleaseRequest, client.go:114-137) is the only one
\* to do so, and the object is not up for reuse.
Fills(c) == pc[c] \in {"built", "admitted", "stored"}
RequestExclusive ==
    \A c \in Calls : Fills(c) =>
        /\ reqOf[c] \notin reqPool
        /\ \A d \in Calls \ {c} : Fills(d) => reqOf[d] # reqOf[c]

\* client.go:203-205 draws an id only for a Request that has none.  A recycled
\* Request never brings the id of an earlier call along, whichever way that call
\* ended, so two calls never share an entry of chansMap.
DrawsFreshId == \A c \in Calls : pc[c] = "built" => reqId[reqOf[c]] = None

\* responses pool discipline (multiplexer.go:185-203, client.go:191-193 and
\* 266-269): a Response is at one place only - free, with a read cycle, in a
\* channel's slot, or with a caller - so that no object is unmarshalled into
\* while a caller reads it, and no caller shares one with another.
ResponseExclusive ==
    /\ \A c \in Calls : got[c] # None =>
         /\ got[c] \notin respPool
         /\ \A d \in Calls \ {c} : got[d] # got[c]
         /\ \A ch \in Chans : chBuf[ch] # got[c]
         /\ \A r \in Readers : readerResp[r] # got[c]
    /\ \A ch \in Chans : chBuf[ch] # None =>
         /\ chBuf[ch] \notin respPool
         /\ \A ch2 \in Chans \ {ch} : chBuf[ch2] # chBuf[ch]
         /\ \A r \in Readers : readerResp[r] # chBuf[ch]
    /\ \A r \in Readers : readerResp[r] # None =>
         /\ readerResp[r] \notin respPool
         /\ \A r2 \in Readers \ {r} : readerResp[r2] # readerResp[r]

\* README.md:142: requests are matched to responses by their id.  A call that
\* returns a response returns the response to its own request.
ResponseMatchesRequest ==
    \A c \in Calls : outcome[c] \in {None, c}

\* The same, as long as no ctx has expired, the client was not closed and no
\* write was cut half way: a send that fails before its write leaves a stale
\* entry in the map and recycles its channel (client.go:145-157), but the entry
\* never has a response to come.
Undisturbed == closeState = "open" /\ ctxDone = {} /\ ~torn
MatchesUndisturbed == Undisturbed => ResponseMatchesRequest

\* README.md:169: the response is dispatched to the waiting channel.  A call
\* that has written its request can still be reached: its entry is in the map,
\* or a read cycle is about to send to its channel, or the slot is filled.
NeverStranded ==
    \A c \in Calls : pc[c] \in {"sent", "waiting"} =>
        \/ chansMap[c] = chOf[c]
        \/ \E r \in Readers : readerResp[r] # None /\ readerCh[r] = chOf[c]
        \/ chBuf[chOf[c]] # None

\* The same, as long as no send has failed, whichever calls give up: the entry a
\* failing send deletes is the only one that is not the deleter's own
\* (client.go:145-167).
NoSendFailed == \A c \in Calls : pc[c] # "failed"
ReachableUntilSendFails == NoSendFailed => NeverStranded

\* Close (client.go:280-290) begins to reset the multiplexers only when every
\* call that was in waitResponse when closeCh was closed has left it, though calls
\* admitted earlier may enter meanwhile, or later.  It takes such a latecomer,
\* counted between the last Done and the moment Wait returns (client.go:177 and
\* 284), for the WaitGroup to panic.
CloseWaitsForWaiters ==
    /\ closeState \in {"closed", "panicked"} => atClose = {}
    /\ closeState = "panicked" => \E c \in Calls : Inside(c)

\* A call past its closed check returns once its ctx is done or the client is
\* closed (client.go:180-189), even if the server never answers.
ReleasedCallsReturn ==
    \A c \in Calls :
        (pc[c] \notin {"idle", "built"} /\ (Closed \/ c \in ctxDone))
            ~> (pc[c] \in {"returned", "done", "failed"} \/ ~Running)

\* Close returns, unless the WaitGroup panics: pendingWg.Wait (client.go:284) is
\* not starved by calls that were admitted before closeCh was closed.
CloseReturns == (closeState = "closing") ~> (closeState = "closed" \/ ~Running)

\* If the server answers every request, every call past its closed check
\* returns, unless some send fails: no response is lost between the read cycle
\* and the caller (multiplexer.go:185-203, client.go:170-195).
AnsweredCallsReturn == ServerAnswers =>
    \A c \in Calls :
        (pc[c] = "admitted") ~> (pc[c] \in {"returned", "done"} \/ ~NoSendFailed \/ ~Running)

--------------------------------------------------------------------------------
(* The client implements RpcCalls                                           *)

\* Responses on their way from a read cycle to a caller.
Held == ({readerResp[r] : r \in Readers} \cup {chBuf[ch] : ch \in Chans}) \ {None}

StatusOf(l, result) ==
    IF result # None
      THEN "returned"
      ELSE CASE l \in {"idle", "built", "event"} -> "new"
             [] l \in {"admitted", "stored", "encoded"} -> "open"
             [] l \in {"sent", "waiting"} -> "sent"
             [] OTHER -> "over"

Rpc == INSTANCE RpcCalls WITH
    status <- [c \in Calls |-> StatusOf(pc[c], outcome[c])],
    answer <- outcome,
    requests <- wire,
    cut <- torn,
    pieces <- partial,
    responses <- {respId[o] : o \in Held},
    cancelled <- ctxDone,
    closed <- Closed

\* client.go:114-195 with multiplexer.go:185-203: through all its pools the client
\* keeps the promises of RpcCalls.  Whoever gives up and whatever write is cut, a
\* request is answered at most once and never before a byte of it was sent, its
\* response is returned at most once, and a call gives up only for its own ctx or
\* for Close.
ImplementsRpc == Rpc!Spec
================================================================================
