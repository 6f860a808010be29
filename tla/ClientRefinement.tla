---------------------------- MODULE ClientRefinement ---------------------------
(* The client implements RpcCalls, for every number of calls, read cycles    *)
(* and pooled objects.                                                       *)
EXTENDS ClientCallsProofs

--------------------------------------------------------------------------------
(* Where the response to each request is.                                    *)

Unsent == {"idle", "built", "event", "admitted", "stored", "encoded"}

\* Calls of which the peer has, or may yet make out, a request.
Asked == wire \cup partial

\* A request is answered once: it is on a stream, whole or in part, or one object on
\* its way holds the response, never two of these and never before it was sent.
HeldInv ==
    /\ \A i \in Asked : pc[i] \notin Unsent
    /\ wire \cap partial = {}
    /\ \A o \in Held :
          respId[o] \in Calls /\ respId[o] \notin Asked /\ pc[respId[o]] \notin Unsent
    /\ \A o, p \in Held : respId[o] = respId[p] => o = p
    /\ \A c \in Calls : outcome[c] # None => pc[c] \in {"returned", "done"}

LEMMA HeldInit == Init => HeldInv
  BY DEF Init, HeldInv, Held, Asked

\* A step that puts nobody but ids on a stream: the calls that were there stay.
PutsOn(ids) ==
    /\ Asked' = Asked \cup ids
    /\ wire' \cap partial' = {}

LEMMA OutOfStepPuts ==
  ASSUME NEW ids, wire \cap (partial \cup ids) = {}, OutOfStep(ids)
  PROVE  PutsOn(ids)
  <1>1. PICK taken \in SUBSET (partial \cup ids) :
          wire' = wire \cup taken /\ partial' = (partial \cup ids) \ taken
    BY Zenon DEF OutOfStep
  <1> QED
    BY <1>1 DEF PutsOn, Asked

\* No call goes back before its send, so a step that leaves the responses alone
\* and puts only its own call on a stream keeps the invariant.
LEMMA HeldKeeps ==
  ASSUME BaseInv, HeldInv, NEW c \in Calls, NEW from \in PCs, NEW to \in PCs,
         Goto(c, from, to), from \notin Unsent => to \notin Unsent,
         from \notin {"returned", "done"},
         Held' = Held, respId' = respId, outcome' = outcome,
         PutsOn({}) \/ (PutsOn({c}) /\ from \in Unsent /\ to \notin Unsent)
  PROVE  HeldInv'
  <1>1. Asked' = Asked \/ (Asked' = Asked \cup {c} /\ from \in Unsent /\ to \notin Unsent)
    BY Zenon DEF PutsOn
  <1>2. wire' \cap partial' = {}
    BY Zenon DEF PutsOn
  <1> HIDE DEF Asked
  <1> QED
    BY <1>1, <1>2 DEF BaseInv, TypeOK, HeldInv, Goto

\* What the steps of a call put on a stream.
LEMMA CallPuts ==
  ASSUME BaseInv, HeldInv, NEW c \in Calls
  PROVE  /\ UNCHANGED wireVars => PutsOn({})
         /\ WriteEvent(c) \/ EventFails(c) => PutsOn({})
         /\ Write(c) => PutsOn({c})
         /\ SendFails(c) => PutsOn({}) \/ PutsOn({c})
  <1>1. UNCHANGED wireVars => PutsOn({})
    BY Zenon DEF PutsOn, Asked, wireVars, HeldInv
  <1>2. wire \cap (partial \cup {}) = {}
    BY Zenon DEF HeldInv
  <1>3. OutOfStep({}) => PutsOn({})
    BY Zenon, <1>2, OutOfStepPuts
  <1>4. pc[c] = "encoded" => wire \cap (partial \cup {c}) = {} /\ c \notin partial
    BY Zenon DEF HeldInv, Asked, Unsent
  <1>5. pc[c] = "encoded" /\ OutOfStep({c}) => PutsOn({c})
    BY Zenon, <1>4, OutOfStepPuts
  <1>6. ASSUME pc[c] = "encoded", wire' = wire \cup {c}, partial' = partial
        PROVE  PutsOn({c})
    BY <1>4, <1>6, <1>2 DEF PutsOn, Asked
  <1> QED
    BY Zenon, <1>1, <1>3, <1>5, <1>6 DEF WriteEvent, EventFails, Write, SendFails, Goto

LEMMA HeldNext == Owned /\ HeldInv /\ [Next]_vars => HeldInv'
  <1> SUFFICES ASSUME Owned, HeldInv, [Next]_vars PROVE HeldInv'
    OBVIOUS
  <1> USE NoneAssumption DEF Owned
  <1>1. ASSUME NEW c \in Calls,
               NewRequest(c) \/ DiscardRequest(c) \/ SendEvent(c) \/ WriteEvent(c)
                 \/ EventFails(c) \/ Admit(c) \/ Register(c) \/ Encode(c) \/ Write(c)
                 \/ SendFails(c) \/ WaitResponse(c) \/ GiveUp(c) \/ Abandon(c)
        PROVE HeldInv'
    <2>1. Held' = Held /\ respId' = respId /\ outcome' = outcome
      BY Zenon, <1>1 DEF Held, NewRequest, DiscardRequest, SendEvent, WriteEvent, EventFails,
         Admit, Register, Encode, Write, SendFails, WaitResponse, GiveUp, Abandon, PutChan,
         chVars, respVars, readerVars
    <2>2. PICK from \in PCs \ {"returned", "done"}, to \in PCs :
            /\ Goto(c, from, to)
            /\ from \notin Unsent => to \notin Unsent
            /\ PutsOn({}) \/ (PutsOn({c}) /\ from \in Unsent /\ to \notin Unsent)
      <3>1. CASE WriteEvent(c) \/ EventFails(c) \/ Write(c) \/ SendFails(c)
        BY Zenon, <3>1, CallPuts DEF WriteEvent, EventFails, Write, SendFails, PCs, Unsent
      <3>2. CASE ~(WriteEvent(c) \/ EventFails(c) \/ Write(c) \/ SendFails(c))
        <4>1. UNCHANGED wireVars
          BY Zenon, <1>1, <3>2 DEF NewRequest, DiscardRequest, SendEvent, Admit, Register,
             Encode, WaitResponse, GiveUp, Abandon
        <4>2. PutsOn({})
          BY Zenon, <4>1, CallPuts
        <4> QED
          BY Zenon, <1>1, <3>2, <4>2 DEF NewRequest, DiscardRequest, SendEvent, Admit, Register,
             Encode, WaitResponse, GiveUp, Abandon, PCs, Unsent
      <3> QED
        BY Zenon, <3>1, <3>2
    <2> QED
      BY Zenon, <2>1, <2>2, HeldKeeps
  <1>2. ASSUME NEW c \in Calls, Receive(c) PROVE HeldInv'
    <2>1. chOf[c] \in Chans /\ chBuf[chOf[c]] \in Held /\ pc[c] = "waiting"
      BY <1>2 DEF Receive, BaseInv, CallInv, TypeOK, HoldsChan, Held
    <2>2. Held' \subseteq Held
      BY <1>2, <2>1 DEF Receive, Held, BaseInv, TypeOK, readerVars
    <2>3. UNCHANGED wireVars /\ respId' = respId /\ pc' = [pc EXCEPT ![c] = "returned"]
          /\ \A d \in Calls \ {c} : outcome'[d] = outcome[d]
      BY Zenon, <1>2 DEF Receive, Goto, respVars, BaseInv, TypeOK
    <2>4. Asked' = Asked /\ wire' \cap partial' = {}
      BY Zenon, <2>3 DEF Asked, wireVars, HeldInv
    <2> HIDE DEF Asked
    <2> QED
      BY <2>1, <2>2, <2>3, <2>4 DEF HeldInv, BaseInv, TypeOK, Unsent
  <1>3. ASSUME NEW c \in Calls, ReleaseResponse(c) PROVE HeldInv'
    <2>1. got[c] \in RespObjs /\ got[c] \notin Held /\ pc[c] = "returned"
      BY <1>3 DEF ReleaseResponse, Goto, BaseInv, CallInv, TypeOK, ResponseExclusive, Held
    <2>2. Held' = Held /\ UNCHANGED wireVars /\ outcome' = outcome
          /\ pc' = [pc EXCEPT ![c] = "done"]
          /\ \A o \in Held : respId'[o] = respId[o]
      BY <1>3, <2>1 DEF ReleaseResponse, PutResponse, Goto, Held, chVars, readerVars,
         BaseInv, TypeOK
    <2>3. Asked' = Asked /\ wire' \cap partial' = {}
      BY Zenon, <2>2 DEF Asked, wireVars, HeldInv
    <2> QED
      BY <2>1, <2>2, <2>3 DEF HeldInv, BaseInv, TypeOK, Unsent
  <1>4. ASSUME NEW r \in Readers, NEW i \in Calls, ReadResponse(r, i) PROVE HeldInv'
    <2>a. i \in wire /\ Asked' = Asked \ {i} /\ wire' \cap partial' = {}
      BY <1>4 DEF ReadResponse, Asked, HeldInv
    <2>1. CASE chansMap[i] = None
      BY <1>4, <2>a, <2>1 DEF ReadResponse, HeldInv, Held, callVars, chVars, respVars, readerVars
    <2>2. CASE chansMap[i] # None
      <3>1. PICK o \in respPool :
              /\ respId' = [respId EXCEPT ![o] = i]
              /\ readerResp' = [readerResp EXCEPT ![r] = o]
        BY Zenon, <1>4, <2>2 DEF ReadResponse
      <3>2. o \in RespObjs /\ o \notin Held
        BY DEF BaseInv, TypeOK, ResponseExclusive, Held
      <3>3. Held' = Held \cup {o}
        BY <1>4, <3>1, <3>2 DEF ReadResponse, Held, BaseInv, TypeOK, chVars
      <3>4. respId'[o] = i /\ \A p \in Held : respId'[p] = respId[p]
        BY <3>1, <3>2 DEF BaseInv, TypeOK
      <3>5. i \in Asked /\ UNCHANGED <<pc, outcome>>
        BY Zenon, <1>4 DEF ReadResponse, callVars, Asked
      <3> QED
        BY <2>a, <3>2, <3>3, <3>4, <3>5 DEF HeldInv
    <2> QED
      BY Zenon, <2>1, <2>2
  <1>5. ASSUME NEW r \in Readers, Dispatch(r) PROVE HeldInv'
    <2>1. readerResp[r] \in Held /\ readerResp[r] \in RespObjs /\ readerCh[r] \in Chans
      BY Zenon, <1>5 DEF Dispatch, Held, BaseInv, TypeOK, ReaderInv
    <2>2. UNCHANGED <<pc, outcome>> /\ Asked' = Asked /\ wire' \cap partial' = {}
      BY Zenon, <1>5 DEF Dispatch, callVars, wireVars, Asked, HeldInv
    <2>3. Held' \subseteq Held /\ \A o \in Held' : respId'[o] = respId[o]
      <3>1. CASE chBuf[readerCh[r]] = None
        BY <1>5, <2>1, <3>1 DEF Dispatch, Held, BaseInv, TypeOK, respVars
      <3>2. CASE chBuf[readerCh[r]] # None
        <4>1. /\ chBuf' = chBuf
              /\ respId' = [respId EXCEPT ![readerResp[r]] = None]
              /\ readerResp' = [readerResp EXCEPT ![r] = None]
          BY Zenon, <1>5, <3>2 DEF Dispatch, PutResponse
        <4>2. readerResp[r] \notin Held'
          BY <2>1, <4>1, <1>5 DEF Held, ResponseExclusive, BaseInv, TypeOK
        <4> QED
          BY <2>1, <4>1, <4>2 DEF Held, BaseInv, TypeOK
      <3> QED
        BY Zenon, <3>1, <3>2
    <2> QED
      BY Zenon, <2>2, <2>3 DEF HeldInv
  <1>6. ASSUME UNCHANGED <<pc, outcome, wireVars, respId, readerResp, chBuf>> PROVE HeldInv'
    BY <1>6 DEF HeldInv, Held, Asked, wireVars
  <1> QED
    BY Zenon, <1>1, <1>2, <1>3, <1>4, <1>5, <1>6 DEF Next, UserStep, CallStep, CtxExpires,
       Close, CloseStep, CloseWait, CloseWakes, CallsUnchanged, AllDone, vars, callVars,
       chVars, respVars, readerVars

--------------------------------------------------------------------------------
(* The refinement.                                                           *)

\* Short names for the abstract state.
rstatus == [c \in Calls |-> StatusOf(pc[c], outcome[c])]
rresponses == {respId[o] : o \in Held}

LEMMA RpcInit == Init => Rpc!Init
  BY DEF Init, Rpc!Init, StatusOf, Held, Closed

\* A step that moves c and returns nothing moves c's abstract status only.
LEMMA StatusMoves ==
  ASSUME BaseInv, HeldInv, NEW c \in Calls, NEW from \in PCs \ {"returned", "done"}, NEW to,
         Goto(c, from, to), outcome' = outcome
  PROVE  /\ rstatus[c] = StatusOf(from, None)
         /\ rstatus' = [rstatus EXCEPT ![c] = StatusOf(to, None)]
  <1>1. outcome[c] = None /\ pc[c] = from
    BY Zenon DEF HeldInv, Goto
  <1>2. pc' = [pc EXCEPT ![c] = to] /\ pc \in [Calls -> PCs]
    BY Zenon DEF Goto, BaseInv, TypeOK
  <1> QED
    BY Zenon, <1>1, <1>2 DEF rstatus

\* The abstract state without the status, of a step that moves no response.
rest == <<outcome, wireVars, rresponses, ctxDone, Closed>>

\* Steps inside SendRequest that RpcCalls does not see.
LEMMA RpcStutters ==
  ASSUME Owned, HeldInv, NEW c \in Calls,
         NewRequest(c) \/ (SendEvent(c) /\ ~Closed) \/ Register(c) \/ Encode(c)
           \/ WaitResponse(c) \/ Abandon(c)
  PROVE  UNCHANGED Rpc!rpcVars
  <1>1. UNCHANGED rest /\ outcome' = outcome
    BY Zenon DEF NewRequest, SendEvent, Register, Encode, WaitResponse, Abandon, Done, rest,
       rresponses, Held, Closed, chVars, respVars, readerVars, closeVars
  <1>2. rstatus' = [rstatus EXCEPT ![c] = rstatus[c]]
    <2>1. PICK from \in PCs \ {"returned", "done"}, to \in PCs :
            Goto(c, from, to) /\ StatusOf(from, None) = StatusOf(to, None)
      BY DEF NewRequest, SendEvent, Register, Encode, WaitResponse, Abandon, StatusOf, PCs
    <2> QED
      BY Zenon, <1>1, <2>1, StatusMoves DEF Owned
  <1>3. rstatus' = rstatus
    BY Zenon, <1>2 DEF rstatus
  <1> QED
    BY Zenon, <1>1, <1>3 DEF Rpc!rpcVars, Rpc!sending, rest, rstatus, rresponses, wireVars

\* A stream out of step is one for RpcCalls.
LEMMA RpcGarbles ==
  ASSUME NEW ids
  PROVE  /\ OutOfStep(ids) => Rpc!Garbled(ids)
         /\ UNCHANGED wireVars => UNCHANGED Rpc!sending
  BY Zenon DEF OutOfStep, Rpc!Garbled, wireVars, Rpc!sending

\* Steps of a call that RpcCalls sees, but for Receive.
LEMMA RpcCallSteps ==
  ASSUME Owned, HeldInv, NEW c \in Calls,
         \/ DiscardRequest(c) \/ (SendEvent(c) /\ Closed) \/ WriteEvent(c) \/ EventFails(c)
         \/ Admit(c) \/ Write(c) \/ SendFails(c) \/ GiveUp(c)
  PROVE  Rpc!Next
  <1> USE DEF Owned
  <1>1. UNCHANGED <<outcome, rresponses, ctxDone, Closed>>
    <2>1. UNCHANGED <<outcome, chBuf, respId, readerResp, ctxDone, closeState>>
      BY Zenon DEF DiscardRequest, SendEvent, WriteEvent, EventFails, Admit, Write, SendFails,
         GiveUp, PutChan, chVars, respVars, readerVars, closeVars
    <2>2. Held' = Held
      BY Zenon, <2>1 DEF Held
    <2> QED
      BY Zenon, <2>1, <2>2 DEF rresponses, Closed
  <1>2. CASE DiscardRequest(c) \/ (SendEvent(c) /\ Closed) \/ WriteEvent(c) \/ EventFails(c)
               \/ (Admit(c) /\ Closed)
    <2>1. PICK from \in {"built", "event"}, to \in {"done", "failed"} : Goto(c, from, to)
      BY Zenon, <1>2 DEF DiscardRequest, SendEvent, WriteEvent, EventFails, Admit
    <2>w. UNCHANGED Rpc!sending \/ Rpc!Garbled({})
      BY Zenon, <1>2, RpcGarbles DEF DiscardRequest, SendEvent, WriteEvent, EventFails, Admit
    <2>2. rstatus[c] = "new" /\ rstatus' = [rstatus EXCEPT ![c] = "over"]
      <3>1. from \in PCs \ {"returned", "done"}
        BY Zenon DEF PCs
      <3>2. StatusOf(from, None) = "new" /\ StatusOf(to, None) = "over"
        BY DEF StatusOf
      <3>3. /\ rstatus[c] = StatusOf(from, None)
            /\ rstatus' = [rstatus EXCEPT ![c] = StatusOf(to, None)]
        BY Zenon, <1>1, <2>1, <3>1, StatusMoves
      <3> QED
        BY Zenon, <3>2, <3>3
    <2>3. Rpc!Refuse(c)
      BY Zenon, <1>1, <2>w, <2>2 DEF Rpc!Refuse, Rpc!Moves, rstatus, rresponses
    <2> QED
      BY Zenon, <2>3 DEF Rpc!Next
  <1>3. CASE Admit(c) /\ ~Closed
    <2>1. Goto(c, "built", "admitted") /\ UNCHANGED Rpc!sending
      BY Zenon, <1>3, RpcGarbles DEF Admit
    <2>2. rstatus[c] = "new" /\ rstatus' = [rstatus EXCEPT ![c] = "open"]
      BY <1>1, <2>1, StatusMoves DEF StatusOf, PCs
    <2>3. Rpc!Start(c)
      BY Zenon, <1>1, <1>3, <2>1, <2>2 DEF Rpc!Start, Rpc!Moves, rstatus, rresponses
    <2> QED
      BY Zenon, <2>3 DEF Rpc!Next
  <1>4. CASE Write(c)
    <2>1. Goto(c, "encoded", "sent")
      BY Zenon, <1>4 DEF Write
    <2>w. (wire' = wire \cup {c} /\ UNCHANGED <<torn, partial>>) \/ (torn /\ Rpc!Garbled({c}))
      BY Zenon, <1>4, RpcGarbles DEF Write
    <2>2. rstatus[c] = "open" /\ rstatus' = [rstatus EXCEPT ![c] = "sent"]
      BY <1>1, <2>1, StatusMoves DEF StatusOf, PCs
    <2>3. Rpc!Send(c)
      BY Zenon, <1>1, <2>w, <2>2 DEF Rpc!Send, Rpc!Moves, rstatus, rresponses
    <2> QED
      BY Zenon, <2>3 DEF Rpc!Next
  <1>5. CASE SendFails(c)
    <2>1. Goto(c, "encoded", "failed") /\ (UNCHANGED Rpc!sending \/ Rpc!Garbled({c}))
      BY Zenon, <1>5, RpcGarbles DEF SendFails
    <2>2. rstatus[c] = "open" /\ rstatus' = [rstatus EXCEPT ![c] = "over"]
      BY <1>1, <2>1, StatusMoves DEF StatusOf, PCs
    <2>3. Rpc!Fail(c)
      BY Zenon, <1>1, <2>1, <2>2 DEF Rpc!Fail, Rpc!Moves, rstatus, rresponses
    <2> QED
      BY Zenon, <2>3 DEF Rpc!Next
  <1>6. CASE GiveUp(c)
    <2>1. /\ Goto(c, "waiting", "abandoning") /\ UNCHANGED Rpc!sending
          /\ c \in ctxDone \/ Closed
      BY Zenon, <1>6, RpcGarbles DEF GiveUp
    <2>2. rstatus[c] = "sent" /\ rstatus' = [rstatus EXCEPT ![c] = "over"]
      BY <1>1, <2>1, StatusMoves DEF StatusOf, PCs
    <2>3. Rpc!GiveUp(c)
      BY Zenon, <1>1, <2>1, <2>2 DEF Rpc!GiveUp, Rpc!Moves, rstatus, rresponses
    <2> QED
      BY Zenon, <2>3 DEF Rpc!Next
  <1> QED
    BY Zenon, <1>2, <1>3, <1>4, <1>5, <1>6

\* A call returns a response that is then nowhere else, and until someone gives
\* up or a write is cut it is the call's own.
LEMMA RpcReturns ==
  ASSUME Owned, HeldInv, Undisturbed => MatchInv, NEW c \in Calls, Receive(c)
  PROVE  Rpc!Next
  <1> USE NoneAssumption DEF Owned
  <1> DEFINE o == chBuf[chOf[c]]
  <1>1. chOf[c] \in Chans /\ o # None /\ o \in RespObjs /\ o \in Held /\ pc[c] = "waiting"
    BY DEF Receive, BaseInv, CallInv, TypeOK, HoldsChan, Held
  <1>2. PICK i \in Calls : i = respId[o] /\ i \in rresponses
    BY <1>1 DEF HeldInv, rresponses
  <1>3. i = c \/ Closed \/ ctxDone # {} \/ torn
    <2> SUFFICES ASSUME Undisturbed PROVE i = c
      BY Zenon DEF Undisturbed, Closed
    <2>1. chOf[i] = chOf[c]
      BY Zenon, <1>1, <1>2 DEF MatchInv, InSlot, MeantFor
    <2> QED
      BY Zenon, <1>1, <1>2, <2>1 DEF ChannelExclusive
  <1>4. Held' = Held \ {o}
    BY <1>1 DEF Receive, Held, ResponseExclusive, BaseInv, TypeOK, readerVars
  <1>5. rresponses' = rresponses \ {i}
    BY <1>1, <1>2, <1>4 DEF Receive, respVars, rresponses, HeldInv
  <1>6. outcome' = [outcome EXCEPT ![c] = i] /\ UNCHANGED <<Rpc!sending, ctxDone, Closed>>
    BY Zenon, <1>2, RpcGarbles DEF Receive, Done, Closed
  <1>7. rstatus[c] = "sent" /\ rstatus' = [rstatus EXCEPT ![c] = "returned"]
    <2>1. outcome[c] = None
      BY Zenon, <1>1 DEF HeldInv
    <2>2. pc' = [pc EXCEPT ![c] = "returned"] /\ pc \in [Calls -> PCs]
          /\ outcome \in [Calls -> Calls \cup {None}]
      BY Zenon DEF Receive, Goto, BaseInv, TypeOK
    <2> QED
      BY Zenon, <1>1, <1>2, <1>6, <2>1, <2>2 DEF rstatus, StatusOf
  <1>8. Rpc!Return(c, i)
    BY Zenon, <1>2, <1>3, <1>5, <1>6, <1>7 DEF Rpc!Return, Rpc!Moves, rstatus, rresponses
  <1> QED
    BY Zenon, <1>8 DEF Rpc!Next

\* The caller's release of a response it has returned is not seen.
LEMMA RpcReleases ==
  ASSUME Owned, HeldInv, NEW c \in Calls, ReleaseResponse(c)
  PROVE  UNCHANGED Rpc!rpcVars
  <1> USE NoneAssumption DEF Owned
  <1>1. got[c] \in RespObjs /\ got[c] \notin Held /\ pc[c] = "returned"
    BY DEF ReleaseResponse, Goto, BaseInv, CallInv, TypeOK, ResponseExclusive, Held
  <1>2. Held' = Held /\ \A o \in Held : respId'[o] = respId[o]
    BY <1>1 DEF ReleaseResponse, PutResponse, Held, chVars, readerVars, BaseInv, TypeOK
  <1>3. rresponses' = rresponses
    BY Zenon, <1>2 DEF rresponses
  <1>4. rstatus' = rstatus
    BY Zenon, <1>1 DEF rstatus, ReleaseResponse, Goto, StatusOf, BaseInv, TypeOK
  <1> QED
    BY Zenon, <1>3, <1>4 DEF ReleaseResponse, Rpc!rpcVars, Rpc!sending, rstatus, rresponses,
       Closed, closeVars, wireVars

\* A response arrives for a read cycle, which keeps it or throws it away.
LEMMA RpcArrives ==
  ASSUME Owned, HeldInv, NEW r \in Readers, NEW i \in Calls, ReadResponse(r, i)
  PROVE  Rpc!Next
  <1> USE NoneAssumption DEF Owned
  <1>1. /\ i \in wire /\ wire' = wire \ {i}
        /\ rstatus' = rstatus /\ UNCHANGED <<outcome, torn, partial, ctxDone, Closed>>
    BY Zenon DEF ReadResponse, callVars, closeVars, Closed, rstatus
  <1>2. rresponses' = rresponses \/ rresponses' = rresponses \cup {i}
    <2>1. CASE chansMap[i] = None
      BY Zenon, <2>1 DEF ReadResponse, rresponses, Held, chVars, respVars, readerVars
    <2>2. CASE chansMap[i] # None
      <3>1. PICK o \in respPool :
              /\ respId' = [respId EXCEPT ![o] = i]
              /\ readerResp' = [readerResp EXCEPT ![r] = o]
        BY Zenon, <2>2 DEF ReadResponse
      <3>2. o \in RespObjs /\ o \notin Held
        BY DEF BaseInv, TypeOK, ResponseExclusive, Held
      <3>3. Held' = Held \cup {o}
        BY <3>1, <3>2 DEF ReadResponse, Held, BaseInv, TypeOK, chVars
      <3>4. respId'[o] = i /\ \A p \in Held : respId'[p] = respId[p]
        BY <3>1, <3>2 DEF BaseInv, TypeOK
      <3> QED
        BY Zenon, <3>3, <3>4 DEF rresponses
    <2> QED
      BY Zenon, <2>1, <2>2
  <1>3. Rpc!Arrive(i)
    BY ZenonT(60), <1>1, <1>2 DEF Rpc!Arrive, rstatus, rresponses
  <1> QED
    BY Zenon, <1>3 DEF Rpc!Next

\* The send into the channel is not seen; a full slot loses the response.
LEMMA RpcDispatches ==
  ASSUME Owned, HeldInv, NEW r \in Readers, Dispatch(r)
  PROVE  Rpc!Next \/ UNCHANGED Rpc!rpcVars
  <1> USE NoneAssumption DEF Owned
  <1> DEFINE o == readerResp[r]
  <1>1. o \in Held /\ o \in RespObjs /\ o # None /\ readerCh[r] \in Chans
    BY Zenon DEF Dispatch, Held, BaseInv, TypeOK, ReaderInv
  <1>2. rstatus' = rstatus /\ UNCHANGED <<outcome, Rpc!sending, ctxDone, Closed>>
    BY Zenon, RpcGarbles DEF Dispatch, callVars, closeVars, Closed, rstatus
  <1>3. CASE chBuf[readerCh[r]] = None
    <2>1. respId' = respId /\ Held' = Held
      BY SMTT(40), <1>1, <1>3 DEF Dispatch, Held, BaseInv, TypeOK, respVars
    <2>2. rresponses' = rresponses
      BY Zenon, <2>1 DEF rresponses
    <2> QED
      BY Zenon, <1>2, <2>2 DEF Rpc!rpcVars, rstatus, rresponses
  <1>4. CASE chBuf[readerCh[r]] # None
    <2>1. /\ chBuf' = chBuf
          /\ respId' = [respId EXCEPT ![o] = None]
          /\ readerResp' = [readerResp EXCEPT ![r] = None]
      BY Zenon, <1>4 DEF Dispatch, PutResponse
    <2>2. Held' = Held \ {o}
      BY <1>1, <2>1 DEF Held, ResponseExclusive, BaseInv, TypeOK
    <2>3. PICK i \in Calls : i = respId[o] /\ i \in rresponses
      BY Zenon, <1>1 DEF HeldInv, rresponses
    <2>4. \A p \in Held \ {o} : respId'[p] = respId[p] /\ respId[p] # i
      BY <1>1, <2>1, <2>3 DEF HeldInv, Held, BaseInv, TypeOK
    <2>5. rresponses' = rresponses \ {i}
      BY SMTT(40), <1>1, <2>2, <2>3, <2>4 DEF rresponses
    <2>6. Rpc!Lose(i)
      BY Zenon, <1>2, <2>3, <2>5 DEF Rpc!Lose, rstatus, rresponses
    <2> QED
      BY Zenon, <2>6 DEF Rpc!Next
  <1> QED
    BY Zenon, <1>3, <1>4

LEMMA RpcNext ==
  Owned /\ HeldInv /\ (Undisturbed => MatchInv) /\ [Next]_vars => [Rpc!Next]_(Rpc!rpcVars)
  <1> SUFFICES ASSUME Owned, HeldInv, Undisturbed => MatchInv, [Next]_vars
               PROVE  Rpc!Next \/ UNCHANGED Rpc!rpcVars
    OBVIOUS
  <1>1. ASSUME NEW c \in Calls, UserStep(c) \/ CallStep(c)
        PROVE  Rpc!Next \/ UNCHANGED Rpc!rpcVars
    <2>1. CASE CtxExpires(c)
      <3>1. Rpc!Cancel(c)
        BY Zenon, <2>1 DEF CtxExpires, Rpc!Cancel, Rpc!sending, Held, Closed, callVars, chVars,
           respVars, readerVars, wireVars, closeVars
      <3> QED
        BY Zenon, <3>1 DEF Rpc!Next
    <2> QED
      BY Zenon, <1>1, <2>1, RpcStutters, RpcCallSteps, RpcReturns, RpcReleases DEF UserStep, CallStep
  <1>2. ASSUME NEW r \in Readers, Dispatch(r) \/ \E i \in Calls : ReadResponse(r, i)
        PROVE  Rpc!Next \/ UNCHANGED Rpc!rpcVars
    BY Zenon, <1>2, RpcDispatches, RpcArrives
  <1>3. CASE Close
    <2>1. Rpc!Close
      BY Zenon, <1>3 DEF Close, Rpc!Close, Rpc!sending, Held, Closed, callVars, chVars, respVars,
         readerVars, wireVars
    <2> QED
      BY Zenon, <2>1 DEF Rpc!Next
  <1>4. CASE CloseStep
    BY Zenon, <1>4 DEF CloseStep, CloseWait, CloseWakes, CallsUnchanged, Rpc!rpcVars, Rpc!sending,
       Held, Closed, callVars, chVars, respVars, readerVars, wireVars
  <1>5. CASE UNCHANGED vars
    BY Zenon, <1>5 DEF vars, Rpc!rpcVars, Rpc!sending, Held, Closed, callVars, chVars, respVars,
       readerVars, wireVars, closeVars
  <1> QED
    BY Zenon, <1>1, <1>2, <1>3, <1>4, <1>5 DEF Next, AllDone

\* The client implements RpcCalls: pooled channels and objects, the map and the
\* read cycles deliver each response at most once, to its own call until the
\* first call gives up or the first write is cut.
THEOREM ClientImplementsRpc == Spec => ImplementsRpc
  <1> DEFINE Inv == Undisturbed => MatchInv
  <1>1. Init => Inv
    BY Zenon, MatchInit
  <1>2. Owned /\ Inv /\ [Next]_vars => Inv'
    BY Zenon, MatchNext, UndisturbedBefore
  <1>3. Spec => []Owned
    BY BaseInit, BaseNext, ChannelsExclusive, ResponsesExclusive, PTL DEF Spec, Owned
  <1>4. Owned /\ HeldInv /\ Inv /\ [Next]_vars => [Rpc!Next]_(Rpc!rpcVars)
    BY Zenon, RpcNext
  <1> HIDE DEF Inv
  <1> QED
    BY <1>1, <1>2, <1>3, <1>4, HeldInit, HeldNext, RpcInit, PTL DEF Spec, ImplementsRpc, Rpc!Spec
================================================================================
