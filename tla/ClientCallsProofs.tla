--------------------------- MODULE ClientCallsProofs ---------------------------
(* Theorems about ClientCalls, for every number of calls, read cycles and    *)
(* pooled objects.                                                           *)
EXTENDS ClientCalls, FiniteSetTheorems, TLAPS

--------------------------------------------------------------------------------
(* What a call, a read cycle and the WaitGroup hold at each point.           *)

HoldsChan == {"stored", "encoded", "sent", "waiting"}

CallInv ==
    \A c \in Calls :
        /\ chOf[c] # None <=> pc[c] \in HoldsChan
        /\ pc[c] \in {"built", "admitted", "stored", "encoded"} => reqOf[c] \in ReqObjs
        /\ got[c] # None <=> pc[c] = "returned"

ReaderInv == \A r \in Readers : readerResp[r] # None => readerCh[r] \in Chans

Waiters == {c \in Calls : Inside(c)}
WgInv == pendingWg = Cardinality(Waiters)

BaseInv == TypeOK /\ CallInv /\ ReaderInv /\ WgInv

\* The counter of a finite set of waiters follows a waiter that comes or goes.
LEMMA WaitersFinite == IsFiniteSet(Waiters) /\ Cardinality(Waiters) \in Nat
  BY Zenon, CallsFinite, FS_Subset, FS_CardinalityType DEF Waiters

\* A step that moves no call into or out of waitResponse leaves WgInv alone.
LEMMA WgSame ==
  ASSUME BaseInv, NEW c \in Calls, NEW from \in PCs, NEW to \in PCs,
         from \notin {"waiting", "abandoning"} <=> to \notin {"waiting", "abandoning"},
         Goto(c, from, to), pendingWg' = pendingWg
  PROVE  WgInv'
  <1>1. Waiters' = Waiters
    BY Zenon DEF Waiters, Inside, Goto, BaseInv, TypeOK
  <1> QED
    BY Zenon, <1>1 DEF WgInv, BaseInv

\* waitResponse counts its caller.
LEMMA WgUp ==
  ASSUME BaseInv, NEW c \in Calls, Goto(c, "sent", "waiting"),
         pendingWg' = pendingWg + 1
  PROVE  WgInv' /\ pendingWg' \in Nat
  <1>1. Waiters' = Waiters \cup {c} /\ c \notin Waiters
    BY Zenon DEF Waiters, Inside, Goto, BaseInv, TypeOK
  <1>2. Cardinality(Waiters \cup {c}) = Cardinality(Waiters) + 1
    BY Zenon, <1>1, WaitersFinite, FS_AddElement
  <1> QED
    BY <1>1, <1>2, WaitersFinite DEF WgInv, BaseInv

\* The deferred pendingWg.Done never takes the counter below zero.
LEMMA WgDown ==
  ASSUME BaseInv, NEW c \in Calls,
         NEW from \in {"waiting", "abandoning"}, NEW to \in {"returned", "done"},
         Goto(c, from, to), pendingWg' = pendingWg - 1
  PROVE  WgInv' /\ pendingWg' \in Nat
  <1>1. Waiters' = Waiters \ {c} /\ c \in Waiters
    BY Zenon DEF Waiters, Inside, Goto, BaseInv, TypeOK
  <1>2. /\ Cardinality(Waiters \ {c}) = Cardinality(Waiters) - 1
        /\ Cardinality(Waiters \ {c}) \in Nat
    BY Zenon, <1>1, WaitersFinite, FS_RemoveElement, FS_CardinalityType
  <1> QED
    BY Zenon, <1>1, <1>2 DEF WgInv, BaseInv

\* What is on the streams, whole or in part, was sent by calls.
WireTypes == wire \subseteq Calls /\ torn \in BOOLEAN /\ partial \subseteq Calls

LEMMA OutOfStepTypes ==
  ASSUME WireTypes, NEW ids \in SUBSET Calls, OutOfStep(ids)
  PROVE  WireTypes'
  BY Zenon DEF WireTypes, OutOfStep

LEMMA BaseInit == Init => BaseInv
  <1> SUFFICES ASSUME Init PROVE BaseInv
    OBVIOUS
  <1>1. TypeOK /\ CallInv /\ ReaderInv
    BY Zenon, NoneAssumption DEF Init, TypeOK, CallInv, ReaderInv, HoldsChan, PCs
  <1>2. Waiters = {}
    BY Zenon DEF Init, Waiters, Inside
  <1> QED
    BY Zenon, <1>1, <1>2, FS_EmptySet DEF BaseInv, WgInv, Init

\* Every step of a call, a read cycle or Close keeps the base invariant.
LEMMA BaseNext == BaseInv /\ [Next]_vars => BaseInv'
  <1> SUFFICES ASSUME BaseInv, [Next]_vars PROVE BaseInv'
    OBVIOUS
  <1> USE NoneAssumption
  <1>1. ASSUME NEW c \in Calls, NewRequest(c) PROVE BaseInv'
    <2>1. WgInv' /\ pendingWg' \in Nat
      BY Zenon, <1>1, WgSame DEF NewRequest, wireVars, closeVars, BaseInv, TypeOK, PCs
    <2>2. TypeOK'
      BY <1>1, <2>1 DEF NewRequest, Goto, chVars, respVars, readerVars,
         wireVars, closeVars, BaseInv, TypeOK, CallInv, HoldsChan, PCs
    <2>3. CallInv' /\ ReaderInv'
      BY <1>1 DEF NewRequest, Goto, chVars, respVars, readerVars, wireVars, closeVars,
         BaseInv, TypeOK, CallInv, ReaderInv, HoldsChan
    <2> QED
      BY Zenon, <2>1, <2>2, <2>3 DEF BaseInv
  <1>2. ASSUME NEW c \in Calls, DiscardRequest(c) PROVE BaseInv'
    <2>1. WgInv' /\ pendingWg' \in Nat
      BY Zenon, <1>2, WgSame DEF DiscardRequest, wireVars, closeVars, BaseInv, TypeOK, PCs
    <2>2. TypeOK'
      BY Zenon, <1>2, <2>1 DEF DiscardRequest, Goto, Forget, reqVars, chVars, respVars,
         readerVars, wireVars, closeVars, BaseInv, TypeOK, CallInv, HoldsChan, PCs
    <2>3. CallInv' /\ ReaderInv'
      BY Zenon, <1>2 DEF DiscardRequest, Goto, Forget, reqVars, chVars, respVars, readerVars,
         wireVars, closeVars, BaseInv, TypeOK, CallInv, ReaderInv, HoldsChan
    <2> QED
      BY Zenon, <2>1, <2>2, <2>3 DEF BaseInv
  <1>3. ASSUME NEW c \in Calls, SendEvent(c) PROVE BaseInv'
    <2>1. WgInv' /\ pendingWg' \in Nat
      BY Zenon, <1>3, WgSame DEF SendEvent, wireVars, closeVars, BaseInv, TypeOK, PCs
    <2>2. TypeOK'
      BY <1>3, <2>1 DEF SendEvent, Goto, Forget, PutRequest, chVars, respVars,
         readerVars, wireVars, closeVars, BaseInv, TypeOK, CallInv, HoldsChan, PCs
    <2>3. CallInv' /\ ReaderInv'
      BY ZenonT(40), <1>3 DEF SendEvent, Goto, Forget, PutRequest, chVars, respVars, readerVars,
         wireVars, closeVars, BaseInv, TypeOK, CallInv, ReaderInv, HoldsChan
    <2> QED
      BY Zenon, <2>1, <2>2, <2>3 DEF BaseInv
  <1>4. ASSUME NEW c \in Calls, Admit(c) PROVE BaseInv'
    <2>1. WgInv' /\ pendingWg' \in Nat
      BY Zenon, <1>4, WgSame DEF Admit, wireVars, closeVars, BaseInv, TypeOK, PCs
    <2>2. TypeOK'
      BY Zenon, <1>4, <2>1 DEF Admit, Goto, chVars, respVars, readerVars, wireVars, closeVars,
         BaseInv, TypeOK, CallInv, HoldsChan, PCs
    <2>3. CallInv' /\ ReaderInv'
      BY ZenonT(40), <1>4 DEF Admit, Goto, chVars, respVars, readerVars, wireVars, closeVars,
         BaseInv, TypeOK, CallInv, ReaderInv, HoldsChan
    <2> QED
      BY Zenon, <2>1, <2>2, <2>3 DEF BaseInv
  <1>5. ASSUME NEW c \in Calls, Register(c) PROVE BaseInv'
    <2>1. WgInv' /\ pendingWg' \in Nat
      BY Zenon, <1>5, WgSame DEF Register, wireVars, closeVars, BaseInv, TypeOK, PCs
    <2>2. TypeOK'
      BY <1>5, <2>1 DEF Register, Goto, reqVars, respVars, readerVars,
         wireVars, closeVars, BaseInv, TypeOK, CallInv, HoldsChan, PCs
    <2>3. CallInv' /\ ReaderInv'
      BY <1>5 DEF Register, Goto, reqVars, respVars, readerVars, wireVars, closeVars,
         BaseInv, TypeOK, CallInv, ReaderInv, HoldsChan
    <2> QED
      BY Zenon, <2>1, <2>2, <2>3 DEF BaseInv
  <1>6. ASSUME NEW c \in Calls, Encode(c) PROVE BaseInv'
    <2>1. WgInv' /\ pendingWg' \in Nat
      BY Zenon, <1>6, WgSame DEF Encode, wireVars, closeVars, BaseInv, TypeOK, PCs
    <2>2. TypeOK'
      BY <1>6, <2>1 DEF Encode, Goto, PutRequest, chVars, respVars,
         readerVars, wireVars, closeVars, BaseInv, TypeOK, CallInv, HoldsChan, PCs
    <2>3. CallInv' /\ ReaderInv'
      BY ZenonT(40), <1>6 DEF Encode, Goto, PutRequest, chVars, respVars, readerVars,
         wireVars, closeVars, BaseInv, TypeOK, CallInv, ReaderInv, HoldsChan
    <2> QED
      BY Zenon, <2>1, <2>2, <2>3 DEF BaseInv
  <1>7. ASSUME NEW c \in Calls, Write(c) PROVE BaseInv'
    <2>w. WireTypes'
      <3>1. WireTypes /\ {c} \in SUBSET Calls /\ {} \in SUBSET Calls
        BY Zenon DEF BaseInv, TypeOK, WireTypes
      <3> QED
        BY Zenon, <1>7, <3>1, OutOfStepTypes DEF Write, WireTypes, wireVars
    <2>1. WgInv' /\ pendingWg' \in Nat
      BY Zenon, <1>7, WgSame DEF Write, closeVars, BaseInv, TypeOK, PCs
    <2>2. TypeOK'
      BY <1>7, <2>w, <2>1 DEF Write, WireTypes, Goto, Forget, chVars, reqVars, respVars,
         readerVars, closeVars, BaseInv, TypeOK, CallInv, HoldsChan, PCs
    <2>3. CallInv' /\ ReaderInv'
      BY ZenonT(40), <1>7 DEF Write, Goto, Forget, chVars, reqVars, respVars,
         readerVars, closeVars, BaseInv, TypeOK, CallInv, ReaderInv, HoldsChan
    <2> QED
      BY Zenon, <2>1, <2>2, <2>3 DEF BaseInv
  <1>8. ASSUME NEW c \in Calls, SendFails(c) PROVE BaseInv'
    <2>w. WireTypes'
      <3>1. WireTypes /\ {c} \in SUBSET Calls /\ {} \in SUBSET Calls
        BY Zenon DEF BaseInv, TypeOK, WireTypes
      <3> QED
        BY Zenon, <1>8, <3>1, OutOfStepTypes DEF SendFails, WireTypes, wireVars
    <2>1. WgInv' /\ pendingWg' \in Nat
      BY Zenon, <1>8, WgSame DEF SendFails, closeVars, BaseInv, TypeOK, PCs
    <2>2. TypeOK'
      BY <1>8, <2>w, <2>1 DEF SendFails, WireTypes, Goto, Forget, Delete, PutChan, reqVars, respVars,
         readerVars, closeVars, BaseInv, TypeOK, CallInv, HoldsChan, PCs
    <2>3. CallInv' /\ ReaderInv'
      BY ZenonT(40), <1>8 DEF SendFails, Goto, Forget, Delete, PutChan, reqVars, respVars,
         readerVars, closeVars, BaseInv, TypeOK, CallInv, ReaderInv, HoldsChan
    <2> QED
      BY Zenon, <2>1, <2>2, <2>3 DEF BaseInv
  <1>9. ASSUME NEW c \in Calls, WaitResponse(c) PROVE BaseInv'
    <2>1. WgInv' /\ pendingWg' \in Nat
      BY Zenon, <1>9, WgUp DEF WaitResponse, BaseInv, TypeOK, PCs
    <2>2. TypeOK'
      BY Zenon, <1>9, <2>1 DEF WaitResponse, Goto, wireVars, reqVars, chVars, respVars,
         readerVars, BaseInv, TypeOK, CallInv, HoldsChan, PCs
    <2>3. CallInv' /\ ReaderInv'
      BY ZenonT(40), <1>9 DEF WaitResponse, Goto, wireVars, reqVars, chVars, respVars, readerVars,
         BaseInv, TypeOK, CallInv, ReaderInv, HoldsChan
    <2> QED
      BY Zenon, <2>1, <2>2, <2>3 DEF BaseInv
  <1>10. ASSUME NEW c \in Calls, GiveUp(c) PROVE BaseInv'
    <2>1. WgInv' /\ pendingWg' \in Nat
      BY Zenon, <1>10, WgSame DEF GiveUp, wireVars, closeVars, BaseInv, TypeOK, PCs
    <2>2. TypeOK'
      BY ZenonT(40), <1>10, <2>1 DEF GiveUp, Goto, PutChan, reqVars, respVars, readerVars,
         wireVars, closeVars, BaseInv, TypeOK, CallInv, HoldsChan, PCs
    <2>3. CallInv' /\ ReaderInv'
      BY ZenonT(40), <1>10 DEF GiveUp, Goto, PutChan, reqVars, respVars, readerVars,
         wireVars, closeVars, BaseInv, TypeOK, CallInv, ReaderInv, HoldsChan
    <2> QED
      BY Zenon, <2>1, <2>2, <2>3 DEF BaseInv
  <1>11. ASSUME NEW c \in Calls, Abandon(c) PROVE BaseInv'
    <2>1. WgInv' /\ pendingWg' \in Nat
      BY Zenon, <1>11, WgDown DEF Abandon, Done, BaseInv, TypeOK, PCs
    <2>2. TypeOK'
      BY Zenon, <1>11, <2>1 DEF Abandon, Goto, Done, wireVars, Delete, reqVars, chVars, respVars,
         readerVars, BaseInv, TypeOK, CallInv, HoldsChan, PCs
    <2>3. CallInv' /\ ReaderInv'
      BY ZenonT(40), <1>11 DEF Abandon, Goto, Done, wireVars, Delete, reqVars, chVars, respVars,
         readerVars, BaseInv, TypeOK, CallInv, ReaderInv, HoldsChan
    <2> QED
      BY Zenon, <2>1, <2>2, <2>3 DEF BaseInv
  <1>12. ASSUME NEW c \in Calls, Receive(c) PROVE BaseInv'
    <2>1. WgInv' /\ pendingWg' \in Nat
      BY Zenon, <1>12, WgDown DEF Receive, Done, BaseInv, TypeOK, PCs
    <2>2. TypeOK'
      BY <1>12, <2>1 DEF Receive, Goto, Done, wireVars, PutChan, reqVars, respVars,
         readerVars, BaseInv, TypeOK, CallInv, HoldsChan, PCs
    <2>3. CallInv' /\ ReaderInv'
      BY <1>12 DEF Receive, Goto, Done, wireVars, PutChan, reqVars, respVars, readerVars,
         BaseInv, TypeOK, CallInv, ReaderInv, HoldsChan
    <2> QED
      BY Zenon, <2>1, <2>2, <2>3 DEF BaseInv
  <1>13. ASSUME NEW c \in Calls, ReleaseResponse(c) PROVE BaseInv'
    <2>1. WgInv' /\ pendingWg' \in Nat
      BY Zenon, <1>13, WgSame DEF ReleaseResponse, wireVars, closeVars, BaseInv, TypeOK, PCs
    <2>2. TypeOK'
      BY <1>13, <2>1 DEF ReleaseResponse, Goto, PutResponse, reqVars, chVars,
         readerVars, wireVars, closeVars, BaseInv, TypeOK, CallInv, HoldsChan, PCs
    <2>3. CallInv' /\ ReaderInv'
      BY ZenonT(40), <1>13 DEF ReleaseResponse, Goto, PutResponse, reqVars, chVars,
         readerVars, wireVars, closeVars, BaseInv, TypeOK, CallInv, ReaderInv, HoldsChan
    <2> QED
      BY Zenon, <2>1, <2>2, <2>3 DEF BaseInv
  <1>14. ASSUME NEW c \in Calls, CtxExpires(c) PROVE BaseInv'
    <2>1. WgInv'
      BY Zenon, <1>14 DEF CtxExpires, callVars, reqVars, chVars, respVars,
         readerVars, wireVars, closeVars, BaseInv, WgInv, Waiters, Inside
    <2>2. TypeOK' /\ CallInv' /\ ReaderInv'
      BY Zenon, <1>14 DEF CtxExpires, callVars, reqVars, chVars, respVars,
         readerVars, wireVars, closeVars, BaseInv, TypeOK, CallInv, ReaderInv, HoldsChan
    <2> QED
      BY Zenon, <2>1, <2>2 DEF BaseInv
  <1>15. ASSUME NEW r \in Readers, NEW i \in Calls, ReadResponse(r, i) PROVE BaseInv'
    <2>1. WgInv'
      BY Zenon, <1>15 DEF ReadResponse, callVars, reqVars, chVars, respVars,
         readerVars, wireVars, closeVars, BaseInv, WgInv, Waiters, Inside
    <2>2. TypeOK' /\ CallInv' /\ ReaderInv'
      BY <1>15 DEF ReadResponse, callVars, reqVars, chVars, respVars,
         readerVars, wireVars, closeVars, BaseInv, TypeOK, CallInv, ReaderInv, HoldsChan
    <2> QED
      BY Zenon, <2>1, <2>2 DEF BaseInv
  <1>16. ASSUME NEW r \in Readers, Dispatch(r) PROVE BaseInv'
    <2>1. WgInv'
      BY Zenon, <1>16 DEF Dispatch, PutResponse, callVars, reqVars, chVars, respVars,
         readerVars, wireVars, closeVars, BaseInv, WgInv, Waiters, Inside
    <2>2. TypeOK' /\ CallInv' /\ ReaderInv'
      BY <1>16 DEF Dispatch, PutResponse, callVars, reqVars, chVars, respVars,
         readerVars, wireVars, closeVars, BaseInv, TypeOK, CallInv, ReaderInv, HoldsChan
    <2> QED
      BY Zenon, <2>1, <2>2 DEF BaseInv
  <1>17. CASE Close
    <2>1. WgInv'
      BY Zenon, <1>17 DEF Close, callVars, reqVars, chVars, respVars, readerVars,
         wireVars, closeVars, BaseInv, WgInv, Waiters, Inside
    <2>2. TypeOK' /\ CallInv' /\ ReaderInv'
      BY Zenon, <1>17 DEF Close, callVars, reqVars, chVars, respVars, readerVars,
         wireVars, closeVars, BaseInv, TypeOK, CallInv, ReaderInv, HoldsChan
    <2> QED
      BY Zenon, <2>1, <2>2 DEF BaseInv
  <1>18. CASE CloseStep
    <2>1. WgInv'
      BY Zenon, <1>18 DEF CloseStep, CloseWait, CloseWakes, CallsUnchanged, callVars, reqVars, chVars, respVars,
         readerVars, wireVars, closeVars, BaseInv, WgInv, Waiters, Inside
    <2>2. TypeOK' /\ CallInv' /\ ReaderInv'
      BY ZenonT(40), <1>18 DEF CloseStep, CloseWait, CloseWakes, CallsUnchanged, callVars, reqVars, chVars, respVars,
         readerVars, wireVars, closeVars, BaseInv, TypeOK, CallInv, ReaderInv, HoldsChan
    <2> QED
      BY Zenon, <2>1, <2>2 DEF BaseInv
  <1>20. ASSUME NEW c \in Calls, WriteEvent(c) PROVE BaseInv'
    <2>w. WireTypes'
      <3>1. WireTypes /\ {c} \in SUBSET Calls /\ {} \in SUBSET Calls
        BY Zenon DEF BaseInv, TypeOK, WireTypes
      <3> QED
        BY Zenon, <1>20, <3>1, OutOfStepTypes DEF WriteEvent, WireTypes, wireVars
    <2>1. WgInv' /\ pendingWg' \in Nat
      BY Zenon, <1>20, WgSame DEF WriteEvent, closeVars, BaseInv, TypeOK, PCs
    <2>2. TypeOK'
      BY Zenon, <1>20, <2>w, <2>1 DEF WriteEvent, WireTypes, Goto, chVars, reqVars, respVars,
         readerVars, closeVars, BaseInv, TypeOK, CallInv, HoldsChan, PCs
    <2>3. CallInv' /\ ReaderInv'
      BY ZenonT(40), <1>20 DEF WriteEvent, Goto, chVars, reqVars, respVars,
         readerVars, closeVars, BaseInv, TypeOK, CallInv, ReaderInv, HoldsChan
    <2> QED
      BY Zenon, <2>1, <2>2, <2>3 DEF BaseInv
  <1>21. ASSUME NEW c \in Calls, EventFails(c) PROVE BaseInv'
    <2>w. WireTypes'
      <3>1. WireTypes /\ {c} \in SUBSET Calls /\ {} \in SUBSET Calls
        BY Zenon DEF BaseInv, TypeOK, WireTypes
      <3> QED
        BY Zenon, <1>21, <3>1, OutOfStepTypes DEF EventFails, WireTypes, wireVars
    <2>1. WgInv' /\ pendingWg' \in Nat
      BY Zenon, <1>21, WgSame DEF EventFails, closeVars, BaseInv, TypeOK, PCs
    <2>2. TypeOK'
      BY Zenon, <1>21, <2>w, <2>1 DEF EventFails, WireTypes, Goto, chVars, reqVars, respVars,
         readerVars, closeVars, BaseInv, TypeOK, CallInv, HoldsChan, PCs
    <2>3. CallInv' /\ ReaderInv'
      BY ZenonT(40), <1>21 DEF EventFails, Goto, chVars, reqVars, respVars,
         readerVars, closeVars, BaseInv, TypeOK, CallInv, ReaderInv, HoldsChan
    <2> QED
      BY Zenon, <2>1, <2>2, <2>3 DEF BaseInv
  <1>19. CASE UNCHANGED vars
    <2>1. WgInv'
      BY Zenon, <1>19 DEF vars, callVars, reqVars, chVars, respVars, readerVars,
         wireVars, closeVars, BaseInv, WgInv, Waiters, Inside
    <2>2. TypeOK' /\ CallInv' /\ ReaderInv'
      BY Zenon, <1>19 DEF vars, callVars, reqVars, chVars, respVars, readerVars,
         wireVars, closeVars, BaseInv, TypeOK, CallInv, ReaderInv, HoldsChan
    <2> QED
      BY Zenon, <2>1, <2>2 DEF BaseInv
  <1> QED
    BY Zenon, <1>1, <1>2, <1>3, <1>4, <1>5, <1>6, <1>7, <1>8, <1>9, <1>10, <1>11,
       <1>12, <1>13, <1>14, <1>15, <1>16, <1>17, <1>18, <1>19, <1>20, <1>21 DEF Next,
       UserStep, CallStep, AllDone

\* The client's state always has its types.
THEOREM TypeCorrect == Spec => []TypeOK
  <1>1. BaseInv => TypeOK
    BY Zenon DEF BaseInv
  <1> QED
    BY BaseInit, BaseNext, <1>1, PTL DEF Spec

\* Who was in waitResponse when closeCh was closed is counted for as long as Close
\* waits.
CloseInv ==
    /\ atClose \subseteq Waiters
    /\ closeState \in {"woken", "closed", "panicked"} => atClose = {}
    /\ closeState = "panicked" => Waiters # {}

\* A waiter leaves: the last one to do so leaves nobody behind.
LEMMA CloseDone ==
  ASSUME BaseInv, CloseInv, NEW c \in Calls,
         NEW from \in {"waiting", "abandoning"}, NEW to \in {"returned", "done"},
         Goto(c, from, to), Done(c)
  PROVE  CloseInv'
  <1>1. Waiters' = Waiters \ {c} /\ c \in Waiters
    BY Zenon DEF Waiters, Inside, Goto, BaseInv, TypeOK
  <1>2. atClose' = atClose \ {c} /\ closeState' # "panicked"
    BY Zenon DEF Done, Goto, Running
  <1>3. atClose' \subseteq Waiters'
    BY Zenon, <1>1, <1>2 DEF CloseInv
  <1>4. CASE pendingWg = 1
    <2>1. Cardinality(Waiters \ {c}) = Cardinality(Waiters) - 1
      BY Zenon, <1>1, WaitersFinite, FS_RemoveElement
    <2>2. Cardinality(Waiters \ {c}) = 0 /\ IsFiniteSet(Waiters \ {c})
      BY <2>1, <1>4, WaitersFinite, FS_Subset DEF BaseInv, WgInv
    <2>3. Waiters \ {c} = {}
      BY Zenon, <2>2, FS_EmptySet
    <2> QED
      BY Zenon, <1>1, <1>2, <1>3, <2>3 DEF CloseInv
  <1>5. CASE pendingWg # 1
    <2>1. closeState' = closeState
      BY Zenon, <1>5 DEF Done
    <2> QED
      BY Zenon, <1>2, <1>3, <2>1 DEF CloseInv
  <1> QED
    BY Zenon, <1>4, <1>5

LEMMA CloseNext == BaseInv /\ CloseInv /\ [Next]_vars => CloseInv'
  <1> SUFFICES ASSUME BaseInv, CloseInv, [Next]_vars PROVE CloseInv'
    OBVIOUS
  <1>w. pendingWg = 0 <=> Waiters = {}
    BY Zenon, WaitersFinite, FS_EmptySet DEF BaseInv, WgInv
  <1>1. ASSUME NEW c \in Calls, Abandon(c) \/ Receive(c) PROVE CloseInv'
    BY Zenon, <1>1, CloseDone DEF Abandon, Receive
  <1>2. ASSUME closeState # "panicked", UNCHANGED <<closeState, atClose>>,
               \A c \in Calls : Inside(c) => Inside(c)'
        PROVE  CloseInv'
    BY Zenon, <1>2 DEF CloseInv, Waiters
  <1>3. ASSUME NEW c \in Calls, UserStep(c) \/ CallStep(c), ~Abandon(c), ~Receive(c)
        PROVE  CloseInv'
    <2>1. closeState # "panicked" /\ UNCHANGED <<closeState, atClose>>
      BY Zenon, <1>3 DEF UserStep, CallStep, NewRequest, DiscardRequest, SendEvent, Admit,
         CtxExpires, ReleaseResponse, WriteEvent, EventFails, Register, Encode, Write,
         SendFails, WaitResponse, GiveUp, Goto, Running, closeVars
    <2>2. \A d \in Calls : Inside(d) => Inside(d)'
      <3>1. CASE CtxExpires(c)
        BY Zenon, <3>1 DEF CtxExpires, callVars, Inside
      <3>2. CASE ~CtxExpires(c)
        <4>1. \A d \in Calls \ {c} : pc'[d] = pc[d]
          BY Zenon, <1>3, <3>2 DEF UserStep, CallStep, NewRequest, DiscardRequest, SendEvent,
             Admit, ReleaseResponse, WriteEvent, EventFails, Register, Encode, Write,
             SendFails, WaitResponse, GiveUp, Goto, BaseInv, TypeOK
        <4>2. CASE GiveUp(c)
          BY Zenon, <4>1, <4>2 DEF GiveUp, Goto, Inside, BaseInv, TypeOK
        <4>3. CASE ~GiveUp(c)
          <5>1. ~Inside(c)
            BY Zenon, <1>3, <3>2, <4>3 DEF UserStep, CallStep, NewRequest, DiscardRequest,
               SendEvent, Admit, ReleaseResponse, WriteEvent, EventFails, Register, Encode,
               Write, SendFails, WaitResponse, Goto, Inside
          <5> QED
            BY Zenon, <4>1, <5>1 DEF Inside
        <4> QED
          BY Zenon, <4>2, <4>3
      <3> QED
        BY Zenon, <3>1, <3>2
    <2> QED
      BY Zenon, <1>2, <2>1, <2>2
  <1>4. ASSUME NEW r \in Readers, Dispatch(r) \/ \E i \in Calls : ReadResponse(r, i)
        PROVE CloseInv'
    BY Zenon, <1>4 DEF Dispatch, ReadResponse, callVars, closeVars, CloseInv, Waiters, Inside
  <1>5. CASE Close
    BY Zenon, <1>5 DEF Close, callVars, CloseInv, Waiters, Inside
  <1>6. CASE CloseStep
    <2>1. Waiters' = Waiters /\ atClose' = atClose
      BY Zenon, <1>6 DEF CloseStep, CloseWait, CloseWakes, CallsUnchanged, callVars, Waiters, Inside
    <2>2. CASE CloseWait
      BY Zenon, <1>w, <2>1, <2>2 DEF CloseWait, CloseInv
    <2>3. CASE CloseWakes
      BY Zenon, <1>w, <2>1, <2>3 DEF CloseWakes, CloseInv
    <2> QED
      BY Zenon, <1>6, <2>2, <2>3 DEF CloseStep
  <1>7. CASE UNCHANGED vars
    BY Zenon, <1>7 DEF vars, callVars, closeVars, CloseInv, Waiters, Inside
  <1> QED
    BY Zenon, <1>1, <1>3, <1>4, <1>5, <1>6, <1>7 DEF Next, AllDone

\* Close waits for every call it found in waitResponse, and only a call that
\* enters later can make its WaitGroup panic.
THEOREM CloseWaits == Spec => []CloseWaitsForWaiters
  <1>1. Init => CloseInv
    BY Zenon DEF Init, CloseInv
  <1>2. CloseInv => CloseWaitsForWaiters
    BY Zenon DEF CloseInv, CloseWaitsForWaiters, Waiters
  <1> QED
    BY BaseInit, BaseNext, <1>1, <1>2, CloseNext, PTL DEF Spec

--------------------------------------------------------------------------------
(* Pool discipline: exclusive ownership of channels, Requests and Responses. *)

\* Only Register takes a channel and only SendFails, GiveUp and Receive put
\* one back, each the channel its own call holds.
LEMMA ChannelNext == BaseInv /\ ChannelExclusive /\ [Next]_vars => ChannelExclusive'
  <1> SUFFICES ASSUME BaseInv, ChannelExclusive, [Next]_vars PROVE ChannelExclusive'
    OBVIOUS
  <1> USE NoneAssumption DEF BaseInv, TypeOK, ChannelExclusive
  <1>1. ASSUME NEW c \in Calls, Register(c) PROVE ChannelExclusive'
    BY <1>1 DEF Register
  <1>2. ASSUME NEW c \in Calls, SendFails(c) \/ GiveUp(c) \/ Receive(c)
        PROVE ChannelExclusive'
    <2>1. PutChan(c) /\ pc[c] \in HoldsChan
      BY Zenon, <1>2 DEF SendFails, GiveUp, Receive, Goto, HoldsChan
    <2> QED
      BY <2>1 DEF PutChan, CallInv
  <1>3. ASSUME UNCHANGED <<chOf, chPool>> PROVE ChannelExclusive'
    BY Zenon, <1>3
  <1> QED
    BY Zenon, <1>1, <1>2, <1>3 DEF Next, UserStep, CallStep, NewRequest,
       DiscardRequest, SendEvent, WriteEvent, EventFails, Admit, Encode, Write,
       WaitResponse, CtxExpires, Abandon, ReleaseResponse, ReadResponse, Dispatch, Close,
       CloseStep, CloseWait, CloseWakes, CallsUnchanged, AllDone, vars, callVars, chVars

\* No channel is shared by two calls, or by a call and the pool.
THEOREM ChannelsExclusive == Spec => []ChannelExclusive
  <1>1. Init => ChannelExclusive
    BY ZenonT(40) DEF Init, ChannelExclusive
  <1> QED
    BY BaseInit, BaseNext, <1>1, ChannelNext, PTL DEF Spec

\* A Request leaves its pool in NewRequest and goes back in SendEvent or Encode,
\* after which its call no longer fills it in.
LEMMA RequestNext == BaseInv /\ RequestExclusive /\ [Next]_vars => RequestExclusive'
  <1> SUFFICES ASSUME BaseInv, RequestExclusive, [Next]_vars PROVE RequestExclusive'
    OBVIOUS
  <1> USE DEF BaseInv, TypeOK, RequestExclusive, Fills
  <1>1. ASSUME NEW c \in Calls, NewRequest(c) PROVE RequestExclusive'
    BY <1>1 DEF NewRequest, Goto
  <1>2. ASSUME NEW c \in Calls, SendEvent(c) \/ Encode(c) PROVE RequestExclusive'
    BY <1>2 DEF SendEvent, Encode, Goto, Forget, PutRequest
  <1>3. ASSUME NEW c \in Calls, DiscardRequest(c) \/ Admit(c) \/ Register(c)
        PROVE RequestExclusive'
    BY <1>3 DEF DiscardRequest, Admit, Register, Goto, Forget, reqVars
  <1>4. ASSUME NEW c \in Calls,
               WriteEvent(c) \/ EventFails(c) \/ Write(c) \/ SendFails(c) \/ WaitResponse(c)
                 \/ GiveUp(c) \/ Abandon(c) \/ Receive(c) \/ ReleaseResponse(c)
        PROVE RequestExclusive'
    <2>1. reqPool' = reqPool /\ \A d \in Calls \ {c} : reqOf'[d] = reqOf[d]
      BY Zenon, <1>4 DEF WriteEvent, EventFails, Write, SendFails, WaitResponse, GiveUp,
         Abandon, Receive, ReleaseResponse, Forget, reqVars
    <2>2. PICK to \in {"sent", "failed", "waiting", "abandoning", "returned", "done"} :
            pc' = [pc EXCEPT ![c] = to]
      BY Zenon, <1>4 DEF WriteEvent, EventFails, Write, SendFails, WaitResponse, GiveUp,
         Abandon, Receive, ReleaseResponse, Goto
    <2>3. \A d \in Calls : Fills(d)' => Fills(d) /\ d # c
      BY Zenon, <2>2
    <2> QED
      BY Zenon, <2>1, <2>3
  <1>5. ASSUME UNCHANGED <<pc, reqOf, reqPool>> PROVE RequestExclusive'
    BY Zenon, <1>5
  <1> QED
    BY Zenon, <1>1, <1>2, <1>3, <1>4, <1>5 DEF Next, UserStep, CallStep, CtxExpires,
       ReadResponse, Dispatch, Close, CloseStep, CloseWait, CloseWakes, CallsUnchanged,
       AllDone, vars, callVars, reqVars

\* No Request is filled in by two calls, or by a call while it is free.
THEOREM RequestsExclusive == Spec => []RequestExclusive
  <1>1. Init => RequestExclusive
    BY Zenon DEF Init, RequestExclusive, Fills
  <1> QED
    BY BaseInit, BaseNext, <1>1, RequestNext, PTL DEF Spec

\* A free Request has no id.
FreshInv == DrawsFreshId /\ \A o \in reqPool : reqId[o] = None

\* Only Admit writes an id, into a Request that no other call fills in, and the
\* Request is reset before it is free again.
LEMMA FreshNext ==
  BaseInv /\ RequestExclusive /\ FreshInv /\ [Next]_vars => FreshInv'
  <1> SUFFICES ASSUME BaseInv, RequestExclusive, FreshInv, [Next]_vars PROVE FreshInv'
    OBVIOUS
  <1> USE DEF BaseInv, TypeOK, FreshInv, DrawsFreshId
  <1>1. ASSUME NEW c \in Calls, NewRequest(c) PROVE FreshInv'
    BY <1>1 DEF NewRequest, Goto
  <1>2. ASSUME NEW c \in Calls, SendEvent(c) \/ Encode(c) PROVE FreshInv'
    BY <1>2 DEF SendEvent, Encode, Goto, Forget, PutRequest, CallInv
  <1>3. ASSUME NEW c \in Calls, Admit(c) PROVE FreshInv'
    BY <1>3 DEF Admit, Goto, RequestExclusive, Fills
  <1>4. ASSUME UNCHANGED reqVars,
               \A c \in Calls : pc'[c] = "built" => pc[c] = "built" /\ reqOf'[c] = reqOf[c]
        PROVE  FreshInv'
    BY ZenonT(40), <1>4 DEF reqVars
  <1>5. ASSUME NEW c \in Calls,
               DiscardRequest(c) \/ WriteEvent(c) \/ EventFails(c) \/ Register(c) \/ Write(c)
                 \/ SendFails(c) \/ WaitResponse(c) \/ GiveUp(c) \/ Abandon(c) \/ Receive(c)
                 \/ ReleaseResponse(c)
        PROVE  FreshInv'
    <2>1. UNCHANGED reqVars /\ \A d \in Calls \ {c} : reqOf'[d] = reqOf[d]
      BY Zenon, <1>5 DEF DiscardRequest, WriteEvent, EventFails, Register, Write, SendFails,
         WaitResponse, GiveUp, Abandon, Receive, ReleaseResponse, Forget
    <2>2. PICK to \in PCs \ {"built"} : pc' = [pc EXCEPT ![c] = to]
      BY Zenon, <1>5 DEF DiscardRequest, WriteEvent, EventFails, Register, Write, SendFails,
         WaitResponse, GiveUp, Abandon, Receive, ReleaseResponse, Goto, PCs
    <2> QED
      BY Zenon, <1>4, <2>1, <2>2
  <1>6. ASSUME UNCHANGED <<pc, reqOf, reqVars>> PROVE FreshInv'
    BY Zenon, <1>4, <1>6
  <1> QED
    BY Zenon, <1>1, <1>2, <1>3, <1>5, <1>6 DEF Next, UserStep, CallStep, CtxExpires,
       ReadResponse, Dispatch, Close, CloseStep, CloseWait, CloseWakes, CallsUnchanged,
       AllDone, vars, callVars

\* A call never takes over the id of an earlier one with its Request.
THEOREM IdsFresh == Spec => []DrawsFreshId
  <1>1. Init => RequestExclusive /\ FreshInv
    BY Zenon DEF Init, RequestExclusive, Fills, FreshInv, DrawsFreshId
  <1>2. FreshInv => DrawsFreshId
    BY Zenon DEF FreshInv
  <1> QED
    BY BaseInit, BaseNext, <1>1, RequestNext, FreshNext, <1>2, PTL DEF Spec

\* A Response moves from the pool to a read cycle, to a slot, to a caller and
\* back to the pool, or from the read cycle straight back.
LEMMA ResponseNext == BaseInv /\ ResponseExclusive /\ [Next]_vars => ResponseExclusive'
  <1> SUFFICES ASSUME BaseInv, ResponseExclusive, [Next]_vars PROVE ResponseExclusive'
    OBVIOUS
  <1> USE NoneAssumption DEF BaseInv, TypeOK, ResponseExclusive
  <1>1. ASSUME NEW c \in Calls, Receive(c) PROVE ResponseExclusive'
    BY <1>1 DEF Receive, CallInv, HoldsChan, respVars, readerVars
  <1>2. ASSUME NEW c \in Calls, ReleaseResponse(c) PROVE ResponseExclusive'
    BY <1>2 DEF ReleaseResponse, PutResponse, Goto, CallInv, chVars, readerVars
  <1>3. ASSUME NEW r \in Readers, NEW i \in Calls, ReadResponse(r, i)
        PROVE ResponseExclusive'
    BY <1>3 DEF ReadResponse, callVars, chVars, respVars, readerVars
  <1>4. ASSUME NEW r \in Readers, Dispatch(r) PROVE ResponseExclusive'
    BY <1>4 DEF Dispatch, PutResponse, ReaderInv, callVars, respVars
  <1>5. ASSUME UNCHANGED <<got, chBuf, readerResp, respPool>> PROVE ResponseExclusive'
    BY Zenon, <1>5
  <1> QED
    BY ZenonT(60), <1>1, <1>2, <1>3, <1>4, <1>5 DEF Next, UserStep, CallStep, NewRequest,
       DiscardRequest, SendEvent, WriteEvent, EventFails, Admit, Register, Encode, Write,
       SendFails, WaitResponse, CtxExpires, GiveUp, Abandon, Close, CloseStep, CloseWait,
       CloseWakes, CallsUnchanged, AllDone, vars, callVars, chVars, respVars, readerVars

\* No Response is at two places, so none is overwritten while a caller reads it.
THEOREM ResponsesExclusive == Spec => []ResponseExclusive
  <1>1. Init => ResponseExclusive
    BY Zenon DEF Init, ResponseExclusive
  <1> QED
    BY BaseInit, BaseNext, <1>1, ResponseNext, PTL DEF Spec

--------------------------------------------------------------------------------
(* Matching while nothing disturbs it: while no ctx has expired, the client  *)
(* is not closed and no write was cut, a channel is put back only by the     *)
(* call that was answered through it, or by one of whose request not a byte  *)
(* went out.  The invariant says where the response to each written request  *)
(* is, and that it is there only.                                            *)

Awaits == {"sent", "waiting"}

\* The response o is meant for channel ch, which its call holds.
MeantFor(o, ch) ==
    /\ respId[o] \in Calls
    /\ chOf[respId[o]] = ch
    /\ pc[respId[o]] \in Awaits

NoneAbandons == \A c \in Calls : pc[c] # "abandoning"
OwnEntry == \A c \in Calls : pc[c] \in HoldsChan => chansMap[c] \in {None, chOf[c]}
OnWire == \A i \in wire : pc[i] \in Awaits
InSlot ==
    \A ch \in Chans : chBuf[ch] # None =>
        MeantFor(chBuf[ch], ch) /\ respId[chBuf[ch]] \notin wire
InCycle ==
    \A r \in Readers : readerResp[r] # None =>
        /\ MeantFor(readerResp[r], readerCh[r])
        /\ respId[readerResp[r]] \notin wire
        /\ chBuf[readerCh[r]] = None
        /\ \A r2 \in Readers \ {r} : readerResp[r2] # None => readerCh[r2] # readerCh[r]

MatchInv ==
    /\ Undisturbed /\ NoneAbandons /\ OwnEntry /\ OnWire /\ InSlot /\ InCycle
    /\ ResponseMatchesRequest

LEMMA MatchInit == Init => MatchInv
  BY Zenon DEF Init, MatchInv, HoldsChan, Undisturbed, ResponseMatchesRequest, NoneAbandons, OwnEntry,
     OnWire, InSlot, InCycle

\* An expired ctx, a closed client and a cut stream stay so.
LEMMA UndisturbedBefore == [Next]_vars /\ Undisturbed' => Undisturbed
  <1> SUFFICES ASSUME [Next]_vars, ~Undisturbed PROVE ~Undisturbed'
    OBVIOUS
  <1>1. /\ closeState' = "open" => closeState = "open"
        /\ ctxDone' = {} => ctxDone = {}
    BY ZenonT(40) DEF Next, UserStep, CallStep, NewRequest, DiscardRequest, SendEvent,
       WriteEvent, EventFails, Admit, Register, Encode, Write, SendFails, WaitResponse,
       CtxExpires, GiveUp, Abandon, Receive, Done, ReleaseResponse, ReadResponse, Dispatch,
       Close, CloseStep, CloseWait, CloseWakes, CallsUnchanged, AllDone, vars, closeVars
  <1>2. torn => torn'
    BY ZenonT(40) DEF Next, UserStep, CallStep, NewRequest, DiscardRequest, SendEvent,
       WriteEvent, EventFails, Admit, Register, Encode, Write, SendFails, WaitResponse,
       CtxExpires, GiveUp, Abandon, Receive, OutOfStep, ReleaseResponse, ReadResponse,
       Dispatch, Close, CloseStep, CloseWait, CloseWakes, CallsUnchanged, AllDone, vars,
       wireVars
  <1> QED
    BY Zenon, <1>1, <1>2 DEF Undisturbed

\* The facts every step of the matching proof may use.
Owned == BaseInv /\ ChannelExclusive /\ ResponseExclusive

\* The types of what the matching is about.
LEMMA MatchTypes ==
  Owned => /\ pc \in [Calls -> PCs] /\ chOf \in [Calls -> Chans \cup {None}]
           /\ outcome \in [Calls -> Calls \cup {None}] /\ chansMap \in [Calls -> Chans \cup {None}]
           /\ chBuf \in [Chans -> RespObjs \cup {None}] /\ respId \in [RespObjs -> Calls \cup {None}]
           /\ readerResp \in [Readers -> RespObjs \cup {None}]
           /\ readerCh \in [Readers -> Chans \cup {None}]
           /\ wire \subseteq Calls
  BY Zenon DEF Owned, BaseInv, TypeOK

\* A step that moves no response, and no call out of waitResponse, leaves each
\* response where it belongs.  A request it writes has no response yet.
LEMMA MeantStays ==
  ASSUME InSlot, InCycle,
         UNCHANGED <<chBuf, readerResp, readerCh>>,
         \A ch \in Chans : chBuf[ch] # None => respId'[chBuf[ch]] = respId[chBuf[ch]],
         \A r \in Readers : readerResp[r] # None => respId'[readerResp[r]] = respId[readerResp[r]],
         \A d \in Calls : pc[d] \in Awaits => pc'[d] \in Awaits /\ chOf'[d] = chOf[d],
         \A i \in wire' : i \in wire \/ pc[i] \notin Awaits
  PROVE  InSlot' /\ InCycle'
  <1>1. ASSUME NEW o, NEW ch, MeantFor(o, ch), respId[o] \notin wire, respId'[o] = respId[o]
        PROVE  MeantFor(o, ch)' /\ respId'[o] \notin wire'
    BY Zenon, <1>1 DEF MeantFor
  <1>2. InSlot'
    <2> SUFFICES ASSUME NEW ch \in Chans, chBuf'[ch] # None
                 PROVE  MeantFor(chBuf[ch], ch)' /\ respId'[chBuf'[ch]] \notin wire'
      BY Zenon DEF InSlot
    <2>1. MeantFor(chBuf[ch], ch) /\ respId[chBuf[ch]] \notin wire
      BY Zenon DEF InSlot
    <2> QED
      BY <1>1, <2>1 DEF MeantFor
  <1>3. InCycle'
    <2> SUFFICES ASSUME NEW r \in Readers, readerResp'[r] # None
                 PROVE  /\ MeantFor(readerResp[r], readerCh[r])'
                        /\ respId'[readerResp'[r]] \notin wire'
                        /\ chBuf'[readerCh'[r]] = None
                        /\ \A r2 \in Readers \ {r} : readerResp'[r2] # None => readerCh'[r2] # readerCh'[r]
      BY Zenon DEF InCycle
    <2>1. /\ MeantFor(readerResp[r], readerCh[r]) /\ respId[readerResp[r]] \notin wire
          /\ chBuf[readerCh[r]] = None
          /\ \A r2 \in Readers \ {r} : readerResp[r2] # None => readerCh[r2] # readerCh[r]
      BY Zenon DEF InCycle
    <2>2. MeantFor(readerResp[r], readerCh[r])' /\ respId'[readerResp'[r]] \notin wire'
      <3>1. MeantFor(readerResp[r], readerCh[r]) /\ respId[readerResp[r]] \notin wire
        BY Zenon, <2>1
      <3>2. respId'[readerResp[r]] = respId[readerResp[r]]
        BY Zenon
      <3> QED
        BY ZenonT(40), <3>1, <3>2 DEF MeantFor
    <2> QED
      BY Zenon, <2>1, <2>2
  <1> QED
    BY Zenon, <1>2, <1>3

\* So does one that only moves calls, none of them out of waitResponse.
LEMMA PcMoves ==
  ASSUME MatchInv, Undisturbed',
         UNCHANGED <<chOf, outcome, chBuf, respId, chansMap, readerResp, readerCh>>,
         \A d \in Calls : /\ pc'[d] # "abandoning"
                          /\ pc'[d] \in HoldsChan => pc[d] \in HoldsChan
                          /\ pc[d] \in Awaits => pc'[d] \in Awaits,
         \A i \in wire' : i \in Calls /\ (i \in wire \/ (pc[i] \notin Awaits /\ pc'[i] \in Awaits))
  PROVE  MatchInv'
  <1>1. InSlot' /\ InCycle'
    BY Zenon, MeantStays DEF MatchInv
  <1>2. NoneAbandons' /\ ResponseMatchesRequest' /\ OnWire'
    BY Zenon DEF MatchInv, NoneAbandons, ResponseMatchesRequest, OnWire
  <1>3. OwnEntry'
    BY Zenon DEF MatchInv, OwnEntry
  <1> QED
    BY Zenon, <1>1, <1>2, <1>3 DEF MatchInv

LEMMA MatchNext == Owned /\ MatchInv /\ [Next]_vars /\ Undisturbed' => MatchInv'
  <1> SUFFICES ASSUME Owned, MatchInv, [Next]_vars, Undisturbed' PROVE MatchInv'
    BY Zenon
  <1>t. /\ pc \in [Calls -> PCs] /\ chOf \in [Calls -> Chans \cup {None}]
        /\ outcome \in [Calls -> Calls \cup {None}] /\ chansMap \in [Calls -> Chans \cup {None}]
        /\ chBuf \in [Chans -> RespObjs \cup {None}] /\ respId \in [RespObjs -> Calls \cup {None}]
        /\ readerResp \in [Readers -> RespObjs \cup {None}]
        /\ readerCh \in [Readers -> Chans \cup {None}]
        /\ wire \subseteq Calls
    BY Zenon, MatchTypes
  <1>i. Undisturbed /\ NoneAbandons /\ OwnEntry /\ OnWire /\ InSlot /\ InCycle /\ ResponseMatchesRequest
    BY Zenon DEF MatchInv
  <1>m. ASSUME NEW c \in Calls, NEW to \in PCs \ {"abandoning"}, pc' = [pc EXCEPT ![c] = to],
               to \in HoldsChan => pc[c] \in HoldsChan, pc[c] \in Awaits => to \in Awaits
        PROVE  \A d \in Calls : /\ pc'[d] # "abandoning"
                                /\ pc'[d] \in HoldsChan => pc[d] \in HoldsChan
                                /\ pc[d] \in Awaits => pc'[d] \in Awaits
    BY Zenon, <1>m, <1>t, <1>i DEF NoneAbandons
  <1>1. ASSUME NEW c \in Calls,
               NewRequest(c) \/ DiscardRequest(c) \/ SendEvent(c) \/ WriteEvent(c)
                 \/ EventFails(c) \/ Admit(c)
        PROVE MatchInv'
    <2>1. UNCHANGED <<chOf, outcome, chBuf, respId, chansMap, readerResp, readerCh, wire>>
      BY Zenon, <1>i, <1>1 DEF NewRequest, DiscardRequest, SendEvent, WriteEvent, EventFails,
         Admit, OutOfStep, Undisturbed, chVars, respVars, readerVars, wireVars
    <2>2. pc[c] \in {"idle", "built", "event"}
      BY Zenon, <1>1 DEF NewRequest, DiscardRequest, SendEvent, WriteEvent, EventFails, Admit, Goto
    <2>3. PICK to \in {"built", "event", "done", "failed", "admitted"} : pc' = [pc EXCEPT ![c] = to]
      BY Zenon, <1>1 DEF NewRequest, DiscardRequest, SendEvent, WriteEvent, EventFails, Admit, Goto
    <2>4. /\ to \in PCs \ {"abandoning"}
          /\ to \in HoldsChan => pc[c] \in HoldsChan
          /\ pc[c] \in Awaits => to \in Awaits
      BY Zenon, <2>2 DEF PCs, HoldsChan, Awaits
    <2>5. \A d \in Calls : /\ pc'[d] # "abandoning"
                           /\ pc'[d] \in HoldsChan => pc[d] \in HoldsChan
                           /\ pc[d] \in Awaits => pc'[d] \in Awaits
      BY Zenon, <2>3, <2>4, <1>m
    <2>6. \A i \in wire' : i \in Calls /\ i \in wire
      BY Zenon, <2>1, <1>t
    <2> QED
      BY Zenon, <2>1, <2>5, <2>6, PcMoves
  <1>2. ASSUME NEW c \in Calls, Register(c) PROVE MatchInv'
    <2>1. PICK ch \in chPool : /\ chOf' = [chOf EXCEPT ![c] = ch]
                             /\ chansMap' = [chansMap EXCEPT ![c] = ch]
      BY Zenon, <1>2 DEF Register
    <2>2. /\ pc[c] = "admitted" /\ pc' = [pc EXCEPT ![c] = "stored"]
          /\ UNCHANGED <<outcome, chBuf, respId, readerResp, readerCh, wire>>
      BY Zenon, <1>2 DEF Register, Goto, respVars, readerVars, wireVars
    <2>3. \A d \in Calls \ {c} : pc'[d] = pc[d] /\ chOf'[d] = chOf[d] /\ chansMap'[d] = chansMap[d]
      BY Zenon, <2>1, <2>2, <1>t
    <2>4. pc'[c] = "stored" /\ chOf'[c] = ch /\ chansMap'[c] = ch
      BY Zenon, <2>1, <2>2, <1>t
    <2>5. \A d \in Calls : pc[d] \in Awaits => pc'[d] \in Awaits /\ chOf'[d] = chOf[d]
      BY Zenon, <2>2, <2>3 DEF Awaits
    <2>6. InSlot' /\ InCycle'
      BY Zenon, <1>i, <2>2, <2>5, MeantStays
    <2>7. NoneAbandons' /\ OwnEntry'
      BY Zenon, <1>i, <2>3, <2>4 DEF NoneAbandons, OwnEntry
    <2>8. OnWire' /\ ResponseMatchesRequest'
      BY Zenon, <1>i, <1>t, <2>2, <2>5 DEF OnWire, ResponseMatchesRequest
    <2> QED
      BY Zenon, <2>6, <2>7, <2>8 DEF MatchInv
  <1>3. ASSUME NEW c \in Calls, Encode(c) \/ Write(c) \/ WaitResponse(c)
        PROVE MatchInv'
    <2>1. UNCHANGED <<chOf, outcome, chBuf, respId, chansMap, readerResp, readerCh>>
      BY Zenon, <1>3 DEF Encode, Write, WaitResponse, chVars, respVars, readerVars
    <2>2. PICK to \in {"encoded", "sent", "waiting"} :
            /\ pc' = [pc EXCEPT ![c] = to]
            /\ pc[c] \in {"stored", "encoded", "sent"}
            /\ pc[c] \in Awaits => to \in Awaits
            /\ wire' = wire \/ (wire' = wire \cup {c} /\ pc[c] \notin Awaits /\ to \in Awaits)
      BY Zenon, <1>i, <1>3 DEF Encode, Write, WaitResponse, Goto, Awaits, Undisturbed, wireVars
    <2>3. to \in PCs \ {"abandoning"} /\ pc[c] \in HoldsChan
      BY Zenon, <2>2 DEF PCs, HoldsChan
    <2>4. \A d \in Calls : /\ pc'[d] # "abandoning"
                           /\ pc'[d] \in HoldsChan => pc[d] \in HoldsChan
                           /\ pc[d] \in Awaits => pc'[d] \in Awaits
      BY Zenon, <2>2, <2>3, <1>m
    <2>5. \A i \in wire' : i \in Calls /\ (i \in wire \/ (pc[i] \notin Awaits /\ pc'[i] \in Awaits))
      BY SMT, <2>2, <1>t
    <2> QED
      BY Zenon, <2>1, <2>4, <2>5, PcMoves
  <1>4. ASSUME NEW c \in Calls, SendFails(c) PROVE MatchInv'
    <2>1. /\ pc[c] = "encoded" /\ pc' = [pc EXCEPT ![c] = "failed"]
          /\ chOf' = [chOf EXCEPT ![c] = None]
          /\ UNCHANGED <<outcome, chBuf, respId, readerResp, readerCh, wire>>
      BY Zenon, <1>4 DEF SendFails, Goto, PutChan, OutOfStep, Undisturbed, respVars, readerVars,
         wireVars
    <2>2. \A d \in Calls : chansMap'[d] \in {None, chansMap[d]}
      BY Zenon, <1>4, <1>t DEF SendFails, Delete
    <2>3. \A d \in Calls \ {c} : pc'[d] = pc[d] /\ chOf'[d] = chOf[d]
      BY Zenon, <2>1, <1>t
    <2>4. pc'[c] = "failed"
      BY Zenon, <2>1, <1>t
    <2>5. \A d \in Calls : pc[d] \in Awaits => pc'[d] \in Awaits /\ chOf'[d] = chOf[d]
      BY Zenon, <2>1, <2>3 DEF Awaits
    <2>6. InSlot' /\ InCycle'
      BY Zenon, <1>i, <2>1, <2>5, MeantStays
    <2>7. NoneAbandons' /\ OwnEntry'
      BY Zenon, <1>i, <2>2, <2>3, <2>4 DEF NoneAbandons, OwnEntry, HoldsChan
    <2>8. OnWire' /\ ResponseMatchesRequest'
      BY Zenon, <1>i, <1>t, <2>1, <2>5 DEF OnWire, ResponseMatchesRequest
    <2> QED
      BY Zenon, <2>6, <2>7, <2>8 DEF MatchInv
  <1>5. ASSUME NEW c \in Calls, Receive(c) PROVE MatchInv'
    <2>1. /\ pc[c] = "waiting" /\ pc' = [pc EXCEPT ![c] = "returned"]
          /\ chBuf[chOf[c]] # None
          /\ outcome' = [outcome EXCEPT ![c] = respId[chBuf[chOf[c]]]]
          /\ chBuf' = [chBuf EXCEPT ![chOf[c]] = None]
          /\ chOf' = [chOf EXCEPT ![c] = None]
          /\ UNCHANGED <<respId, chansMap, readerResp, readerCh, wire>>
      BY Zenon, <1>5 DEF Receive, Goto, PutChan, respVars, readerVars, wireVars
    <2>2. chOf[c] \in Chans /\ \A d \in Calls \ {c} : chOf[d] # chOf[c]
      <3>1. chOf[c] # None
        BY Zenon, <2>1 DEF Owned, BaseInv, CallInv, HoldsChan
      <3> QED
        BY Zenon, <3>1, <1>t DEF Owned, ChannelExclusive
    <2>3. respId[chBuf[chOf[c]]] = c /\ c \notin wire
      BY Zenon, <1>i, <2>1, <2>2 DEF InSlot, MeantFor
    <2>4. ASSUME NEW r \in Readers, readerResp[r] # None PROVE respId[readerResp[r]] # c
      <3>1. /\ chOf[respId[readerResp[r]]] = readerCh[r]
            /\ chBuf[readerCh[r]] = None
        BY Zenon, <1>i, <2>4 DEF InCycle, MeantFor
      <3> QED
        BY Zenon, <2>1, <3>1
    <2>5. \A ch \in Chans : chBuf'[ch] # None => chBuf'[ch] = chBuf[ch] /\ respId[chBuf[ch]] # c
      BY Zenon, <1>i, <1>t, <2>1, <2>2 DEF InSlot, MeantFor
    <2>6. \A d \in Calls \ {c} : pc'[d] = pc[d] /\ chOf'[d] = chOf[d] /\ outcome'[d] = outcome[d]
      BY Zenon, <2>1, <1>t
    <2>7. pc'[c] = "returned" /\ outcome'[c] = c
      BY Zenon, <2>1, <2>3, <1>t
    <2>9. InSlot'
      <3> SUFFICES ASSUME NEW ch \in Chans, chBuf'[ch] # None
                   PROVE  MeantFor(chBuf[ch], ch)' /\ respId'[chBuf'[ch]] \notin wire'
        BY Zenon DEF InSlot
      <3>1. chBuf'[ch] = chBuf[ch] /\ respId[chBuf[ch]] # c
        BY Zenon, <2>5
      <3>2. MeantFor(chBuf[ch], ch) /\ respId[chBuf[ch]] \notin wire
        BY Zenon, <1>i, <3>1 DEF InSlot
      <3>3. respId' = respId /\ wire' = wire
        BY Zenon, <2>1
      <3> QED
        BY ZenonT(40), <2>6, <3>1, <3>2, <3>3 DEF MeantFor
    <2>10. \A ch : ch \in Chans /\ chBuf[ch] = None => chBuf'[ch] = None
      BY Zenon, <1>t, <2>1
    <2>11. InCycle'
      <3> SUFFICES ASSUME NEW r \in Readers, readerResp[r] # None
                   PROVE  /\ MeantFor(readerResp[r], readerCh[r])'
                          /\ respId[readerResp[r]] \notin wire
                          /\ chBuf'[readerCh[r]] = None
                          /\ \A r2 \in Readers \ {r} : readerResp[r2] # None => readerCh[r2] # readerCh[r]
        BY Zenon, <2>1 DEF InCycle, MeantFor
      <3>1. readerCh[r] \in Chans
        BY Zenon DEF Owned, BaseInv, ReaderInv
      <3>2. MeantFor(readerResp[r], readerCh[r])'
        <4>1. MeantFor(readerResp[r], readerCh[r]) /\ respId[readerResp[r]] # c
          BY Zenon, <1>i, <2>4 DEF InCycle
        <4>2. UNCHANGED <<respId, readerResp, readerCh>>
          BY Zenon, <2>1
        <4> QED
          BY Zenon, <2>6, <4>1, <4>2 DEF MeantFor
      <3> QED
        BY Zenon, <1>i, <2>10, <3>1, <3>2 DEF InCycle
    <2>12. NoneAbandons' /\ OwnEntry' /\ OnWire'
      BY Zenon, <1>i, <1>t, <2>1, <2>3, <2>6, <2>7 DEF NoneAbandons, OwnEntry, OnWire, HoldsChan
    <2>13. ResponseMatchesRequest'
      BY Zenon, <1>i, <2>6, <2>7 DEF ResponseMatchesRequest
    <2> QED
      BY Zenon, <2>9, <2>11, <2>12, <2>13 DEF MatchInv
  <1>6. ASSUME NEW c \in Calls, ReleaseResponse(c) PROVE MatchInv'
    <2>1. /\ pc[c] = "returned" /\ pc' = [pc EXCEPT ![c] = "done"]
          /\ respId' = [respId EXCEPT ![got[c]] = None]
          /\ UNCHANGED <<chOf, outcome, chBuf, chansMap, readerResp, readerCh, wire>>
      BY Zenon, <1>6 DEF ReleaseResponse, PutResponse, Goto, chVars, readerVars, wireVars
    <2>2. got[c] # None
      BY Zenon, <2>1 DEF Owned, BaseInv, CallInv
    <2>3. /\ \A ch \in Chans : chBuf[ch] # None => respId'[chBuf[ch]] = respId[chBuf[ch]]
          /\ \A r \in Readers : readerResp[r] # None => respId'[readerResp[r]] = respId[readerResp[r]]
      BY Zenon, <1>t, <2>1, <2>2 DEF Owned, ResponseExclusive
    <2>4. \A d \in Calls : pc'[d] = pc[d] \/ (pc'[d] = "done" /\ pc[d] = "returned")
      BY Zenon, <2>1, <1>t
    <2>5. \A d \in Calls : pc[d] \in Awaits => pc'[d] \in Awaits /\ chOf'[d] = chOf[d]
      BY Zenon, <2>1, <2>4 DEF Awaits
    <2>6. InSlot' /\ InCycle'
      BY Zenon, <1>i, <2>1, <2>3, <2>5, MeantStays
    <2>7. NoneAbandons' /\ OwnEntry'
      BY Zenon, <1>i, <2>1, <2>4 DEF NoneAbandons, OwnEntry, HoldsChan
    <2>8. OnWire' /\ ResponseMatchesRequest'
      BY Zenon, <1>i, <1>t, <2>1, <2>5 DEF OnWire, ResponseMatchesRequest
    <2> QED
      BY Zenon, <2>6, <2>7, <2>8 DEF MatchInv
  <1>7. ASSUME NEW r \in Readers, NEW i \in Calls, ReadResponse(r, i)
        PROVE MatchInv'
    <2>1. /\ i \in wire /\ wire' = wire \ {i}
          /\ UNCHANGED <<pc, chOf, outcome, chBuf>>
      BY Zenon, <1>7 DEF ReadResponse, callVars, chVars
    <2>2. NoneAbandons' /\ OnWire' /\ ResponseMatchesRequest'
      BY Zenon, <1>i, <2>1 DEF NoneAbandons, OnWire, ResponseMatchesRequest
    <2>3. CASE chansMap[i] = None
      <3>1. UNCHANGED <<respId, chansMap, readerResp, readerCh>>
        BY Zenon, <1>7, <2>3 DEF ReadResponse, respVars, readerVars
      <3>2. InSlot' /\ InCycle'
        BY Zenon, <1>i, <2>1, <3>1, MeantStays
      <3>3. OwnEntry'
        BY Zenon, <1>i, <2>1, <3>1 DEF OwnEntry
      <3> QED
        BY Zenon, <2>2, <3>2, <3>3 DEF MatchInv
    <2>4. CASE chansMap[i] # None
      <3>1. pc[i] \in Awaits
        BY Zenon, <1>i, <2>1 DEF OnWire
      <3>2. chansMap[i] = chOf[i] /\ chOf[i] \in Chans
        BY Zenon, <1>i, <1>t, <2>4, <3>1 DEF OwnEntry, HoldsChan, Awaits
      <3>3. \A d \in Calls \ {i} : chOf[d] # chOf[i]
        BY Zenon, <2>4, <3>2 DEF Owned, ChannelExclusive
      <3>4. chBuf[chOf[i]] = None
        BY Zenon, <1>i, <2>1, <3>2, <3>3 DEF InSlot, MeantFor
      <3>5. ASSUME NEW r2 \in Readers, readerResp[r2] # None PROVE readerCh[r2] # chOf[i]
        <4>1. /\ respId[readerResp[r2]] \in Calls /\ respId[readerResp[r2]] # i
              /\ chOf[respId[readerResp[r2]]] = readerCh[r2]
          BY Zenon, <1>i, <2>1, <3>5 DEF InCycle, MeantFor
        <4> QED
          BY Zenon, <3>3, <4>1
      <3>6. PICK o \in respPool :
              /\ respId' = [respId EXCEPT ![o] = i]
              /\ readerResp' = [readerResp EXCEPT ![r] = o]
              /\ readerCh' = [readerCh EXCEPT ![r] = chansMap[i]]
              /\ chansMap' = [chansMap EXCEPT ![i] = None]
        BY Zenon, <1>7, <2>4 DEF ReadResponse
      <3>7. o \in RespObjs
        BY Zenon DEF Owned, BaseInv, TypeOK
      <3>8. respId'[o] = i /\ readerResp'[r] = o /\ readerCh'[r] = chOf[i]
        BY Zenon, <1>t, <3>2, <3>6, <3>7
      <3>9. \A r2 \in Readers \ {r} :
              readerResp'[r2] = readerResp[r2] /\ readerCh'[r2] = readerCh[r2]
        BY Zenon, <1>t, <3>6
      <3>10. \A x \in RespObjs \ {o} : respId'[x] = respId[x]
        BY Zenon, <1>t, <3>6
      <3>11. /\ \A ch \in Chans : chBuf[ch] # None => respId'[chBuf[ch]] = respId[chBuf[ch]]
             /\ \A r2 \in Readers : readerResp[r2] # None =>
                  respId'[readerResp[r2]] = respId[readerResp[r2]]
        <4>1. /\ \A ch \in Chans : chBuf[ch] # None => chBuf[ch] # o
              /\ \A r2 \in Readers : readerResp[r2] # None => readerResp[r2] # o
          BY Zenon DEF Owned, ResponseExclusive
        <4> QED
          BY Zenon, <1>t, <3>10, <4>1
      <3>12. OwnEntry'
        BY Zenon, <1>i, <1>t, <2>1, <3>6 DEF OwnEntry
      <3>13. InSlot'
        BY Zenon, <1>i, <2>1, <3>11 DEF InSlot, MeantFor
      <3>14. ASSUME NEW r2 \in Readers, readerResp'[r2] # None
             PROVE  /\ MeantFor(readerResp[r2], readerCh[r2])'
                    /\ respId'[readerResp'[r2]] \notin wire'
                    /\ chBuf'[readerCh'[r2]] = None
                    /\ \A r3 \in Readers \ {r2} : readerResp'[r3] # None =>
                         readerCh'[r3] # readerCh'[r2]
        <4>1. CASE r2 = r
          <5>1. respId'[readerResp'[r2]] = i /\ readerCh'[r2] = chOf[i]
            BY Zenon, <3>8, <4>1
          <5>2. \A r3 \in Readers \ {r2} : readerResp'[r3] # None => readerCh'[r3] # chOf[i]
            BY Zenon, <3>5, <3>9, <4>1
          <5> QED
            BY Zenon, <2>1, <3>1, <3>4, <5>1, <5>2 DEF MeantFor
        <4>2. CASE r2 # r
          <5>1. /\ readerResp'[r2] = readerResp[r2] /\ readerCh'[r2] = readerCh[r2]
                /\ readerResp[r2] # None
            BY Zenon, <3>9, <3>14, <4>2
          <5>2. MeantFor(readerResp[r2], readerCh[r2])' /\ respId'[readerResp'[r2]] \notin wire'
            <6>1. MeantFor(readerResp[r2], readerCh[r2]) /\ respId[readerResp[r2]] \notin wire
              BY Zenon, <1>i, <5>1 DEF InCycle
            <6> QED
              BY Zenon, <2>1, <3>11, <5>1, <6>1 DEF MeantFor
          <5>3. ASSUME NEW r3 \in Readers \ {r2}, readerResp'[r3] # None
                PROVE  readerCh'[r3] # readerCh[r2]
            <6>1. CASE r3 = r
              BY Zenon, <3>5, <3>8, <5>1, <6>1
            <6>2. CASE r3 # r
              <7>1. readerResp[r3] # None /\ readerCh'[r3] = readerCh[r3]
                BY Zenon, <3>9, <5>3, <6>2
              <7> QED
                BY Zenon, <1>i, <5>1, <7>1 DEF InCycle
            <6> QED
              BY Zenon, <6>1, <6>2
          <5> QED
            BY Zenon, <1>i, <2>1, <5>1, <5>2, <5>3 DEF InCycle
        <4> QED
          BY Zenon, <4>1, <4>2
      <3>15. InCycle'
        BY Zenon, <3>14 DEF InCycle, MeantFor
      <3> QED
        BY Zenon, <2>2, <3>12, <3>13, <3>15 DEF MatchInv
    <2> QED
      BY Zenon, <2>3, <2>4
  <1>8. ASSUME NEW r \in Readers, Dispatch(r) PROVE MatchInv'
    <2> DEFINE ch0 == readerCh[r]
    <2>1. /\ ch0 \in Chans /\ chBuf[ch0] = None
          /\ MeantFor(readerResp[r], ch0) /\ respId[readerResp[r]] \notin wire
      BY Zenon, <1>8, <1>i DEF Dispatch, InCycle, Owned, BaseInv, ReaderInv
    <2>2. /\ chBuf' = [chBuf EXCEPT ![ch0] = readerResp[r]]
          /\ readerResp' = [readerResp EXCEPT ![r] = None]
          /\ readerCh' = [readerCh EXCEPT ![r] = None]
          /\ UNCHANGED <<pc, chOf, outcome, respId, chansMap, wire>>
      BY Zenon, <1>8, <2>1 DEF Dispatch, callVars, respVars, wireVars
    <2>3. NoneAbandons' /\ OwnEntry' /\ OnWire' /\ ResponseMatchesRequest'
      BY Zenon, <1>i, <2>2 DEF NoneAbandons, OwnEntry, OnWire, ResponseMatchesRequest
    <2>4. chBuf'[ch0] = readerResp[r] /\ \A ch \in Chans \ {ch0} : chBuf'[ch] = chBuf[ch]
      BY Zenon, <1>t, <2>1, <2>2
    <2>5. InSlot'
      <3> SUFFICES ASSUME NEW ch \in Chans, chBuf'[ch] # None
                   PROVE  MeantFor(chBuf[ch], ch)' /\ respId'[chBuf'[ch]] \notin wire'
        BY Zenon DEF InSlot
      <3>1. MeantFor(chBuf'[ch], ch) /\ respId[chBuf'[ch]] \notin wire
        <4>1. CASE ch = ch0
          BY Zenon, <2>1, <2>4, <4>1
        <4>2. CASE ch # ch0
          BY Zenon, <1>i, <2>4, <4>2 DEF InSlot
        <4> QED
          BY Zenon, <4>1, <4>2
      <3> QED
        BY Zenon, <2>2, <3>1 DEF MeantFor
    <2>6. /\ readerResp'[r] = None
          /\ \A r2 \in Readers \ {r} : readerResp'[r2] = readerResp[r2] /\ readerCh'[r2] = readerCh[r2]
      BY Zenon, <1>t, <2>2
    <2>7. ASSUME NEW r2 \in Readers, readerResp'[r2] # None
          PROVE  /\ MeantFor(readerResp[r2], readerCh[r2])'
                 /\ respId'[readerResp'[r2]] \notin wire'
                 /\ chBuf'[readerCh'[r2]] = None
                 /\ \A r3 \in Readers \ {r2} : readerResp'[r3] # None =>
                      readerCh'[r3] # readerCh'[r2]
      <3>1. /\ r2 # r /\ readerResp'[r2] = readerResp[r2] /\ readerCh'[r2] = readerCh[r2]
            /\ readerResp[r2] # None
        BY Zenon, <2>6, <2>7
      <3>2. readerCh[r2] \in Chans \ {ch0}
        BY Zenon, <1>i, <1>8, <3>1 DEF Dispatch, InCycle, Owned, BaseInv, ReaderInv
      <3>3. MeantFor(readerResp[r2], readerCh[r2])' /\ respId'[readerResp'[r2]] \notin wire'
        <4>1. MeantFor(readerResp[r2], readerCh[r2]) /\ respId[readerResp[r2]] \notin wire
          BY Zenon, <1>i, <3>1 DEF InCycle
        <4>2. UNCHANGED <<pc, chOf, respId, wire>>
          BY Zenon, <2>2
        <4> QED
          BY Zenon, <3>1, <4>1, <4>2 DEF MeantFor
      <3>4. ASSUME NEW r3 \in Readers \ {r2}, readerResp'[r3] # None
            PROVE  readerCh'[r3] # readerCh[r2]
        <4>1. readerResp[r3] # None /\ readerCh'[r3] = readerCh[r3]
          BY Zenon, <2>6, <3>4
        <4> QED
          BY Zenon, <1>i, <3>1, <4>1 DEF InCycle
      <3> QED
        BY Zenon, <1>i, <2>4, <3>1, <3>2, <3>3, <3>4 DEF InCycle
    <2>8. InCycle'
      BY Zenon, <2>7 DEF InCycle, MeantFor
    <2> QED
      BY Zenon, <2>3, <2>5, <2>8 DEF MatchInv
  <1>9. ASSUME NEW c \in Calls, CtxExpires(c) \/ GiveUp(c) \/ Abandon(c) PROVE FALSE
    BY Zenon, <1>9, <1>i DEF CtxExpires, GiveUp, Abandon, Goto, Closed, Undisturbed, NoneAbandons
  <1>10. ASSUME Close \/ CloseStep PROVE FALSE
    BY Zenon, <1>10, <1>i DEF Close, CloseStep, CloseWait, CloseWakes, Undisturbed
  <1>11. CASE UNCHANGED vars
    <2>1. UNCHANGED <<pc, chOf, outcome, chBuf, respId, chansMap, readerResp, readerCh, wire>>
      BY Zenon, <1>11 DEF vars, callVars, chVars, respVars, readerVars, wireVars
    <2> QED
      BY Zenon, <1>i, <1>t, <2>1, PcMoves DEF NoneAbandons
  <1> QED
    BY Zenon, <1>1, <1>2, <1>3, <1>4, <1>5, <1>6, <1>7, <1>8, <1>9, <1>10, <1>11
       DEF Next, UserStep, CallStep, AllDone

\* README.md:142 holds until a ctx expires, the client is closed or a write is cut
\* half way, whichever sends fail before their write: every response returned
\* belongs to its request.
THEOREM MatchedUndisturbed == Spec => []MatchesUndisturbed
  <1> DEFINE Inv == Undisturbed => MatchInv
  <1>1. Init => Inv
    BY Zenon, MatchInit
  <1>2. Owned /\ Inv /\ [Next]_vars => Inv'
    BY Zenon, MatchNext, UndisturbedBefore
  <1>3. Inv => MatchesUndisturbed
    BY Zenon DEF MatchInv, MatchesUndisturbed
  <1>4. Spec => []Owned
    BY BaseInit, BaseNext, ChannelsExclusive, ResponsesExclusive, PTL DEF Spec, Owned
  <1> HIDE DEF Inv
  <1> QED
    BY <1>1, <1>2, <1>3, <1>4, PTL DEF Spec

--------------------------------------------------------------------------------
(* Reachability without failed sends.                                        *)

StrandInv ==
    NoSendFailed =>
      /\ ~torn
      /\ \A i \in wire : pc[i] \notin {"idle", "built", "event", "admitted", "stored", "encoded"}
      /\ \A c \in Calls : pc[c] \in {"stored", "encoded"} => chansMap[c] = chOf[c]
      /\ NeverStranded

LEMMA StrandInit == Init => StrandInv
  BY Zenon DEF Init, StrandInv, NeverStranded

\* A failed send stays on record.
LEMMA SendFailureStays == BaseInv /\ [Next]_vars /\ NoSendFailed' => NoSendFailed
  <1> SUFFICES ASSUME BaseInv, [Next]_vars, NEW c \in Calls, pc[c] = "failed"
               PROVE  pc'[c] = "failed"
    BY Zenon DEF NoSendFailed
  <1>1. ASSUME NEW d \in Calls, UserStep(d) PROVE pc'[c] = "failed"
    BY Zenon, <1>1 DEF BaseInv, TypeOK, Goto, UserStep, NewRequest, DiscardRequest, SendEvent,
       Admit, CtxExpires, ReleaseResponse, callVars
  <1>2. ASSUME NEW d \in Calls, CallStep(d) PROVE pc'[c] = "failed"
    BY Zenon, <1>2 DEF BaseInv, TypeOK, Goto, CallStep, WriteEvent, EventFails, Register,
       Encode, Write, SendFails, WaitResponse, GiveUp, Abandon, Receive
  <1>3. ASSUME NEW r \in Readers, Dispatch(r) \/ \E i \in Calls : ReadResponse(r, i)
        PROVE pc'[c] = "failed"
    BY Zenon, <1>3 DEF Dispatch, ReadResponse, callVars
  <1>4. CASE Close \/ CloseStep \/ AllDone \/ UNCHANGED vars
    BY ZenonT(40), <1>4 DEF Close, CloseStep, CloseWait, CloseWakes, CallsUnchanged, AllDone,
       vars, callVars
  <1> QED
    BY Zenon, <1>1, <1>2, <1>3, <1>4 DEF Next

LEMMA StrandNext ==
  BaseInv /\ ChannelExclusive /\ StrandInv /\ [Next]_vars => StrandInv'
  <1> SUFFICES ASSUME BaseInv, ChannelExclusive, StrandInv, [Next]_vars,
                      NoSendFailed, NoSendFailed'
               PROVE  StrandInv'
    BY Zenon, SendFailureStays DEF StrandInv
  <1>t. /\ pc \in [Calls -> PCs] /\ chOf \in [Calls -> Chans \cup {None}]
        /\ chansMap \in [Calls -> Chans \cup {None}]
        /\ chBuf \in [Chans -> RespObjs \cup {None}]
        /\ readerResp \in [Readers -> RespObjs \cup {None}]
        /\ readerCh \in [Readers -> Chans \cup {None}] /\ wire \subseteq Calls
    BY Zenon DEF BaseInv, TypeOK
  <1>h. \A c \in Calls : pc[c] \in HoldsChan => chOf[c] \in Chans
    BY Zenon, <1>t DEF BaseInv, CallInv
  <1> USE DEF StrandInv, NeverStranded
  <1>1. ASSUME NEW c \in Calls, NewRequest(c) PROVE StrandInv'
    BY Zenon, <1>t, <1>1 DEF NewRequest, Goto, chVars, readerVars, wireVars, reqVars
  <1>2. ASSUME NEW c \in Calls, DiscardRequest(c) PROVE StrandInv'
    BY Zenon, <1>t, <1>2 DEF DiscardRequest, Goto, chVars, readerVars, wireVars, reqVars
  <1>3. ASSUME NEW c \in Calls, SendEvent(c) PROVE StrandInv'
    BY Zenon, <1>t, <1>3 DEF SendEvent, Goto, chVars, readerVars, wireVars, reqVars
  <1>4. ASSUME NEW c \in Calls, Admit(c) PROVE StrandInv'
    BY Zenon, <1>t, <1>4 DEF Admit, Goto, chVars, readerVars, wireVars, reqVars
  <1>5. ASSUME NEW c \in Calls, Encode(c) PROVE StrandInv'
    BY Zenon, <1>t, <1>5 DEF Encode, Goto, chVars, readerVars, wireVars
  <1>6. ASSUME NEW c \in Calls, Write(c) PROVE StrandInv'
    <2>1. wire' = wire \cup {c} /\ torn' = torn
      BY Zenon, <1>6 DEF Write
    <2> QED
      BY <1>t, <1>6, <2>1 DEF Write, Goto, chVars, readerVars
  <1>7. ASSUME NEW c \in Calls, WaitResponse(c) PROVE StrandInv'
    BY Zenon, <1>t, <1>7 DEF WaitResponse, Goto, chVars, readerVars, wireVars
  <1>8. ASSUME NEW c \in Calls, ReleaseResponse(c) PROVE StrandInv'
    BY Zenon, <1>t, <1>8 DEF ReleaseResponse, Goto, chVars, readerVars, wireVars
  <1>9. ASSUME NEW c \in Calls, GiveUp(c) PROVE StrandInv'
    BY Zenon, <1>t, <1>9 DEF GiveUp, PutChan, Goto, readerVars, wireVars
  <1>10. ASSUME NEW c \in Calls, Abandon(c) PROVE StrandInv'
    BY Zenon, <1>t, <1>10 DEF Abandon, Delete, Goto, chVars, readerVars, wireVars
  <1>11. ASSUME NEW c \in Calls, Register(c) PROVE StrandInv'
    BY <1>t, <1>11 DEF Register, Goto, readerVars, wireVars
  <1>12. ASSUME NEW c \in Calls, Receive(c) PROVE StrandInv'
    BY NoneAssumption, <1>t, <1>h, <1>12 DEF Receive, PutChan, Goto, ChannelExclusive, readerVars, wireVars, HoldsChan
  <1>13. ASSUME NEW r \in Readers, NEW i \in Calls, ReadResponse(r, i)
        PROVE StrandInv'
    <2>1. /\ UNCHANGED <<pc, chOf, chBuf, torn>> /\ wire' = wire \ {i}
          /\ readerResp[r] = None /\ i \in wire
      BY Zenon, <1>13 DEF ReadResponse, callVars, chVars
    <2>2. CASE chansMap[i] = None
      <3>1. UNCHANGED <<chansMap, readerResp, readerCh>>
        BY Zenon, <1>13, <2>2 DEF ReadResponse, readerVars
      <3> QED
        BY Zenon, <2>1, <3>1
    <2>3. CASE chansMap[i] # None
      <3>1. PICK o \in respPool :
              /\ readerResp' = [readerResp EXCEPT ![r] = o]
              /\ readerCh' = [readerCh EXCEPT ![r] = chansMap[i]]
              /\ chansMap' = [chansMap EXCEPT ![i] = None]
        BY Zenon, <1>13, <2>3 DEF ReadResponse
      <3>2. o # None
        BY ZenonT(40), NoneAssumption DEF BaseInv, TypeOK
      <3>3. /\ readerResp'[r] = o /\ readerCh'[r] = chansMap[i]
            /\ \A r2 \in Readers \ {r} :
                 readerResp'[r2] = readerResp[r2] /\ readerCh'[r2] = readerCh[r2]
            /\ \A c \in Calls \ {i} : chansMap'[c] = chansMap[c]
        BY Zenon, <1>t, <3>1
      <3>4. pc[i] \notin {"idle", "built", "event", "admitted", "stored", "encoded"}
        BY Zenon, <2>1
      <3>5. ASSUME NEW c \in Calls, pc[c] \in {"sent", "waiting"}
            PROVE  \/ chansMap'[c] = chOf[c]
                   \/ \E r2 \in Readers : readerResp'[r2] # None /\ readerCh'[r2] = chOf[c]
                   \/ chBuf[chOf[c]] # None
        <4>1. \/ chansMap[c] = chOf[c]
              \/ \E r2 \in Readers : readerResp[r2] # None /\ readerCh[r2] = chOf[c]
              \/ chBuf[chOf[c]] # None
          BY Zenon, <3>5
        <4>2. CASE chansMap[c] = chOf[c]
          BY ZenonT(40), <3>2, <3>3, <4>2
        <4>3. ASSUME NEW r2 \in Readers, readerResp[r2] # None, readerCh[r2] = chOf[c]
              PROVE  readerResp'[r2] # None /\ readerCh'[r2] = chOf[c]
          BY Zenon, <2>1, <3>3, <4>3
        <4> QED
          BY Zenon, <4>1, <4>2, <4>3
      <3> QED
        BY Zenon, <2>1, <3>3, <3>4, <3>5
    <2> QED
      BY Zenon, <2>2, <2>3
  <1>14. ASSUME NEW r \in Readers, Dispatch(r) PROVE StrandInv'
    <2>1. UNCHANGED <<pc, chOf, chansMap, wire, torn>>
      BY Zenon, <1>14 DEF Dispatch, callVars, wireVars
    <2>2. \A ch \in Chans : chBuf[ch] # None \/ ch = readerCh[r] => chBuf'[ch] # None
      BY Zenon, <1>t, <1>14 DEF Dispatch
    <2>3. \A r2 \in Readers \ {r} :
            readerResp'[r2] = readerResp[r2] /\ readerCh'[r2] = readerCh[r2]
      BY Zenon, <1>t, <1>14 DEF Dispatch
    <2>4. \A c \in Calls : pc[c] \in HoldsChan => chOf[c] \in Chans
      BY Zenon, <1>h
    <2>5. ASSUME NEW c \in Calls, pc[c] \in {"sent", "waiting"}
          PROVE  \/ chansMap[c] = chOf[c]
                 \/ \E r2 \in Readers : readerResp'[r2] # None /\ readerCh'[r2] = chOf[c]
                 \/ chBuf'[chOf[c]] # None
      <3>1. chOf[c] \in Chans
        BY Zenon, <2>4, <2>5 DEF HoldsChan
      <3>2. CASE chansMap[c] = chOf[c]
        BY Zenon, <3>2
      <3>3. CASE chBuf[chOf[c]] # None
        BY Zenon, <2>2, <3>1, <3>3
      <3>4. ASSUME NEW r2 \in Readers, readerResp[r2] # None, readerCh[r2] = chOf[c]
            PROVE  \/ readerResp'[r2] # None /\ readerCh'[r2] = chOf[c]
                   \/ chBuf'[chOf[c]] # None
        BY Zenon, <2>2, <2>3, <3>1, <3>4
      <3> QED
        BY Zenon, <2>5, <3>2, <3>3, <3>4
    <2> QED
      BY Zenon, <2>1, <2>5
  <1>15. ASSUME NEW c \in Calls, SendFails(c) \/ EventFails(c) PROVE FALSE
    BY Zenon, <1>t, <1>15 DEF SendFails, EventFails, Goto, NoSendFailed
  <1>16. ASSUME UNCHANGED <<pc, chOf, chBuf, chansMap, readerResp, readerCh, wire, torn>>
         PROVE StrandInv'
    BY Zenon, <1>16
  <1>17. ASSUME NEW c \in Calls, WriteEvent(c) PROVE StrandInv'
    BY Zenon, <1>t, <1>17 DEF WriteEvent, Goto, chVars, readerVars, wireVars
  <1> QED
    BY ZenonT(40), <1>1, <1>2, <1>3, <1>4, <1>5, <1>6, <1>7, <1>8, <1>9,
       <1>10, <1>11, <1>12, <1>13, <1>14, <1>15, <1>16, <1>17
       DEF Next, UserStep, CallStep, CtxExpires, Close, CloseStep, CloseWait, CloseWakes,
       CallsUnchanged, AllDone, vars, callVars, chVars, readerVars, wireVars

\* README.md:169 holds as long as no send fails: a call that has written its
\* request stays reachable, whichever calls give up.
THEOREM ReachableUnlessSendFails == Spec => []ReachableUntilSendFails
  <1>1. StrandInv => ReachableUntilSendFails
    BY Zenon DEF StrandInv, ReachableUntilSendFails, NeverStranded
  <1>2. BaseInv /\ ChannelExclusive /\ StrandInv /\ [Next]_vars => StrandInv'
    BY Zenon, StrandNext
  <1>3. Spec => [](BaseInv /\ ChannelExclusive)
    BY BaseInit, BaseNext, ChannelsExclusive, PTL DEF Spec
  <1> QED
    BY StrandInit, <1>1, <1>2, <1>3, PTL DEF Spec
================================================================================
