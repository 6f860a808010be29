--------------------------- MODULE MultiplexerProofs ---------------------------
(* Theorems about Multiplexer, for every number of streams, senders and      *)
(* Batchers.                                                                 *)
EXTENDS Multiplexer, FiniteSetTheorems, TLAPS

Part == [from : Senders, whole : BOOLEAN]

\* Where p's frame is in what was written to a stream.
Places(p, w) == {i \in DOMAIN w : w[i] = Whole(p)}

\* The types the proofs rest on.
SendTypes ==
    /\ published \subseteq Streams
    /\ buf \in [BatcherIds -> Seq(Senders)]
    /\ written \in [Streams -> Seq(Part)]
    /\ opening \in Streams \cup {None}
    /\ batchers \in [Streams -> BatcherIds \cup {None}]
    /\ readerPc \in [Streams -> {"none", "load", "flush", "read", "over"}]
    /\ readerB \in [Streams -> BatcherIds \cup {None}]
    /\ \A s \in Streams : readerPc[s] = "flush" => readerB[s] \in BatcherIds
    /\ pc \in [Senders -> {"idle", "load", "store", "write", "direct", "ok", "failed"}]
    /\ stream \in [Senders -> Streams \cup {None}]
    /\ \A p \in Senders : pc[p] \in {"load", "store", "write", "direct", "ok"} =>
         stream[p] \in Streams
    /\ batcher \in [Senders -> BatcherIds \cup {None}]
    /\ \A p \in Senders : pc[p] = "write" => batcher[p] \in BatcherIds

\* An empty buffer means a direct write, so no Batcher ever has anything in its
\* buffer: whichever Batcher a sender has, and whoever flushes it, is all one.
NothingBuffered == \A b \in BatcherIds : buf[b] = <<>>

\* A sender's frame is on the stream it picked once it was told so, at one
\* place, and nowhere else.
WrittenInv ==
    \A p \in Senders :
        /\ pc[p] = "ok" => \E i \in Nat : Places(p, written[stream[p]]) = {i}
        /\ \A s \in Streams : Places(p, written[s]) # {} => stream[p] = s /\ pc[p] = "ok"

\* A Batcher in the map, in a read cycle or with a sender is the stream's own.
OwnBatcher ==
    /\ made \subseteq BatcherIds
    /\ bstream \in [BatcherIds -> Streams \cup {None}]
    /\ \A s \in Streams : batchers[s] # None =>
         batchers[s] \in made /\ bstream[batchers[s]] = s
    /\ \A s \in Streams : readerPc[s] = "flush" =>
         readerB[s] \in made /\ bstream[readerB[s]] = s
    /\ \A p \in Senders : pc[p] \in {"write", "direct"} =>
         batcher[p] \in made /\ bstream[batcher[p]] = stream[p]

SendInv == SendTypes /\ NothingBuffered /\ WrittenInv

LEMMA SendInit == Init => SendInv /\ OwnBatcher
  BY NoneAssumption DEF Init, SendInv, SendTypes, NothingBuffered, WrittenInv, Places, OwnBatcher

\* A new Batcher is nobody else's.
LEMMA OwnNext == SendInv /\ OwnBatcher /\ [Next]_vars => OwnBatcher'
  <1> SUFFICES ASSUME SendInv, OwnBatcher, [Next]_vars PROVE OwnBatcher'
    OBVIOUS
  <1>t. /\ published \subseteq Streams /\ opening \in Streams \cup {None}
        /\ batchers \in [Streams -> BatcherIds \cup {None}]
        /\ readerPc \in [Streams -> {"none", "load", "flush", "read", "over"}]
        /\ readerB \in [Streams -> BatcherIds \cup {None}]
        /\ pc \in [Senders -> {"idle", "load", "store", "write", "direct", "ok", "failed"}]
        /\ stream \in [Senders -> Streams \cup {None}]
        /\ batcher \in [Senders -> BatcherIds \cup {None}]
    BY Zenon DEF SendInv, SendTypes
  <1>1. ASSUME NEW s \in Streams, NEW b \in BatcherIds, StoreNewBatcher(s, b)
        PROVE  /\ made' \subseteq BatcherIds /\ bstream' \in [BatcherIds -> Streams \cup {None}]
               /\ b \in made' /\ bstream'[b] = s
               /\ \A a \in made : a \in made' /\ bstream'[a] = bstream[a]
               /\ \A s2 \in Streams : batchers'[s2] # None =>
                    batchers'[s2] \in made' /\ bstream'[batchers'[s2]] = s2
    <2>1. /\ b \notin made /\ made' = made \cup {b}
          /\ bstream' = [bstream EXCEPT ![b] = s]
          /\ batchers' = [batchers EXCEPT ![s] = b]
      BY Zenon, <1>1 DEF StoreNewBatcher
    <2>2. /\ made' \subseteq BatcherIds /\ bstream' \in [BatcherIds -> Streams \cup {None}]
          /\ b \in made' /\ bstream'[b] = s
          /\ \A a \in made : a \in made' /\ bstream'[a] = bstream[a]
      BY Zenon, <2>1 DEF OwnBatcher
    <2>3. batchers'[s] = b /\ \A s2 \in Streams \ {s} : batchers'[s2] = batchers[s2]
      BY Zenon, <1>t, <2>1
    <2>4. ASSUME NEW s2 \in Streams, batchers'[s2] # None
          PROVE  batchers'[s2] \in made' /\ bstream'[batchers'[s2]] = s2
      <3>1. CASE s2 = s
        BY Zenon, <2>2, <2>3, <3>1
      <3>2. CASE s2 # s
        <4>1. batchers'[s2] = batchers[s2] /\ batchers[s2] \in made /\ bstream[batchers[s2]] = s2
          BY Zenon, <2>3, <2>4, <3>2 DEF OwnBatcher
        <4> QED
          BY Zenon, <2>2, <4>1
      <3> QED
        BY Zenon, <3>1, <3>2
    <2> QED
      BY Zenon, <2>2, <2>4
  <1>2. ASSUME NEW p \in Senders, NEW b \in BatcherIds, SenderStore(p, b) PROVE OwnBatcher'
    <2>1. stream[p] \in Streams
      BY Zenon, <1>2 DEF SenderStore, Goto, SendInv, SendTypes
    <2>2. StoreNewBatcher(stream[p], b) /\ UNCHANGED <<readerVars, stream>>
      BY Zenon, <1>2 DEF SenderStore
    <2>3. /\ batcher'[p] = b
          /\ \A q \in Senders \ {p} : pc'[q] = pc[q] /\ batcher'[q] = batcher[q]
      BY Zenon, <1>t, <1>2 DEF SenderStore, Goto
    <2>4. \A q \in Senders : pc'[q] \in {"write", "direct"} =>
            batcher'[q] \in made' /\ bstream'[batcher'[q]] = stream'[q]
      <3> SUFFICES ASSUME NEW q \in Senders, pc'[q] \in {"write", "direct"}
                   PROVE  batcher'[q] \in made' /\ bstream'[batcher'[q]] = stream[q]
        BY Zenon, <2>2
      <3>1. CASE q = p
        BY Zenon, <1>1, <2>1, <2>2, <2>3, <3>1
      <3>2. CASE q # p
        <4>1. batcher'[q] = batcher[q] /\ batcher[q] \in made /\ bstream[batcher[q]] = stream[q]
          BY Zenon, <2>3, <3>2 DEF OwnBatcher
        <4> QED
          BY Zenon, <1>1, <2>1, <2>2, <4>1
      <3> QED
        BY Zenon, <3>1, <3>2
    <2>5. \A s \in Streams : readerPc'[s] = "flush" =>
            readerB'[s] \in made' /\ bstream'[readerB'[s]] = s
      BY Zenon, <1>1, <2>1, <2>2 DEF OwnBatcher, readerVars
    <2> QED
      BY Zenon, <1>1, <2>1, <2>2, <2>4, <2>5 DEF OwnBatcher
  <1>3. ASSUME NEW b \in BatcherIds, StartStore(b) PROVE OwnBatcher'
    <2>1. opening \in Streams /\ StoreNewBatcher(opening, b) /\ UNCHANGED <<readerB, senderVars>>
      BY Zenon, <1>t, <1>3 DEF StartStore
    <2>2. \A s \in Streams : readerPc'[s] = "flush" => readerPc[s] = "flush"
      BY Zenon, <1>t, <1>3 DEF StartStore
    <2>3. \A s \in Streams : readerPc'[s] = "flush" =>
            readerB'[s] \in made' /\ bstream'[readerB'[s]] = s
      BY Zenon, <1>1, <2>1, <2>2 DEF OwnBatcher
    <2>4. \A q \in Senders : pc'[q] \in {"write", "direct"} =>
            batcher'[q] \in made' /\ bstream'[batcher'[q]] = stream'[q]
      BY Zenon, <1>1, <2>1 DEF OwnBatcher, senderVars
    <2> QED
      BY Zenon, <1>1, <2>1, <2>3, <2>4 DEF OwnBatcher
  <1>4. ASSUME UNCHANGED batcherVars, UNCHANGED readerVars,
               \A p \in Senders : pc'[p] \in {"write", "direct"} =>
                 /\ stream'[p] = stream[p]
                 /\ \/ pc[p] \in {"write", "direct"} /\ batcher'[p] = batcher[p]
                    \/ batchers[stream[p]] # None /\ stream[p] \in Streams
                         /\ batcher'[p] = batchers[stream[p]]
        PROVE  OwnBatcher'
    <2>1. UNCHANGED <<batchers, made, bstream, readerPc, readerB>>
      BY Zenon, <1>4 DEF batcherVars, readerVars
    <2>2. ASSUME NEW q \in Senders, pc'[q] \in {"write", "direct"}
          PROVE  batcher'[q] \in made /\ bstream[batcher'[q]] = stream'[q]
      <3>1. CASE pc[q] \in {"write", "direct"} /\ batcher'[q] = batcher[q]
        BY Zenon, <1>4, <2>2, <3>1 DEF OwnBatcher
      <3>2. CASE batchers[stream[q]] # None /\ stream[q] \in Streams
                   /\ batcher'[q] = batchers[stream[q]]
        BY ZenonT(40), <1>4, <2>2, <3>2 DEF OwnBatcher
      <3> QED
        BY Zenon, <1>4, <2>2, <3>1, <3>2
    <2> QED
      BY Zenon, <2>1, <2>2 DEF OwnBatcher
  <1>5. ASSUME NEW p \in Senders,
               GetStream(p) \/ SenderLoad(p) \/ BatcherWrite(p) \/ DirectWrite(p)
                 \/ DirectWriteFails(p) \/ DirectWriteCut(p)
        PROVE  OwnBatcher'
    <2>1. UNCHANGED batcherVars /\ UNCHANGED readerVars
      BY Zenon, <1>5 DEF GetStream, SenderLoad, BatcherWrite, DirectWrite, DirectWriteFails,
         DirectWriteCut
    <2>2. \A q \in Senders \ {p} :
            pc'[q] = pc[q] /\ stream'[q] = stream[q] /\ batcher'[q] = batcher[q]
      BY Zenon, <1>t, <1>5 DEF GetStream, SenderLoad, BatcherWrite, DirectWrite,
         DirectWriteFails, DirectWriteCut, Goto
    <2>3. ASSUME pc'[p] \in {"write", "direct"}
          PROVE  /\ stream'[p] = stream[p]
                 /\ \/ pc[p] \in {"write", "direct"} /\ batcher'[p] = batcher[p]
                    \/ batchers[stream[p]] # None /\ stream[p] \in Streams
                         /\ batcher'[p] = batchers[stream[p]]
      <3>1. CASE SenderLoad(p)
        <4>1. stream[p] \in Streams
          BY Zenon, <3>1 DEF SenderLoad, Goto, SendInv, SendTypes
        <4>2. batchers[stream[p]] # None
          BY Zenon, <1>t, <2>3, <3>1 DEF SenderLoad, Goto
        <4> QED
          BY Zenon, <1>t, <3>1, <4>1, <4>2 DEF SenderLoad
      <3>2. CASE BatcherWrite(p)
        BY Zenon, <3>2 DEF BatcherWrite
      <3>3. CASE GetStream(p) \/ DirectWrite(p) \/ DirectWriteFails(p) \/ DirectWriteCut(p)
        BY Zenon, <1>t, <2>3, <3>3 DEF GetStream, DirectWrite, DirectWriteFails, DirectWriteCut, Goto
      <3> QED
        BY Zenon, <1>5, <3>1, <3>2, <3>3
    <2> QED
      BY Zenon, <1>4, <2>1, <2>2, <2>3
  <1>6. ASSUME NEW s \in Streams, StartOpen(s) \/ ReaderLoad(s) \/ Flush(s) \/ FrameRead(s)
        PROVE  OwnBatcher'
    <2>1. UNCHANGED <<batcherVars, senderVars>>
      BY Zenon, <1>6 DEF StartOpen, ReaderLoad, Flush, FrameRead
    <2>2. \A s2 \in Streams : readerPc'[s2] = "flush" =>
            \/ readerPc[s2] = "flush" /\ readerB'[s2] = readerB[s2]
            \/ batchers[s2] # None /\ readerB'[s2] = batchers[s2]
      BY ZenonT(40), <1>t, <1>6 DEF StartOpen, ReaderLoad, Flush, FrameRead, ReaderGoto, readerVars
    <2> QED
      BY Zenon, <2>1, <2>2 DEF OwnBatcher, batcherVars, senderVars
  <1>7. ASSUME NEW s \in Streams, ReadFails(s) PROVE OwnBatcher'
    <2>1. UNCHANGED <<made, bstream, readerB, senderVars>>
      BY Zenon, <1>7 DEF ReadFails
    <2>2. /\ \A s2 \in Streams : readerPc'[s2] = "flush" => readerPc[s2] = "flush"
          /\ \A s2 \in Streams : batchers'[s2] # None => batchers'[s2] = batchers[s2]
      BY Zenon, <1>t, <1>7 DEF ReadFails, ReaderGoto
    <2> QED
      BY Zenon, <2>1, <2>2 DEF OwnBatcher, senderVars
  <1>8. CASE StartOpenFails \/ Close \/ UNCHANGED vars
    BY Zenon, <1>4, <1>8 DEF StartOpenFails, Close, vars, senderVars
  <1> QED
    BY Zenon, <1>2, <1>3, <1>5, <1>6, <1>7, <1>8 DEF Next, Finished

\* What an appended frame does to the places of a frame.
LEMMA PlacesAppend ==
  ASSUME NEW w \in Seq(Part), NEW f \in Part, NEW q \in Senders
  PROVE  /\ f = Whole(q) => Places(q, Append(w, f)) = Places(q, w) \cup {Len(w) + 1}
         /\ f # Whole(q) => Places(q, Append(w, f)) = Places(q, w)
  <1>1. /\ DOMAIN Append(w, f) = DOMAIN w \cup {Len(w) + 1}
        /\ \A i \in DOMAIN w : Append(w, f)[i] = w[i]
        /\ Append(w, f)[Len(w) + 1] = f
    OBVIOUS
  <1> QED
    BY Zenon, <1>1 DEF Places

LEMMA Parts ==
  ASSUME NEW p \in Senders
  PROVE  /\ Whole(p) \in Part /\ Cut(p) \in Part
         /\ \A q \in Senders : q # p => Whole(q) # Whole(p)
         /\ \A q \in Senders : Whole(q) # Cut(p)
  BY Zenon DEF Whole, Cut, Part

\* A step that writes nothing, makes no sender successful or unsuccessful, and
\* lets none change the stream it is using.
LEMMA WrittenKeeps ==
  ASSUME WrittenInv, UNCHANGED written,
         \A p \in Senders : pc'[p] = "ok" <=> pc[p] = "ok",
         \A p \in Senders : pc[p] = "ok" => stream'[p] = stream[p]
  PROVE  WrittenInv'
  BY Zenon DEF WrittenInv

\* Appending one frame to the stream that a sender is writing to.
LEMMA WrittenAppend ==
  ASSUME SendTypes, WrittenInv, NEW p \in Senders, pc[p] = "direct",
         NEW f \in {Whole(p), Cut(p)},
         written' = [written EXCEPT ![stream[p]] = Append(@, f)],
         pc' = [pc EXCEPT ![p] = IF f = Whole(p) THEN "ok" ELSE "failed"],
         stream' = stream
  PROVE  written' \in [Streams -> Seq(Part)] /\ WrittenInv'
  <1> DEFINE st == stream[p]
  <1>1. st \in Streams /\ written[st] \in Seq(Part) /\ f \in Part
    BY Zenon, Parts DEF SendTypes
  <1>2. Append(written[st], f) \in Seq(Part)
    <2> HIDE DEF Part, st
    <2> QED
      BY <1>1
  <1>3. /\ written' \in [Streams -> Seq(Part)]
        /\ written'[st] = Append(written[st], f)
        /\ \A s \in Streams \ {st} : written'[s] = written[s]
    BY Zenon, <1>1, <1>2 DEF SendTypes
  <1>4. \A s \in Streams : Places(p, written[s]) = {}
    BY Zenon DEF WrittenInv
  <1>5. ASSUME NEW q \in Senders, q # p, NEW s \in Streams
        PROVE  Places(q, written'[s]) = Places(q, written[s])
    <2>1. f # Whole(q)
      BY Zenon, <1>5, Parts
    <2> QED
      BY <1>1, <1>3, <2>1, PlacesAppend
  <1>6. /\ f = Whole(p) => Places(p, written'[st]) = {Len(written[st]) + 1}
        /\ f # Whole(p) => Places(p, written'[st]) = {}
        /\ \A s \in Streams \ {st} : Places(p, written'[s]) = {}
    BY <1>1, <1>3, <1>4, PlacesAppend
  <1>7. \A q \in Senders \ {p} : pc'[q] = pc[q]
    BY Zenon DEF SendTypes
  <1>8. pc'[p] = IF f = Whole(p) THEN "ok" ELSE "failed"
    BY Zenon DEF SendTypes
  <1>9. ASSUME NEW q \in Senders
        PROVE  /\ pc'[q] = "ok" => \E i \in Nat : Places(q, written'[stream'[q]]) = {i}
               /\ \A s \in Streams : Places(q, written'[s]) # {} =>
                    stream'[q] = s /\ pc'[q] = "ok"
    <2>1. CASE q = p
      <3>1. CASE f = Whole(p)
        <4>1. Len(written[st]) + 1 \in Nat
          BY <1>1
        <4> QED
          BY Zenon, <1>6, <1>8, <2>1, <3>1, <4>1
      <3>2. CASE f # Whole(p)
        <4>1. pc'[p] = "failed" /\ \A s \in Streams : Places(p, written'[s]) = {}
          BY Zenon, <1>6, <1>8, <3>2
        <4> QED
          BY Zenon, <2>1, <4>1
      <3> QED
        BY Zenon, <3>1, <3>2
    <2>2. CASE q # p
      <3>1. pc'[q] = pc[q] /\ (pc[q] = "ok" => stream[q] \in Streams)
        BY Zenon, <1>7, <2>2 DEF SendTypes
      <3>2. /\ pc'[q] = "ok" => \E i \in Nat : Places(q, written'[stream[q]]) = {i}
            /\ \A s \in Streams : Places(q, written'[s]) # {} =>
                 stream[q] = s /\ pc'[q] = "ok"
        BY ZenonT(60), <1>5, <2>2, <3>1 DEF WrittenInv
      <3> QED
        BY Zenon, <3>2
    <2> QED
      BY Zenon, <2>1, <2>2
  <1>10. WrittenInv'
    BY Zenon, <1>9 DEF WrittenInv
  <1> QED
    BY Zenon, <1>3, <1>10

\* Every step of a sender or a read cycle keeps the invariant.
LEMMA SendNext == SendInv /\ OwnBatcher /\ [Next]_vars => SendInv'
  <1> SUFFICES ASSUME SendInv, OwnBatcher, [Next]_vars PROVE SendInv'
    OBVIOUS
  <1> USE NoneAssumption DEF SendInv
  <1>1. ASSUME NEW p \in Senders, DirectWrite(p) \/ DirectWriteCut(p) PROVE SendInv'
    <2>1. PICK f \in {Whole(p), Cut(p)} :
            /\ written' = [written EXCEPT ![stream[p]] = Append(@, f)]
            /\ pc' = [pc EXCEPT ![p] = IF f = Whole(p) THEN "ok" ELSE "failed"]
      <3>1. bstream[batcher[p]] = stream[p]
        BY Zenon, <1>1 DEF DirectWrite, DirectWriteCut, Goto, OwnBatcher
      <3> QED
        BY Zenon, <1>1, <3>1, Parts DEF DirectWrite, DirectWriteCut, Goto
    <2>2. /\ pc[p] = "direct"
          /\ UNCHANGED <<opening, published, batchers, buf, readerVars, stream, batcher>>
      BY Zenon, <1>1 DEF DirectWrite, DirectWriteCut, Goto, startVars, batcherVars
    <2>3. written' \in [Streams -> Seq(Part)] /\ WrittenInv'
      BY Zenon, <2>1, <2>2, WrittenAppend
    <2>4. SendTypes'
      BY Zenon, <2>1, <2>2, <2>3 DEF SendTypes, readerVars
    <2> QED
      BY Zenon, <2>2, <2>3, <2>4 DEF NothingBuffered
  <1>2. ASSUME NEW p \in Senders,
               GetStream(p) \/ SenderLoad(p) \/ (\E b \in BatcherIds : SenderStore(p, b))
                 \/ BatcherWrite(p) \/ DirectWriteFails(p)
        PROVE  SendInv'
    <2>1. UNCHANGED <<opening, published, buf, written, readerVars>>
      BY Zenon, <1>2 DEF GetStream, SenderLoad, SenderStore, BatcherWrite, DirectWriteFails,
         startVars, Goto, SendTypes, NothingBuffered
    <2>2. SendTypes'
      <3>1. CASE GetStream(p)
        <4>1. CASE published = {}
          BY ZenonT(60), <2>1, <3>1, <4>1 DEF GetStream, Goto, SendTypes, readerVars, batcherVars
        <4>2. CASE published # {}
          <5>1. PICK s \in Streams : stream' = [stream EXCEPT ![p] = s]
            BY Zenon, <3>1, <4>2 DEF GetStream, SendTypes
          <5>2. pc' = [pc EXCEPT ![p] = "load"] /\ UNCHANGED <<batchers, batcher>>
            BY Zenon, <3>1, <4>2 DEF GetStream, Goto, batcherVars
          <5> QED
            BY Zenon, <2>1, <5>1, <5>2 DEF SendTypes, readerVars
        <4> QED
          BY Zenon, <4>1, <4>2
      <3>2. CASE SenderLoad(p)
        BY <2>1, <3>2 DEF SenderLoad, Goto, SendTypes, readerVars, batcherVars
      <3>3. ASSUME NEW b \in BatcherIds, SenderStore(p, b) PROVE SendTypes'
        BY Zenon, <2>1, <3>3 DEF SenderStore, StoreNewBatcher, Goto, SendTypes, readerVars
      <3>4. CASE BatcherWrite(p) \/ DirectWriteFails(p)
        BY ZenonT(60), <2>1, <3>4 DEF BatcherWrite, DirectWriteFails, Goto, SendTypes, readerVars,
           batcherVars
      <3> QED
        BY Zenon, <1>2, <3>1, <3>2, <3>3, <3>4
    <2>3. /\ \A q \in Senders : pc'[q] = "ok" <=> pc[q] = "ok"
          /\ \A q \in Senders : pc[q] = "ok" => stream'[q] = stream[q]
      BY <1>2 DEF GetStream, SenderLoad, SenderStore, BatcherWrite, DirectWriteFails,
         Goto, SendTypes, NothingBuffered
    <2> QED
      BY Zenon, <2>1, <2>2, <2>3, WrittenKeeps DEF NothingBuffered
  <1>3. ASSUME NEW s \in Streams, Flush(s) PROVE SendInv'
    <2>1. buf[readerB[s]] = <<>>
      BY Zenon, <1>3 DEF Flush, ReaderGoto, SendTypes, NothingBuffered
    <2>2. \A w \in Seq(Part) :
            w \o [i \in DOMAIN buf[readerB[s]] |-> Whole(buf[readerB[s]][i])] = w
      BY <2>1
    <2>3. UNCHANGED <<opening, published, batchers, buf, written, readerB, senderVars>>
      <3>1. /\ UNCHANGED <<opening, published, batchers, readerB, senderVars>>
            /\ buf' = [buf EXCEPT ![readerB[s]] = <<>>]
            /\ bstream[readerB[s]] = s
        BY Zenon, <1>3 DEF Flush, ReaderGoto, OwnBatcher, startVars, batcherVars
      <3>2. buf' = buf
        BY Zenon, <2>1, <3>1 DEF SendTypes
      <3>3. written' = [written EXCEPT ![s] =
                          @ \o [i \in DOMAIN buf[readerB[s]] |-> Whole(buf[readerB[s]][i])]]
        BY Zenon, <1>3, <3>1 DEF Flush
      <3>4. written' = written
        <4>1. written \in [Streams -> Seq(Part)] /\ written[s] \in Seq(Part)
          BY Zenon DEF SendTypes
        <4>2. written' = [written EXCEPT ![s] = written[s]]
          BY Zenon, <2>2, <3>3, <4>1
        <4> QED
          BY Zenon, <4>1, <4>2
      <3> QED
        BY Zenon, <3>1, <3>2, <3>4
    <2>4. SendTypes'
      <3>1. readerPc' = [readerPc EXCEPT ![s] = "read"]
        BY Zenon, <1>3 DEF Flush, ReaderGoto
      <3> QED
        BY Zenon, <2>3, <3>1 DEF SendTypes, senderVars
    <2> QED
      BY Zenon, <2>3, <2>4, WrittenKeeps DEF NothingBuffered, senderVars
  <1>4. ASSUME UNCHANGED <<buf, written, senderVars>>, SendTypes' PROVE SendInv'
    BY Zenon, <1>4, WrittenKeeps DEF NothingBuffered, senderVars
  <1>5. ASSUME NEW s \in Streams,
               StartOpen(s) \/ ReaderLoad(s) \/ FrameRead(s) \/ ReadFails(s)
        PROVE  SendInv'
    <2>1. UNCHANGED <<buf, written, senderVars>>
      BY Zenon, <1>5 DEF StartOpen, ReaderLoad, FrameRead, ReadFails
    <2>2. SendTypes'
      BY ZenonT(60), <1>5, <2>1 DEF StartOpen, ReaderLoad, FrameRead, ReadFails, ReaderGoto,
         SendTypes, startVars, readerVars, senderVars, batcherVars
    <2> QED
      BY Zenon, <1>4, <2>1, <2>2
  <1>6. ASSUME NEW b \in BatcherIds, StartStore(b) PROVE SendInv'
    <2>1. UNCHANGED <<buf, written, senderVars>>
      BY Zenon, <1>6 DEF StartStore
    <2>2. SendTypes'
      BY Zenon, <1>6, <2>1 DEF StartStore, StoreNewBatcher, SendTypes, senderVars
    <2> QED
      BY Zenon, <1>4, <2>1, <2>2
  <1>7. CASE StartOpenFails \/ Close \/ UNCHANGED vars
    <2>1. UNCHANGED <<opening, batchers, buf, written, readerVars, senderVars>>
          /\ published' \subseteq published
      BY Zenon, <1>7 DEF StartOpenFails, Close, vars, startVars, batcherVars
    <2>2. SendTypes'
      BY Zenon, <2>1 DEF SendTypes, readerVars, senderVars
    <2> QED
      BY Zenon, <1>4, <2>1, <2>2
  <1> QED
    BY Zenon, <1>1, <1>2, <1>3, <1>5, <1>6, <1>7 DEF Next, Finished

\* An accepted frame is on its stream exactly once, whatever Batchers were
\* created, replaced or deleted meanwhile.
THEOREM AcceptedFramesWritten == Spec => []AcceptedIsWritten
  <1>1. SendInv => AcceptedIsWritten
    <2> SUFFICES ASSUME SendInv, NEW p \in Senders, pc[p] = "ok"
                 PROVE  Cardinality(Copies(p, stream[p])) = 1
      BY Zenon DEF AcceptedIsWritten
    <2>1. PICK i \in Nat : Places(p, written[stream[p]]) = {i}
      BY Zenon DEF SendInv, WrittenInv
    <2>2. Copies(p, stream[p]) = {i}
      BY Zenon, <2>1 DEF Copies, Places
    <2> QED
      BY Zenon, <2>2, FS_Singleton
  <1> QED
    BY SendInit, OwnNext, SendNext, <1>1, PTL DEF Spec

\* A whole frame is only where its sender was told that it is, whichever Batcher
\* carried it there.
THEOREM WrittenFramesAccepted == Spec => []OnlyPickedStream
  <1>1. SendInv => OnlyPickedStream
    BY Zenon DEF SendInv, WrittenInv, OnlyPickedStream, Copies, Places
  <1> QED
    BY SendInit, OwnNext, SendNext, <1>1, PTL DEF Spec

--------------------------------------------------------------------------------
(* start                                                                    *)

\* The index of the loop counts the streams opened, but for the one that start
\* has in hand.
StartInv ==
    /\ opened \subseteq Streams
    /\ opening \in Streams \cup {None}
    /\ idx \in 0..Cardinality(Streams)
    /\ Cardinality(opened) = IF opening = None THEN idx ELSE idx + 1

\* An index taken back past 0 comes back to 0.
LEMMA RetriedSame == \A n \in 0..(uint16 - 1) : Retried(n) = n
  <1>1. ASSUME NEW u \in Nat, 0 < u, NEW n \in 0..(u - 1)
        PROVE  (((n - 1) % u) + 1) % u = n
    <2>1. CASE n = 0
      <3>1. (n - 1) % u = u - 1
        BY SMT, <2>1, <1>1
      <3> QED
        BY SMT, <2>1, <1>1, <3>1
    <2>2. CASE n # 0
      <3>1. (n - 1) % u = n - 1
        BY SMT, <2>2, <1>1
      <3> QED
        BY SMT, <2>2, <1>1, <3>1
    <2> QED
      BY Zenon, <2>1, <2>2
  <1>2. uint16 \in Nat /\ 0 < uint16
    BY SMT DEF uint16
  <1> QED
    BY Zenon, <1>1, <1>2 DEF Retried

LEMMA StartInit == Init => StartInv
  <1>1. Cardinality({}) = 0 /\ Cardinality(Streams) \in Nat
    BY Zenon, FS_EmptySet, FS_CardinalityType, StreamsAssumption
  <1> QED
    BY <1>1 DEF Init, StartInv

\* Each step of start keeps the count.
LEMMA StartNext == StartInv /\ [Next]_vars => StartInv'
  <1> SUFFICES ASSUME StartInv, [Next]_vars PROVE StartInv'
    OBVIOUS
  <1> DEFINE N == Cardinality(Streams)
  <1>1. N \in Nat /\ N < uint16 /\ uint16 \in Nat
    <2>1. uint16 \in Nat
      BY SMT DEF uint16
    <2> QED
      BY Zenon, <2>1, FS_CardinalityType, StreamsAssumption
  <1>2. /\ \A T : T \subseteq Streams => IsFiniteSet(T) /\ Cardinality(T) \in Nat /\ Cardinality(T) <= N
    BY Zenon, FS_Subset, FS_CardinalityType, StreamsAssumption
  <1>3. ASSUME NEW s \in Streams, StartOpen(s) PROVE StartInv'
    <2>1. /\ opening = None /\ s \notin opened
          /\ opened' = opened \cup {s} /\ opening' = s /\ idx' = idx
      BY Zenon, <1>3 DEF StartOpen, Starting
    <2>2. Cardinality(opened \cup {s}) = Cardinality(opened) + 1
      BY Zenon, <1>2, <2>1, FS_AddElement DEF StartInv
    <2>3. opened' \subseteq Streams /\ opening' # None
      BY Zenon, <2>1, NoneAssumption DEF StartInv
    <2> QED
      BY Zenon, <2>1, <2>2, <2>3 DEF StartInv
  <1>4. ASSUME NEW b \in BatcherIds, StartStore(b) PROVE StartInv'
    <2>1. opening # None /\ opening' = None /\ idx' = (idx + 1) % uint16 /\ opened' = opened
      BY Zenon, <1>4 DEF StartStore
    <2>2. idx \in Nat /\ idx + 1 <= N
      BY <1>1, <1>2, <2>1 DEF StartInv
    <2>3. (idx + 1) % uint16 = idx + 1
      BY <1>1, <2>2
    <2> HIDE DEF N
    <2>4. idx' = idx + 1 /\ idx' \in 0..N
      BY <1>1, <2>1, <2>2, <2>3
    <2> QED
      BY Zenon, <2>1, <2>2, <2>4 DEF StartInv, N
  <1>5. CASE StartOpenFails
    <2>1. idx \in 0..(uint16 - 1)
      BY <1>1 DEF StartInv
    <2>2. Retried(idx) = idx
      BY Zenon, <2>1, RetriedSame
    <2> QED
      BY Zenon, <1>5, <2>2 DEF StartOpenFails, StartInv
  <1>6. CASE UNCHANGED startVars
    BY ZenonT(40), <1>6 DEF startVars, StartInv
  <1>7. \/ \E s \in Streams : StartOpen(s)
        \/ \E b \in BatcherIds : StartStore(b)
        \/ StartOpenFails
        \/ UNCHANGED startVars
    BY Zenon DEF Next, ReaderLoad, Flush, FrameRead, ReadFails, GetStream, SenderLoad, BatcherWrite,
       DirectWrite, DirectWriteFails, DirectWriteCut, SenderStore, Close, Finished, vars
  <1> QED
    BY Zenon, <1>3, <1>4, <1>5, <1>6, <1>7

\* start ends with all its streams open, for every count that a uint16 can hold.
THEOREM StartOpensAll == Spec => []AllStreamsOpened
  <1>1. StartInv => AllStreamsOpened
    <2> SUFFICES ASSUME StartInv, idx = Cardinality(Streams) PROVE opened = Streams
      BY Zenon DEF AllStreamsOpened
    <2>1. /\ opened \subseteq Streams
          /\ Cardinality(opened) \in Nat /\ Cardinality(opened) <= Cardinality(Streams)
          /\ Cardinality(Streams) \in Nat
      BY Zenon, FS_Subset, FS_CardinalityType, StreamsAssumption DEF StartInv
    <2>2. Cardinality(opened) = Cardinality(Streams)
      BY <2>1 DEF StartInv
    <2> QED
      BY Zenon, <2>1, <2>2, FS_Subset, StreamsAssumption
  <1> QED
    BY StartInit, StartNext, <1>1, PTL DEF Spec

\* The types of the multiplexer.
THEOREM MultiplexerTypes == Spec => []TypeOK
  <1> DEFINE Rest == closed \subseteq Streams /\ mclosed \in BOOLEAN
  <1>1. Init => Rest
    BY Zenon DEF Init
  <1>2. SendInv /\ Rest /\ [Next]_vars => Rest'
    BY Zenon DEF SendInv, SendTypes, Next, StartOpen, ReaderLoad, Flush, FrameRead, ReadFails,
       StartOpenFails, StartStore, StoreNewBatcher, GetStream, SenderLoad, BatcherWrite,
       DirectWrite, DirectWriteFails, DirectWriteCut, SenderStore, Close, Finished, closeVars, vars
  <1>3. SendInv /\ OwnBatcher /\ StartInv /\ Rest => TypeOK
    BY Zenon DEF SendInv, SendTypes, OwnBatcher, StartInv, Part, TypeOK
  <1> HIDE DEF Rest
  <1> QED
    BY SendInit, OwnNext, SendNext, StartInit, StartNext, <1>1, <1>2, <1>3, PTL DEF Spec

================================================================================
