------------------------------ MODULE Multiplexer ------------------------------
(***************************************************************************)
(* The sending half of the multiplexer (multiplexer.go:61-116) and the     *)
(* write batcher (batcher.go).  The start goroutine opens the streams one  *)
(* by one; each gets a Batcher, kept in the sync.Map batchers, and a read  *)
(* cycle that flushes it before every read.  Senders take a stream from    *)
(* the balancer and write one frame through the stream's Batcher.          *)
(*                                                                         *)
(* GetBatcher creates a Batcher when it finds none, without regard for who *)
(* else is doing the same, so several Batchers of one stream can exist at  *)
(* once.  The balancer is the atomic list of published streams (module     *)
(* Balancer); a stream's Write is serialised by the QUIC library.          *)
(***************************************************************************)
EXTENDS Integers, Sequences, FiniteSets, Functions

CONSTANTS
    Streams,    \* the streams that start opens
    Senders,    \* callers of sendRequestInternal and sendEventInternal; each
                \* sends one frame, named after it
    BatcherIds, \* Batcher objects
    None        \* no stream, no batcher

ASSUME NoneAssumption == None \notin Streams \cup BatcherIds

VARIABLES
    idx,        \* the loop index of start, a uint16
    opening,    \* the stream start has added to the balancer, not yet stored
    published,  \* streams the balancer hands out
    opened,     \* streams opened so far
    batchers,   \* the sync.Map: stream -> its Batcher
    made,       \* Batchers created so far
    bstream,    \* b.stream of each Batcher
    buf,        \* b.buf of each Batcher
    written,    \* what was written to each stream, in order: frames, or the
                \* first part of one
    readerPc,   \* the read cycle of each stream
    readerB,    \* the Batcher it found or made
    pc, stream, batcher,    \* each sender's position and locals
    closed,     \* streams closed for writing
    mclosed     \* Close was called

startVars == <<idx, opening, opened>>
readerVars == <<readerPc, readerB>>
senderVars == <<pc, stream, batcher>>
closeVars == <<closed, mclosed>>
batcherVars == <<batchers, made, bstream>>
vars == <<startVars, published, batcherVars, buf, written, readerVars,
          senderVars, closeVars>>

\* A frame on the wire: whose it is and whether all of it was written.
Whole(p) == [from |-> p, whole |-> TRUE]
Cut(p) == [from |-> p, whole |-> FALSE]

\* The types of MultiplexerImpl, Batcher and the goroutines' locals.
TypeOK ==
    /\ idx \in 0..Cardinality(Streams)
    /\ opening \in Streams \cup {None}
    /\ published \subseteq Streams
    /\ opened \subseteq Streams
    /\ batchers \in [Streams -> BatcherIds \cup {None}]
    /\ made \subseteq BatcherIds
    /\ bstream \in [BatcherIds -> Streams \cup {None}]
    /\ buf \in [BatcherIds -> Seq(Senders)]
    /\ written \in [Streams -> Seq([from : Senders, whole : BOOLEAN])]
    /\ readerPc \in [Streams -> {"none", "load", "flush", "read", "over"}]
    /\ readerB \in [Streams -> BatcherIds \cup {None}]
    /\ pc \in [Senders -> {"idle", "load", "store", "write", "direct", "ok", "failed"}]
    /\ stream \in [Senders -> Streams \cup {None}]
    /\ batcher \in [Senders -> BatcherIds \cup {None}]
    /\ closed \subseteq Streams
    /\ mclosed \in BOOLEAN

Init ==
    /\ idx = 0
    /\ opening = None
    /\ published = {}
    /\ opened = {}
    /\ batchers = [s \in Streams |-> None]
    /\ made = {}
    /\ bstream = [b \in BatcherIds |-> None]
    /\ buf = [b \in BatcherIds |-> <<>>]
    /\ written = [s \in Streams |-> <<>>]
    /\ readerPc = [s \in Streams |-> "none"]
    /\ readerB = [s \in Streams |-> None]
    /\ pc = [p \in Senders |-> "idle"]
    /\ stream = [p \in Senders |-> None]
    /\ batcher = [p \in Senders |-> None]
    /\ closed = {}
    /\ mclosed = FALSE

\* Mutation of StoreNewBatcher: the key is stored as the value.
StoreNewBatcherSwapped(s, b) ==
    /\ b \notin made
    /\ made' = made \cup {b}
    /\ bstream' = [bstream EXCEPT ![b] = s]
    /\ batchers' = [batchers EXCEPT ![s] = s]

\* Mutation of StoreNewBatcher: the Batcher is made for the stream that start has
\* in hand, whichever stream asks for one.
StoreNewBatcherOfAnother(s, b) ==
    /\ b \notin made
    /\ made' = made \cup {b}
    /\ bstream' = [bstream EXCEPT ![b] = IF opening = None THEN s ELSE opening]
    /\ batchers' = [batchers EXCEPT ![s] = b]

\* NewBatcher(s) and batchers.Store(s, b).
StoreNewBatcher(s, b) ==
    /\ b \notin made
    /\ made' = made \cup {b}
    /\ bstream' = [bstream EXCEPT ![b] = s]
    /\ batchers' = [batchers EXCEPT ![s] = b]

--------------------------------------------------------------------------------
(* start                                                                    *)

uint16 == 65536

\* start is told how many streams to open, in a uint16.
ASSUME StreamsAssumption == IsFiniteSet(Streams) /\ Cardinality(Streams) < uint16

\* Mutation of Retried: a failed attempt uses up its index.
RetriedNot(i) == (i + 1) % uint16

\* The index after an attempt that failed: i-- wraps at 0, and i++ wraps back.
Retried(i) == (((i - 1) % uint16) + 1) % uint16

\* The loop runs.  It does not look whether the multiplexer was closed.
Starting == opening = None /\ idx < Cardinality(Streams)

\* OpenStream fails; start sleeps and tries again.
StartOpenFails ==
    /\ Starting
    /\ idx' = Retried(idx)
    /\ UNCHANGED <<opening, opened, published, batcherVars, buf, written, readerVars,
                   senderVars, closeVars>>

\* OpenStream succeeds and the stream goes to the balancer.
StartOpen(s) ==
    /\ Starting
    /\ s \notin opened
    /\ opened' = opened \cup {s}
    /\ opening' = s
    /\ published' = published \cup {s}
    /\ UNCHANGED <<idx, batcherVars, buf, written, readerVars, senderVars, closeVars>>

\* batchers.Store, which replaces a Batcher some sender may have stored since,
\* and go readCycle.
StartStore(b) ==
    /\ opening # None
    /\ StoreNewBatcher(opening, b)
    /\ readerPc' = [readerPc EXCEPT ![opening] = "load"]
    /\ opening' = None
    /\ idx' = (idx + 1) % uint16
    /\ UNCHANGED <<opened, published, buf, written, readerB, senderVars, closeVars>>

\* Close: the balancer is emptied and its streams are closed for writing.
Close ==
    /\ ~mclosed
    /\ mclosed' = TRUE
    /\ published' = {}
    /\ closed' = closed \cup published
    /\ UNCHANGED <<startVars, batcherVars, buf, written, readerVars, senderVars>>

--------------------------------------------------------------------------------
(* A sender                                                                 *)

Goto(p, from, to) ==
    /\ pc[p] = from
    /\ pc' = [pc EXCEPT ![p] = to]

\* GetStream: any published stream, or an error when there is none.
GetStream(p) ==
    /\ IF published = {}
         THEN Goto(p, "idle", "failed") /\ UNCHANGED stream
         ELSE /\ Goto(p, "idle", "load")
              /\ \E s \in published : stream' = [stream EXCEPT ![p] = s]
    /\ UNCHANGED <<startVars, published, batcherVars, buf, written, readerVars,
                   batcher, closeVars>>

\* GetBatcher: batchers.Load ...
SenderLoad(p) ==
    /\ Goto(p, "load", IF batchers[stream[p]] = None THEN "store" ELSE "write")
    /\ batcher' = [batcher EXCEPT ![p] = batchers[stream[p]]]
    /\ UNCHANGED <<startVars, published, batcherVars, buf, written, readerVars,
                   stream, closeVars>>

\* ... and, when it found nothing, a new Batcher is stored.
SenderStore(p, b) ==
    /\ Goto(p, "store", "write")
    /\ StoreNewBatcher(stream[p], b)
    /\ batcher' = [batcher EXCEPT ![p] = b]
    /\ UNCHANGED <<startVars, published, buf, written, readerVars, stream, closeVars>>

\* Mutation of BatcherWrite: an empty buffer starts a batch.
BatcherWriteBatches(p) ==
    /\ Goto(p, "write", "ok")
    /\ buf' = [buf EXCEPT ![batcher[p]] = Append(@, p)]
    /\ UNCHANGED <<startVars, published, batcherVars, written, readerVars, stream,
                   batcher, closeVars>>

\* Batcher.Write under its mutex: an empty buffer means a direct write, a
\* non-empty one takes the frame, and the caller is told it was written.
BatcherWrite(p) ==
    /\ pc[p] = "write"
    /\ IF buf[batcher[p]] = <<>>
         THEN Goto(p, "write", "direct") /\ UNCHANGED buf
         ELSE /\ Goto(p, "write", "ok")
              /\ buf' = [buf EXCEPT ![batcher[p]] = Append(@, p)]
    /\ UNCHANGED <<startVars, published, batcherVars, written, readerVars, stream,
                   batcher, closeVars>>

\* The direct write to the Batcher's stream, after the mutex was released.
DirectWrite(p) ==
    /\ Goto(p, "direct", "ok")
    /\ bstream[batcher[p]] \notin closed
    /\ written' = [written EXCEPT ![bstream[batcher[p]]] = Append(@, Whole(p))]
    /\ UNCHANGED <<startVars, published, batcherVars, buf, readerVars, stream,
                   batcher, closeVars>>

\* The stream refuses it: closed, or its connection is gone.
DirectWriteFails(p) ==
    /\ Goto(p, "direct", "failed")
    /\ UNCHANGED <<startVars, published, batcherVars, buf, written, readerVars,
                   stream, batcher, closeVars>>

\* The deadline set by the sender, or by the next one on the same stream, passes
\* when part of the frame is out.  The stream stays open and in the balancer.
DirectWriteCut(p) ==
    /\ Goto(p, "direct", "failed")
    /\ bstream[batcher[p]] \notin closed
    /\ written' = [written EXCEPT ![bstream[batcher[p]]] = Append(@, Cut(p))]
    /\ UNCHANGED <<startVars, published, batcherVars, buf, readerVars, stream,
                   batcher, closeVars>>

--------------------------------------------------------------------------------
(* The read cycle of stream s                                               *)

ReaderGoto(s, from, to) ==
    /\ readerPc[s] = from
    /\ readerPc' = [readerPc EXCEPT ![s] = to]

\* m.GetBatcher(s): start stored a Batcher before it started the cycle, and
\* only the cycle itself deletes the entry, so there always is one.
ReaderLoad(s) ==
    /\ ReaderGoto(s, "load", "flush")
    /\ batchers[s] # None
    /\ readerB' = [readerB EXCEPT ![s] = batchers[s]]
    /\ UNCHANGED <<startVars, published, batcherVars, buf, written, senderVars,
                   closeVars>>

\* Flush: the buffer, if not empty, is taken and written to the Batcher's stream.
Flush(s) ==
    /\ ReaderGoto(s, "flush", "read")
    /\ LET frames == buf[readerB[s]] IN
       written' = [written EXCEPT ![bstream[readerB[s]]] = @ \o [i \in DOMAIN frames |-> Whole(frames[i])]]
    /\ buf' = [buf EXCEPT ![readerB[s]] = <<>>]
    /\ UNCHANGED <<startVars, published, batcherVars, readerB, senderVars, closeVars>>

\* A frame was read and handled (ClientCalls) and the loop starts again.
FrameRead(s) ==
    /\ ReaderGoto(s, "read", "load")
    /\ UNCHANGED <<startVars, published, batcherVars, buf, written, readerB,
                   senderVars, closeVars>>

\* A read fails: the cycle returns and its deferred batchers.Delete runs.  The
\* stream stays in the balancer.
ReadFails(s) ==
    /\ ReaderGoto(s, "read", "over")
    /\ batchers' = [batchers EXCEPT ![s] = None]
    /\ UNCHANGED <<startVars, published, made, bstream, buf, written, readerB, senderVars,
                   closeVars>>

--------------------------------------------------------------------------------

\* Every sender is done and every read cycle over.
Finished ==
    /\ \A p \in Senders : pc[p] \in {"ok", "failed"}
    /\ opened = Streams /\ opening = None /\ mclosed
    /\ \A s \in Streams : readerPc[s] = "over"
    /\ UNCHANGED vars

Next ==
    \/ \E s \in Streams :
         \/ StartOpen(s)
         \/ ReaderLoad(s)
         \/ Flush(s)
         \/ FrameRead(s)
         \/ ReadFails(s)
    \/ StartOpenFails
    \/ \E b \in BatcherIds : StartStore(b)
    \/ \E p \in Senders :
         \/ GetStream(p)
         \/ SenderLoad(p)
         \/ BatcherWrite(p)
         \/ DirectWrite(p)
         \/ DirectWriteFails(p)
         \/ DirectWriteCut(p)
         \/ \E b \in BatcherIds : SenderStore(p, b)
    \/ Close
    \/ Finished

Spec == Init /\ [][Next]_vars

--------------------------------------------------------------------------------
(* Properties                                                               *)

\* Where p's frame is on stream s, whole.
Copies(p, s) == {i \in DOMAIN written[s] : written[s][i] = Whole(p)}

\* A sender that was told its frame is written (batcher.go:31-49) has its frame
\* on the stream it picked, exactly once: no frame stays behind in the buffer
\* of a Batcher that was replaced in the map, or whose stream no read cycle
\* flushes any more, or that nobody flushes while the read cycle waits.
AcceptedIsWritten ==
    \A p \in Senders : pc[p] = "ok" => Cardinality(Copies(p, stream[p])) = 1

\* A whole frame is on a stream only if its sender picked that stream and was told
\* that the write succeeded: the Batcher it found in the map, made by start or by
\* another sender (multiplexer.go:73, 81-89), writes to no other stream
\* (batcher.go:42, 66).
OnlyPickedStream ==
    \A s \in Streams : \A p \in Senders :
        Copies(p, s) # {} => stream[p] = s /\ pc[p] = "ok"

\* multiplexer.go:61-79: when the loop of start is over every stream it was asked
\* for is open, however often OpenStream failed, although a failure takes the
\* unsigned index back past 0.
AllStreamsOpened == idx = Cardinality(Streams) => opened = Streams

\* README.md:102-120: what goes over a stream is a sequence of frames, so no
\* accepted frame comes after a part of another one.
AcceptedIsFramed ==
    \A s \in Streams : \A i, j \in DOMAIN written[s] :
        i < j /\ written[s][j].whole => written[s][i].whole
================================================================================
