-------------------------------- MODULE Balancer --------------------------------
(***************************************************************************)
(* The stream balancer, transport/quic/balancer.go: a copy-on-write list   *)
(* of streams behind an atomic pointer, a uint32 ticket counter, and a     *)
(* mutex taken by AddStream and Reset but not by GetStream.  Each action   *)
(* is one atomic access to the shared state; a process is a goroutine that *)
(* runs one operation at a time.                                           *)
(***************************************************************************)
EXTENDS Integers, Sequences, FiniteSets, Functions

CONSTANTS
    Procs,      \* goroutines using the balancer
    Streams,    \* QUIC streams; each is added at most once
    CounterMod, \* number of values of the counter (2^32 in the code)
    Window,     \* number of picks remembered
    NoProc      \* the mutex is free

ASSUME CounterModAssumption == CounterMod \in Nat \ {0}
ASSUME WindowAssumption == Window \in Nat \ {0}
ASSUME NoProcAssumption == NoProc \notin Procs

VARIABLES
    snapshot,   \* the published list of streams
    counter,    \* the ticket counter
    mutex,      \* the process inside AddStream or Reset, or NoProc
    pc,         \* what each process is doing
    local,      \* the list a process has loaded, or still has to close
    opened,     \* streams that some AddStream was called with
    closed,     \* streams that were closed
    picks       \* what the latest tickets since the last Reset were used for

vars == <<snapshot, counter, mutex, pc, local, opened, closed, picks>>

PCs == {"idle", "get", "add", "zeroed", "closing"}

\* A pick: the list it was made from, the ticket and the stream taken.
Pick == [from : Seq(Streams), ticket : 0..(CounterMod - 1), stream : Streams]

\* The types of BalancerImpl (balancer.go:21-25) and of the operations' locals.
TypeOK ==
    /\ snapshot \in Seq(Streams)
    /\ counter \in 0..(CounterMod - 1)
    /\ mutex \in Procs \cup {NoProc}
    /\ pc \in [Procs -> PCs]
    /\ local \in [Procs -> Seq(Streams)]
    /\ opened \subseteq Streams
    /\ closed \subseteq Streams
    /\ picks \in Seq(Pick)

Init ==
    /\ snapshot = <<>>
    /\ counter = 0
    /\ mutex = NoProc
    /\ pc = [p \in Procs |-> "idle"]
    /\ local = [p \in Procs |-> <<>>]
    /\ opened = {}
    /\ closed = {}
    /\ picks = <<>>

--------------------------------------------------------------------------------

Goto(p, from, to) ==
    /\ pc[p] = from
    /\ pc' = [pc EXCEPT ![p] = to]

\* The latest Window picks are kept.
Remember(pick) ==
    picks' = IF Len(picks) < Window THEN Append(picks, pick)
                                    ELSE Append(Tail(picks), pick)

\* GetStream, the load: an empty list is an error and the operation is over.
GetLoad(p) ==
    /\ Goto(p, "idle", IF snapshot = <<>> THEN "idle" ELSE "get")
    /\ local' = [local EXCEPT ![p] = snapshot]
    /\ UNCHANGED <<snapshot, counter, mutex, opened, closed, picks>>

\* Mutation of GetPick: the counter is read and written in two halves, and the
\* second half is lost to another goroutine.
GetPickLostTicket(p) ==
    /\ Goto(p, "get", "idle")
    /\ \E c \in {counter, (counter + 1) % CounterMod} : counter' = c
    /\ Remember([from |-> local[p], ticket |-> counter,
                 stream |-> local[p][(counter % Len(local[p])) + 1]])
    /\ UNCHANGED <<snapshot, mutex, local, opened, closed>>

\* GetStream, the ticket: counter.Add(1) - 1 indexes the list loaded before.
GetPick(p) ==
    /\ Goto(p, "get", "idle")
    /\ counter' = (counter + 1) % CounterMod
    /\ Remember([from |-> local[p], ticket |-> counter,
                 stream |-> local[p][(counter % Len(local[p])) + 1]])
    /\ UNCHANGED <<snapshot, mutex, local, opened, closed>>

\* Mutation of AddLoad: no mutex.
AddLoadUnlocked(p, s) ==
    /\ s \notin opened
    /\ Goto(p, "idle", "add")
    /\ opened' = opened \cup {s}
    /\ local' = [local EXCEPT ![p] = Append(snapshot, s)]
    /\ UNCHANGED <<snapshot, counter, mutex, closed, picks>>

\* Mutation of AddLoad: the copy is made with n+2 elements, and ends with a nil.
AddLoadTooLong(p, s) ==
    /\ mutex = NoProc
    /\ s \notin opened
    /\ Goto(p, "idle", "add")
    /\ mutex' = p
    /\ opened' = opened \cup {s}
    /\ local' = [local EXCEPT ![p] = snapshot \o <<s, "nil">>]
    /\ UNCHANGED <<snapshot, counter, closed, picks>>

\* AddStream under the mutex: the list is copied and extended ...
AddLoad(p, s) ==
    /\ mutex = NoProc
    /\ s \notin opened
    /\ Goto(p, "idle", "add")
    /\ mutex' = p
    /\ opened' = opened \cup {s}
    /\ local' = [local EXCEPT ![p] = Append(snapshot, s)]
    /\ UNCHANGED <<snapshot, counter, closed, picks>>

\* ... and published.
AddStore(p) ==
    /\ Goto(p, "add", "idle")
    /\ mutex' = NoProc
    /\ snapshot' = local[p]
    /\ local' = [local EXCEPT ![p] = <<>>]
    /\ UNCHANGED <<counter, opened, closed, picks>>

\* Reset under the mutex: counter.Store(0) ...
ResetCounter(p) ==
    /\ mutex = NoProc
    /\ Goto(p, "idle", "zeroed")
    /\ mutex' = p
    /\ counter' = 0
    /\ picks' = <<>>
    /\ UNCHANGED <<snapshot, local, opened, closed>>

\* Mutation of ResetSwap: the list is not replaced by an empty one.
ResetSwapKeeps(p) ==
    /\ Goto(p, "zeroed", "closing")
    /\ local' = [local EXCEPT ![p] = snapshot]
    /\ UNCHANGED <<snapshot, counter, mutex, opened, closed, picks>>

\* ... snapshot.Swap with an empty list ...
ResetSwap(p) ==
    /\ Goto(p, "zeroed", "closing")
    /\ local' = [local EXCEPT ![p] = snapshot]
    /\ snapshot' = <<>>
    /\ UNCHANGED <<counter, mutex, opened, closed, picks>>

\* ... and the old streams are closed one after the other.
ResetClose(p) ==
    /\ pc[p] = "closing"
    /\ local[p] # <<>>
    /\ closed' = closed \cup {Head(local[p])}
    /\ local' = [local EXCEPT ![p] = Tail(@)]
    /\ UNCHANGED <<snapshot, counter, mutex, pc, opened, picks>>

ResetDone(p) ==
    /\ local[p] = <<>>
    /\ Goto(p, "closing", "idle")
    /\ mutex' = NoProc
    /\ UNCHANGED <<snapshot, counter, local, opened, closed, picks>>

Next ==
    \E p \in Procs :
        \/ GetLoad(p)
        \/ GetPick(p)
        \/ \E s \in Streams : AddLoad(p, s)
        \/ AddStore(p)
        \/ ResetCounter(p)
        \/ ResetSwap(p)
        \/ ResetClose(p)
        \/ ResetDone(p)

Spec == Init /\ [][Next]_vars

--------------------------------------------------------------------------------
(* Properties                                                               *)

\* No stream is lost or leaked by concurrent AddStreams and Resets
\* (balancer.go:49-81): a stream given to AddStream is in the published list,
\* or closed, or in the hands of the one operation that holds the mutex and is
\* going to publish or close it.
NoStreamLost ==
    \A s \in opened :
        \/ s \in Range(snapshot)
        \/ s \in closed
        \/ /\ mutex # NoProc
           /\ pc[mutex] \in {"add", "closing"}
           /\ s \in Range(local[mutex])

\* Reset unpublishes the streams before it closes them (balancer.go:71-80): a
\* GetStream that loads the list never finds a closed stream in it.  (One that
\* loaded it before the Swap may still return one.)
NoClosedStreamPublished == Range(snapshot) \cap closed = {}

\* Round robin (balancer_test.go:158-184: "expected each stream once"): between
\* two Resets, any n tickets in a row spent on the same list of n streams hand
\* out n different streams, whichever goroutines drew them - also when the
\* counter overflows in between, provided n divides the number of its values.
RoundRobin ==
    \A i, j \in DOMAIN picks :
        LET n == Len(picks[i].from) IN
        (/\ i < j /\ j - i < n
         /\ picks[i].from = picks[j].from
         /\ picks[i].ticket < picks[j].ticket \/ CounterMod % n = 0)
            => picks[i].stream # picks[j].stream
================================================================================
