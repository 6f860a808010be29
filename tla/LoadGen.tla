-------------------------------- MODULE LoadGen --------------------------------
(***************************************************************************)
(* The load generator of the stress tester (loader.go:63-257) with the     *)
(* collector it feeds.  A benchmark process makes one generator after the  *)
(* other; generator number gen is the current one.  Its main goroutine     *)
(* goes through Start, Warmup and Run, while the workers' inner goroutines *)
(* (Loops) call the server and record samples.                             *)
(*                                                                         *)
(* Run does not wait for the loops: it cancels the ctx that it then        *)
(* selects on.  So loops of earlier generators can still have a call open, *)
(* and record into a collector that nobody will read.                      *)
(***************************************************************************)
EXTENDS Collector

CONSTANTS
    Loops,          \* workers times pipelining: goroutines in workerLoop
    Attempts,       \* cfg.RetryAttempts, or 1
    Latencies,      \* latencies a call may have
    MaxGens,        \* generators in one process: the longest list of profiles
    MaxCalls        \* bound: calls of one loop, for each generator

\* initClient makes at least one attempt.
ASSUME AttemptsAssumption == Attempts \in Nat \ {0}
ASSUME BoundsAssumption == MaxGens \in Nat /\ MaxCalls \in [1..MaxGens -> Nat]

VARIABLES
    interrupted,    \* the process's ctx was cancelled
    gen,            \* number of the current generator
    lgpc,           \* where its main goroutine is
    attempt,        \* failed attempts of initClient
    cancelled,      \* generators whose lg.cancel was called
    collecting,     \* lg.collecting
    samples,        \* samples of its collector
    at,             \* where each loop of each generator is
    calls,          \* calls each loop has started
    pending         \* the sample a loop is about to record

genVars == <<gen, lgpc, attempt, cancelled, collecting>>
loopVars == <<at, calls, pending>>
lgVars == <<interrupted, genVars, samples, loopVars>>

Gens == 1..MaxGens

\* Where a loop can be.
Points == {"none", "top", "payload", "call", "record", "gone"}

Good(l) == [ok |-> TRUE, why |-> "", lat |-> l]
Bad(why) == [ok |-> FALSE, why |-> why, lat |-> 0]
Samples == {Good(l) : l \in Latencies} \cup {Bad("failed"), Bad("ctx")}

LoadGenTypeOK ==
    /\ interrupted \in BOOLEAN
    /\ gen \in 0..MaxGens
    /\ lgpc \in {"off", "dial", "backoff", "warmup", "run", "cancel", "stop", "over", "failed"}
    /\ attempt \in 0..Attempts
    /\ cancelled \subseteq Gens
    /\ collecting \in BOOLEAN
    /\ samples \in Seq(Samples)
    /\ at \in [Gens -> [Loops -> Points]]
    /\ \A g \in Gens : calls[g] \in [Loops -> 0..MaxCalls[g]]
    /\ pending \in [Gens -> [Loops -> Samples]]

\* A process that has made no generator.
LoadGenInit ==
    /\ interrupted = FALSE
    /\ gen = 0
    /\ lgpc = "off"
    /\ attempt = 0
    /\ cancelled = {}
    /\ collecting = FALSE
    /\ samples = <<>>
    /\ at = [g \in Gens |-> [l \in Loops |-> "none"]]
    /\ calls = [g \in Gens |-> [l \in Loops |-> 0]]
    /\ pending = [g \in Gens |-> [l \in Loops |-> Bad("failed")]]

\* The same, as a step: the process ends, and its goroutines with it.
ProcessEnds ==
    /\ interrupted' = FALSE
    /\ gen' = 0
    /\ lgpc' = "off"
    /\ attempt' = 0
    /\ cancelled' = {}
    /\ collecting' = FALSE
    /\ samples' = <<>>
    /\ at' = [g \in Gens |-> [l \in Loops |-> "none"]]
    /\ calls' = [g \in Gens |-> [l \in Loops |-> 0]]
    /\ pending' = [g \in Gens |-> [l \in Loops |-> Bad("failed")]]

\* lg.ctx of generator g, derived from the process's ctx, is done.
CtxDone(g) == interrupted \/ g \in cancelled

--------------------------------------------------------------------------------
(* The main goroutine: Start, Warmup, Run                                   *)

\* metrics.NewCollector, loader.New and the beginning of Start.
NewGenerator ==
    /\ gen < MaxGens
    /\ gen' = gen + 1
    /\ lgpc' = "dial"
    /\ attempt' = 0
    /\ collecting' = FALSE
    /\ samples' = <<>>
    /\ UNCHANGED <<interrupted, cancelled, loopVars>>

\* tryInitClient gives a client; the workers are started.
ClientReady ==
    /\ lgpc = "dial"
    /\ lgpc' = "warmup"
    /\ at' = [at EXCEPT ![gen] = [l \in Loops |-> "top"]]
    /\ UNCHANGED <<interrupted, gen, attempt, cancelled, collecting, samples, calls, pending>>

\* Mutation of ClientFails: one attempt too many.
ClientFailsOffByOne ==
    /\ lgpc = "dial"
    /\ attempt' = attempt + 1
    /\ lgpc' = IF attempt < Attempts THEN "backoff" ELSE "failed"
    /\ UNCHANGED <<interrupted, gen, cancelled, collecting, samples, loopVars>>

\* tryInitClient fails (the connections it dialled are closed again): another
\* attempt after a delay, or, after the last one, Start returns the error.
ClientFails ==
    /\ lgpc = "dial"
    /\ attempt' = attempt + 1
    /\ lgpc' = IF attempt + 1 < Attempts THEN "backoff" ELSE "failed"
    /\ UNCHANGED <<interrupted, gen, cancelled, collecting, samples, loopVars>>

\* The delay before the next attempt passes, or the ctx is done first.
Backoff ==
    /\ lgpc = "backoff"
    /\ lgpc' \in {"dial"} \cup (IF interrupted THEN {"failed"} ELSE {})
    /\ UNCHANGED <<interrupted, gen, attempt, cancelled, collecting, samples, loopVars>>

\* The time of Warmup is over, or the ctx is done: either starts the
\* collection.
Warmup ==
    /\ lgpc = "warmup"
    /\ collecting' = TRUE
    /\ lgpc' = "run"
    /\ UNCHANGED <<interrupted, gen, attempt, cancelled, samples, loopVars>>

\* Mutation of StopCollecting: the flag is left on.
StopCollectingForgotten ==
    /\ lgpc = "run"
    /\ lgpc' = "cancel"
    /\ UNCHANGED <<interrupted, gen, attempt, cancelled, collecting, samples, loopVars>>

\* Run: the time is over or the ctx is done, up to collecting.Store(false) ...
StopCollecting ==
    /\ lgpc = "run"
    /\ collecting' = FALSE
    /\ lgpc' = "cancel"
    /\ UNCHANGED <<interrupted, gen, attempt, cancelled, samples, loopVars>>

\* Mutation of Cancel: Run returns and leaves its loops alone.
CancelForgotten ==
    /\ lgpc = "cancel"
    /\ lgpc' = "over"
    /\ UNCHANGED <<interrupted, gen, attempt, cancelled, collecting, samples, loopVars>>

\* ... lg.cancel() ...
Cancel ==
    /\ lgpc = "cancel"
    /\ cancelled' = cancelled \cup {gen}
    /\ lgpc' = "stop"
    /\ UNCHANGED <<interrupted, gen, attempt, collecting, samples, loopVars>>

\* Mutation of RunReturns: Run really waits for its loops.
RunWaitsForLoops ==
    /\ lgpc = "stop"
    /\ \A l \in Loops : at[gen][l] = "gone"
    /\ lgpc' = "over"
    /\ UNCHANGED <<interrupted, gen, attempt, cancelled, collecting, samples, loopVars>>

\* ... and the wait for the workers, which lg.ctx.Done() ends at once.
RunReturns ==
    /\ lgpc = "stop"
    /\ \/ \A l \in Loops : at[gen][l] = "gone"
       \/ CtxDone(gen)
    /\ lgpc' = "over"
    /\ UNCHANGED <<interrupted, gen, attempt, cancelled, collecting, samples, loopVars>>

\* After the report nobody looks at the generator and its collector any more.
Discard ==
    /\ lgpc' = "off"
    /\ attempt' = 0
    /\ samples' = <<>>
    /\ UNCHANGED <<interrupted, gen, cancelled, collecting, loopVars>>

GeneratorStep ==
    \/ ClientReady
    \/ ClientFails
    \/ Backoff
    \/ Warmup
    \/ StopCollecting
    \/ Cancel
    \/ RunReturns

--------------------------------------------------------------------------------
(* workerLoop of loop l of generator g                                      *)

\* The ctx is done: the goroutine returns.
LoopReturns(g, l) ==
    /\ at[g][l] = "top"
    /\ CtxDone(g)
    /\ at' = [at EXCEPT ![g][l] = "gone"]
    /\ UNCHANGED <<interrupted, genVars, samples, calls, pending>>

\* The ctx is not done: the loop goes on to make its payload ...
NextPayload(g, l) ==
    /\ at[g][l] = "top"
    /\ ~CtxDone(g)
    /\ calls[g][l] < MaxCalls[g]
    /\ at' = [at EXCEPT ![g][l] = "payload"]
    /\ UNCHANGED <<interrupted, genVars, samples, calls, pending>>

\* ... and calls the server, which looks at no ctx before it writes.
SendRequest(g, l) ==
    /\ at[g][l] = "payload"
    /\ at' = [at EXCEPT ![g][l] = "call"]
    /\ calls' = [calls EXCEPT ![g][l] = @ + 1]
    /\ UNCHANGED <<interrupted, genVars, samples, pending>>

\* What SendRequest may return: a response, an error or another code than 200,
\* and once the ctx is done also the ctx's error.
Results(g) == (Samples \ {Bad("ctx")}) \cup (IF CtxDone(g) THEN {Bad("ctx")} ELSE {})

\* SendRequest returns.  Unless the generator is collecting, that is all.
CallReturns(g, l) ==
    /\ at[g][l] = "call"
    /\ IF g = gen /\ collecting
         THEN /\ at' = [at EXCEPT ![g][l] = "record"]
              /\ \E s \in Results(g) : pending' = [pending EXCEPT ![g][l] = s]
         ELSE /\ at' = [at EXCEPT ![g][l] = "top"]
              /\ UNCHANGED pending
    /\ UNCHANGED <<interrupted, genVars, samples, calls>>

\* Collector.Record.  A collector that has made its report is garbage.
Record(g, l) ==
    /\ at[g][l] = "record"
    /\ at' = [at EXCEPT ![g][l] = "top"]
    /\ samples' = IF g = gen /\ lgpc # "off" THEN Append(samples, pending[g][l]) ELSE samples
    /\ pending' = [pending EXCEPT ![g][l] = Bad("failed")]
    /\ UNCHANGED <<interrupted, genVars, calls>>

LoopAction(g, l) ==
    LoopReturns(g, l) \/ NextPayload(g, l) \/ SendRequest(g, l) \/ CallReturns(g, l) \/ Record(g, l)

LoopStep == \E g \in 1..gen, l \in Loops : LoopAction(g, l)

--------------------------------------------------------------------------------
\* loader.go:153-154, collecting off before cancel: unless a signal interrupted
\* the process, no sample is the error of a call that Run itself cut off, however
\* late a loop records it.
NoOwnCancelError ==
    ~interrupted => \A n \in DOMAIN samples : samples[n].why # "ctx"

\* The calls a loop has made, with the one it is bound to make: it has passed the
\* check of its ctx and will not look again.
Committed(g, l) == calls[g][l] + (IF at[g][l] = "payload" THEN 1 ELSE 0)

\* loader.go:154 and 194-205: once a later generator has begun to dial, no loop
\* binds itself to another call, though Run never waited for the loops and nobody
\* closed the client.  What an old loop still does beside a measurement is the one
\* call that is open or that follows a check of the ctx before the cancel.
NoOldLoad ==
    [][\A g \in 1..(gen - 1), l \in Loops : Committed(g, l)' <= Committed(g, l)]_lgVars
================================================================================
