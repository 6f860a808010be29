--------------------------------- MODULE Bench ---------------------------------
(***************************************************************************)
(* One process `stress_test run`: the main goroutine of runBenchmark with  *)
(* the runner (runner.go) and the network emulation (netem.go), the        *)
(* goroutine that handles signals, and the load generators of LoadGen.     *)
(*                                                                         *)
(* The emulation is the root qdisc of an interface, which belongs to the   *)
(* machine: it outlives the process, other programs add theirs, and every  *)
(* tc command is a program that may fail.                                  *)
(***************************************************************************)
EXTENDS LoadGen

CONSTANTS
    Profiles,       \* keys of config.DefaultProfiles
    MaxOthers       \* bound: qdiscs that other programs add

VARIABLES
    bpc,            \* where the main goroutine is; "none" if no process runs
    cmd,            \* its arguments: profiles, conns, payload and scenario
    i,              \* index of the profile RunScenario is at
    sig,            \* the goroutine that waits for signals
    qdisc,          \* the root qdisc of the interface
    applied,        \* Apply returned nil
    others,         \* qdiscs added by other programs
    report,         \* the report of the profile
    files,          \* the readable bench_*.json files: name, and whether this session wrote it
    reported        \* history: names of the non-empty reports saved, and not lost since

fileVars == <<files, reported>>
benchVars == <<bpc, cmd, i, sig, qdisc, applied, others, report, fileVars>>

NoQdisc == "no qdisc"
OtherQdisc == "other"

\* Only Apply adds a qdisc that is a profile's.
ASSUME ProfilesAssumption == Profiles \cap {NoQdisc, OtherQdisc} = {}
ASSUME OthersAssumption == MaxOthers \in Nat

NoReport == [total |-> -1]
NoCommand == [scenario |-> "", profiles |-> <<>>, system |-> "", conns |-> 0, payload |-> 0]
Profile == cmd.profiles[i]

BenchTypeOK ==
    /\ LoadGenTypeOK
    /\ bpc \in {"none", "check", "clean", "add", "clean again", "add again", "load",
                "measure", "save", "undo", "final"}
    /\ i \in 0..(Len(cmd.profiles) + 1)
    /\ sig \in {"waiting", "armed", "over"}
    /\ qdisc \in Profiles \cup {NoQdisc, OtherQdisc}
    /\ applied \in BOOLEAN
    /\ others \in 0..MaxOthers

BenchInit ==
    /\ LoadGenInit
    /\ bpc = "none"
    /\ cmd = NoCommand
    /\ i = 0
    /\ sig = "waiting"
    /\ qdisc = NoQdisc
    /\ applied = FALSE
    /\ others = 0
    /\ report = NoReport
    /\ reported = {}

\* The name SaveJSON makes of a report r for profile p of command c.
FileName(c, p, r) == [scenario |-> c.scenario, profile |-> p, system |-> c.system,
                      conns |-> r.conns, payload |-> r.payload]

NameOf(r) == FileName(cmd, Profile, r)

\* The files after that of report r was truncated and nothing written to it.
Truncated(r) == {f \in files : f.name # NameOf(r)}

--------------------------------------------------------------------------------
(* The process                                                              *)

\* runBenchmark up to RunScenario; os.Exit(1) if a profile is unknown.
StartProcess(c) ==
    /\ bpc = "none"
    /\ IF Range(c.profiles) \subseteq Profiles
         THEN bpc' = "check" /\ cmd' = c /\ i' = 1
         ELSE UNCHANGED <<bpc, cmd, i>>
    /\ UNCHANGED <<lgVars, sig, qdisc, applied, others, report, fileVars>>

\* The process is gone, and with it everything but the files and the qdisc.
Exit ==
    /\ bpc' = "none"
    /\ cmd' = NoCommand
    /\ i' = 0
    /\ sig' = "waiting"
    /\ applied' = FALSE
    /\ report' = NoReport
    /\ ProcessEnds

\* The first signal cancels the ctx ...
FirstSignal ==
    /\ bpc # "none"
    /\ sig = "waiting"
    /\ sig' = "armed"
    /\ interrupted' = TRUE
    /\ UNCHANGED <<genVars, samples, loopVars, bpc, cmd, i, qdisc, applied, others, report, fileVars>>

\* ... a second one within three seconds ends the process, wherever it is ...
SecondSignal ==
    /\ sig = "armed"
    /\ Exit
    /\ \/ UNCHANGED fileVars
       \/ bpc = "save" /\ files' = Truncated(report) /\ reported' = reported \ {NameOf(report)}
    /\ UNCHANGED <<qdisc, others>>

\* ... and after three seconds nobody listens any more.
SignalsOver ==
    /\ sig = "armed"
    /\ sig' = "over"
    /\ UNCHANGED <<lgVars, bpc, cmd, i, qdisc, applied, others, report, fileVars>>
--------------------------------------------------------------------------------
(* tc                                                                       *)

\* `tc qdisc del` succeeds; Clean also takes a missing qdisc for a success.
TcDel == qdisc' = NoQdisc

\* `tc qdisc add` for the current profile: only if there is no root qdisc yet.
TcAdd == qdisc = NoQdisc /\ qdisc' = Profile

\* A tc command fails (no permission, no tc) and changes nothing.
TcFails == UNCHANGED qdisc

\* Another program adds a root qdisc of its own.
OtherAdds ==
    /\ others < MaxOthers
    /\ qdisc = NoQdisc
    /\ others' = others + 1
    /\ qdisc' = OtherQdisc
    /\ UNCHANGED <<lgVars, bpc, cmd, i, sig, applied, report, fileVars>>

--------------------------------------------------------------------------------
(* RunScenario and runSingle                                                *)

\* What the steps below leave alone, unless they say otherwise.
RestUnchanged == UNCHANGED <<lgVars, cmd, i, sig, others, report, fileVars>>

\* The top of the loop over the profiles.
NextProfile ==
    /\ bpc = "check"
    /\ i <= Len(cmd.profiles) => ~interrupted
    /\ bpc' = IF i <= Len(cmd.profiles) THEN "clean" ELSE "final"
    /\ UNCHANGED <<qdisc, applied>>
    /\ RestUnchanged

\* The ctx is done there: RunScenario returns its error, log.Fatalf.
Interrupted ==
    /\ bpc = "check"
    /\ i <= Len(cmd.profiles)
    /\ interrupted
    /\ Exit
    /\ UNCHANGED <<qdisc, others, fileVars>>

\* Apply returns an error, which runSingle only logs.
NotApplied == TcFails /\ applied' = FALSE /\ bpc' = "load"

\* Apply: Clean first.
ApplyClean ==
    /\ bpc = "clean"
    /\ \/ TcDel /\ bpc' = "add" /\ UNCHANGED applied
       \/ NotApplied
    /\ RestUnchanged

\* Mutation of ApplyAdd: "File exists" is taken for a success.
ApplyAddIgnoresConflict ==
    /\ bpc = "add"
    /\ \/ TcAdd /\ applied' = TRUE /\ bpc' = "load"
       \/ qdisc # NoQdisc /\ applied' = TRUE /\ bpc' = "load" /\ UNCHANGED qdisc
       \/ NotApplied
    /\ RestUnchanged

\* Apply: the add, which finds that there is a root qdisc again ("File exists").
ApplyAdd ==
    /\ bpc = "add"
    /\ \/ TcAdd /\ applied' = TRUE /\ bpc' = "load"
       \/ qdisc # NoQdisc /\ bpc' = "clean again" /\ UNCHANGED <<qdisc, applied>>
       \/ NotApplied
    /\ RestUnchanged

\* Apply: Clean after the conflict ...
ApplyCleanAgain ==
    /\ bpc = "clean again"
    /\ \/ TcDel /\ bpc' = "add again" /\ UNCHANGED applied
       \/ NotApplied
    /\ RestUnchanged

\* ... and the only retry.
ApplyAddAgain ==
    /\ bpc = "add again"
    /\ \/ TcAdd /\ applied' = TRUE /\ bpc' = "load"
       \/ NotApplied
    /\ RestUnchanged

\* NewCollector, loader.New, Start.
StartLoad ==
    /\ bpc = "load"
    /\ NewGenerator
    /\ bpc' = "measure"
    /\ UNCHANGED <<cmd, i, sig, qdisc, applied, others, report, fileVars>>

\* Start, Warmup and Run of the generator.
Generate ==
    /\ bpc = "measure"
    /\ GeneratorStep
    /\ UNCHANGED benchVars

\* Run has returned: the report.
TakeReport ==
    /\ bpc = "measure"
    /\ lgpc = "over"
    /\ report' = Report(samples, cmd.conns, cmd.payload)
    /\ bpc' = "save"
    /\ Discard
    /\ UNCHANGED <<cmd, i, sig, qdisc, applied, others, fileVars>>

\* Start has failed: runSingle returns, with the deferred Clean to come.
LoadFailed ==
    /\ bpc = "measure"
    /\ lgpc = "failed"
    /\ bpc' = "undo"
    /\ UNCHANGED <<qdisc, applied>>
    /\ RestUnchanged

\* Mutation of Written: an existing file is kept.
WrittenOnce(r) ==
    IF \E f \in files : f.name = NameOf(r)
      THEN files
      ELSE files \cup {[name |-> NameOf(r), fresh |-> TRUE]}

\* The files after os.WriteFile of report r.
Written(r) ==
    Truncated(r) \cup {[name |-> NameOf(r), fresh |-> TRUE]}

\* SaveJSON writes the report, or fails, before or after it has truncated an old
\* file.  Either way runSingle goes on, and the qdisc stays for the next Apply or
\* the final Clean.
Save ==
    /\ bpc = "save"
    /\ \/ /\ files' = Written(report)
          /\ reported' = reported \cup (IF report.total > 0 THEN {NameOf(report)} ELSE {})
       \/ UNCHANGED fileVars
       \/ files' = Truncated(report) /\ reported' = reported \ {NameOf(report)}
    /\ report' = NoReport
    /\ i' = i + 1
    /\ bpc' = "check"
    /\ UNCHANGED <<lgVars, cmd, sig, qdisc, applied, others>>

\* The deferred Clean of a runSingle that failed.
Undo ==
    /\ bpc = "undo"
    /\ TcDel \/ TcFails
    /\ i' = i + 1
    /\ bpc' = "check"
    /\ UNCHANGED <<lgVars, cmd, sig, applied, others, report, fileVars>>

\* The Clean at the end of RunScenario; the process ends.
FinalClean ==
    /\ bpc = "final"
    /\ TcDel \/ TcFails
    /\ Exit
    /\ UNCHANGED <<others, fileVars>>

MainStep ==
    \/ NextProfile
    \/ Interrupted
    \/ ApplyClean
    \/ ApplyAdd
    \/ ApplyCleanAgain
    \/ ApplyAddAgain
    \/ StartLoad
    \/ Generate
    \/ TakeReport
    \/ LoadFailed
    \/ Save
    \/ Undo
    \/ FinalClean

\* A step of a load loop.
LoadStep == LoopStep /\ UNCHANGED benchVars

SignalStep == FirstSignal \/ SecondSignal \/ SignalsOver

--------------------------------------------------------------------------------
\* netem.go:22-66: while a profile that Apply reported as applied is measured, the
\* interface has the qdisc of that very profile, whatever an earlier profile, an
\* earlier process or another program had put there.
EmulationIsProfile ==
    bpc \in {"load", "measure"} /\ applied => qdisc = Profile

\* collector.go:89-218: the numbers of a report agree with each other and with
\* the samples: every sample is a success or an error, every success is in one
\* bucket, the percentiles rise from min to max, at most half of the latencies
\* are above the median and at most half below, and the average is in range.
ReportRight ==
    [][bpc = "measure" /\ bpc' = "save" /\ report'.total > 0 =>
          LET r == report'
              lats == {<<m, 1000 * samples[m].lat>> : m \in {m \in DOMAIN samples : samples[m].ok}}
              ps == <<r.min, r.p[500], r.p[900], r.p[950], r.p[990], r.p[999], r.max>>
          IN  /\ r.success + r.errors = Len(samples)
              /\ SumFunction(r.dist) = r.success
              /\ \A a, b \in DOMAIN ps : a <= b => ps[a] <= ps[b]
              /\ r.min <= r.avg /\ r.avg <= r.max
              /\ 2 * Cardinality({x \in lats : x[2] > r.p[500]}) <= r.success
              /\ 2 * Cardinality({x \in lats : x[2] < r.p[500]}) <= r.success]_<<benchVars, lgVars>>
================================================================================
