--------------------------------- MODULE RunAll --------------------------------
(***************************************************************************)
(* A benchmark session: either the driver runall_stress/main.go, which     *)
(* starts the server, runs one process of Bench after the other and draws  *)
(* a heatmap of the results directory, or a user at a shell, who runs      *)
(* `stress_test run` with a list of profiles and perhaps                   *)
(* `stress_test cleanup`.                                                  *)
(*                                                                         *)
(* The results directory is never emptied: it may hold files of an earlier *)
(* session, and the heatmap reads whatever is there.                       *)
(***************************************************************************)
EXTENDS Bench

CONSTANTS
    scenarios, profiles, payloadSizes, connectionCounts,  \* the driver's lists
    ReadDirOrder,   \* the names of files in the order in which os.ReadDir lists them
    UserCommands,   \* commands a user may type
    StaleFiles      \* names of files of earlier sessions that the driver may find

\* The driver's lists are written out in its source, and none is empty.
IsList(list) == list \in Seq(Range(list)) /\ list # <<>>

ASSUME ListsAssumption ==
    IsList(scenarios) /\ IsList(profiles) /\ IsList(payloadSizes) /\ IsList(connectionCounts)
ASSUME CommandsAssumption == \A c \in UserCommands : c.profiles \in Seq(STRING)

VARIABLES
    dpc,            \* where the driver, or the user, is
    k,              \* children the driver has started
    server,         \* the process that the driver started for the server runs
    heatmap         \* the cells of heatmap.html that have data

vars == <<lgVars, benchVars, dpc, k, server, heatmap>>

Total == Len(connectionCounts) * Len(scenarios) * Len(profiles) * Len(payloadSizes)

\* The arguments of child n + 1 of the nested loops.
Child(n) ==
    LET pay == Len(payloadSizes)
        prof == pay * Len(profiles)
        sc == prof * Len(scenarios)
    IN  [scenario |-> scenarios[((n % sc) \div prof) + 1],
         profiles |-> <<profiles[((n % prof) \div pay) + 1]>>,
         system   |-> "qrpc",
         conns    |-> connectionCounts[(n \div sc) + 1],
         payload  |-> payloadSizes[(n % pay) + 1]]

Commands == {Child(n) : n \in 0..(Total - 1)} \cup UserCommands

\* The names that SaveJSON can make of the reports of command c.
Names(c) == {FileName(c, p, r) : p \in Profiles \cap Range(c.profiles),
                                 r \in {[conns |-> c.conns, payload |-> c.payload],
                                         [conns |-> 0, payload |-> 0]}}

\* The order is about every file there can be.
ASSUME OrderAssumption ==
    /\ ReadDirOrder \in Seq(Range(ReadDirOrder))
    /\ \A a, b \in DOMAIN ReadDirOrder : ReadDirOrder[a] = ReadDirOrder[b] => a = b
    /\ StaleFiles \cup UNION {Names(c) : c \in Commands} \subseteq Range(ReadDirOrder)

TypeOK ==
    /\ BenchTypeOK
    /\ cmd \in {NoCommand} \cup Commands
    /\ dpc \in {"build", "server", "loop", "child", "del", "kill", "wait", "shell",
                "user", "cleanup", "done", "fatal"}
    /\ k \in 0..Total
    /\ server \in BOOLEAN
    /\ \A f, h \in files : f.name = h.name => f = h

Init ==
    /\ BenchInit
    /\ dpc \in {"build", "shell"}
    /\ \E old \in IF dpc = "build" THEN SUBSET StaleFiles ELSE {{}} :
          files = {[name |-> n, fresh |-> FALSE] : n \in old}
    /\ k = 0
    /\ server = FALSE
    /\ heatmap = {}

--------------------------------------------------------------------------------
(* The driver                                                               *)

\* `go build`, or log.Fatalf.
Build ==
    /\ dpc = "build"
    /\ dpc' \in {"server", "fatal"}
    /\ UNCHANGED <<lgVars, benchVars, k, server, heatmap>>

\* The server is started (whether it can listen, nobody asks), or log.Fatalf.
StartServer ==
    /\ dpc = "server"
    /\ \/ dpc' = "loop" /\ server' = TRUE
       \/ dpc' = "fatal" /\ UNCHANGED server
    /\ UNCHANGED <<lgVars, benchVars, k, heatmap>>

\* The next child.
StartChild ==
    /\ dpc = "loop"
    /\ k < Total
    /\ StartProcess(Child(k))
    /\ k' = k + 1
    /\ dpc' = "child"
    /\ UNCHANGED <<server, heatmap>>

\* cmd.Run returns; a failed child is only logged.
ChildEnds ==
    /\ dpc = "child"
    /\ bpc = "none"
    /\ dpc' = "loop"
    /\ UNCHANGED <<lgVars, benchVars, k, server, heatmap>>

\* ReadDir lists the name m before the name n.
Before(m, n) ==
    \E a, b \in DOMAIN ReadDirOrder : a < b /\ ReadDirOrder[a] = m /\ ReadDirOrder[b] = n

\* grouped has one place for all results of a scenario, a profile and a payload
\* size, whatever their system and number of connections.
SameCell(m, n) == m.scenario = n.scenario /\ m.profile = n.profile /\ m.payload = n.payload

\* The heatmap has cells for the driver's scenarios, profiles and payload sizes.
HasCell(n) ==
    n.scenario \in Range(scenarios) /\ n.profile \in Range(profiles) /\ n.payload \in Range(payloadSizes)

\* The files that the cells show: of each cell the last one that ReadDir lists,
\* which has overwritten the others.
Shown ==
    {f \in files : /\ HasCell(f.name)
                   /\ \A h \in files : SameCell(h.name, f.name) => h = f \/ Before(h.name, f.name)}

\* generateReport: nothing to draw, or the heatmap, or log.Fatalf, which runs no
\* deferred function.
GenerateReport ==
    /\ dpc = "loop"
    /\ k = Total
    /\ IF files = {}
         THEN dpc' = "del" /\ UNCHANGED heatmap
         ELSE \/ /\ dpc' = "del"
                 /\ heatmap' = Shown
              \/ dpc' = "fatal" /\ UNCHANGED heatmap
    /\ UNCHANGED <<lgVars, benchVars, k, server>>

\* The deferred `tc qdisc del` ...
DeferredDel ==
    /\ dpc = "del"
    /\ TcDel \/ TcFails
    /\ dpc' = "kill"
    /\ UNCHANGED <<lgVars, bpc, cmd, i, sig, applied, others, report, fileVars, k, server, heatmap>>

\* ... and serverCleanup.  The error of Kill is dropped: the process is sudo's, and
\* a driver that may not kill it goes on to Wait all the same ...
KillServer ==
    /\ dpc = "kill"
    /\ \/ dpc' = "done" /\ server' = FALSE
       \/ dpc' = "wait" /\ server /\ UNCHANGED server
    /\ UNCHANGED <<lgVars, benchVars, k, heatmap>>

\* ... which returns when the process has ended.
WaitReturns ==
    /\ dpc = "wait"
    /\ ~server
    /\ dpc' = "done"
    /\ UNCHANGED <<lgVars, benchVars, k, server, heatmap>>

\* The server's process ends by itself (RunServer fails, or somebody kills it).  The
\* driver does not notice before it waits for it.
ServerEnds ==
    /\ server
    /\ server' = FALSE
    /\ UNCHANGED <<lgVars, benchVars, dpc, k, heatmap>>

DriverStep ==
    \/ Build
    \/ StartServer
    \/ StartChild
    \/ ChildEnds
    \/ GenerateReport
    \/ DeferredDel
    \/ KillServer
    \/ WaitReturns

--------------------------------------------------------------------------------
(* A user at a shell                                                        *)

UserRuns ==
    /\ dpc = "shell"
    /\ \E c \in UserCommands : StartProcess(c)
    /\ dpc' = "user"
    /\ UNCHANGED <<k, server, heatmap>>

\* The command has ended; the user types the next one, or not.
UserReturns ==
    /\ dpc = "user"
    /\ bpc = "none"
    /\ dpc' \in {"cleanup", "done"}
    /\ UNCHANGED <<lgVars, benchVars, k, server, heatmap>>

\* `stress_test cleanup`: runCleanup.
UserCleanup ==
    /\ dpc = "cleanup"
    /\ TcDel \/ TcFails
    /\ dpc' = "done"
    /\ UNCHANGED <<lgVars, bpc, cmd, i, sig, applied, others, report, fileVars, k, server, heatmap>>

UserStep == UserRuns \/ UserReturns \/ UserCleanup

--------------------------------------------------------------------------------
\* Steps of a process and of its surroundings.
Inside == UNCHANGED <<dpc, k, server, heatmap>>

Ended == dpc \in {"done", "fatal"} /\ UNCHANGED vars

Next ==
    \/ DriverStep
    \/ UserStep
    \/ ServerEnds
    \/ MainStep /\ Inside
    \/ LoadStep /\ Inside
    \/ SignalStep /\ Inside
    \/ OtherAdds /\ Inside
    \/ Ended

Spec == Init /\ [][Next]_vars

\* The main goroutines of the driver and of the process go on, and the user does
\* not stop half way.  Nothing is assumed of the load loops: a call may never
\* return.
FairSpec == Spec /\ WF_vars(DriverStep) /\ WF_vars(UserStep) /\ WF_vars(MainStep /\ Inside)

--------------------------------------------------------------------------------
\* runall_stress/main.go:157-237: no cell has two results, and a result that the
\* session saved is what its cell shows, unless the cell shows a file that ReadDir
\* lists later: of another number of connections or system, and perhaps of an
\* earlier session.  A file of an earlier session is never shown in place of a
\* result with the same name, and no saved result leaves its cell empty.
HeatmapExplained ==
    dpc \in {"del", "kill", "wait", "done"} /\ k = Total =>
        /\ \A f, h \in heatmap : SameCell(f.name, h.name) => f = h
        /\ \A n \in reported : HasCell(n) =>
              \E f \in heatmap : /\ SameCell(f.name, n)
                                 /\ f = [name |-> n, fresh |-> TRUE] \/ Before(n, f.name)

\* A session ends, even if no call of any load loop ever returns: the wait at
\* loader.go:162-166 ends because Run has cancelled the ctx it waits for.  Only the
\* server's process can keep the driver waiting, if it may not be killed.
SessionEnds == <>(dpc \in {"done", "fatal"} \/ (dpc = "wait" /\ server))
================================================================================
