-------------------------------- MODULE MCRunAll -------------------------------
(* RunAll on a small instance: two children of the driver with different     *)
(* connection counts, which may find files of an earlier session, or a      *)
(* user's command with two profiles.                                        *)
EXTENDS RunAll

MCMaxCalls == <<2, 1>>
MCscenarios == <<"baseline_latency">>
MCprofiles == <<"wifi">>
MCpayloadSizes == <<100>>
MCconnectionCounts == <<1, 16>>
File(p, c, z) ==
    [scenario |-> "baseline_latency", profile |-> p, system |-> "qrpc", conns |-> c, payload |-> z]
MCReadDirOrder ==               \* "..._conn16_pay..." < "..._conn1_pay..."
    <<File("lte", 0, 0), File("lte", 1, 100), File("wifi", 0, 0),
      File("wifi", 16, 100), File("wifi", 1, 100), File("wifi", 4, 100)>>
User(ps) ==
    [scenario |-> "baseline_latency", profiles |-> ps, system |-> "qrpc", conns |-> 1, payload |-> 100]
MCUserCommands == {User(<<"wifi", "lte">>), User(<<"wify">>)}
MCStaleFiles == {File("wifi", 1, 100), File("wifi", 4, 100)}
================================================================================
