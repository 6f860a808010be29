SPECIFICATION FairSpec
CONSTANTS
    Loops = {l1}
    Attempts = 2
    Latencies = {3, 40}
    MaxGens = 2
    MaxCalls <- MCMaxCalls
    Profiles = {"wifi", "lte"}
    MaxOthers = 1
    scenarios <- MCscenarios
    profiles <- MCprofiles
    payloadSizes <- MCpayloadSizes
    connectionCounts <- MCconnectionCounts
    ReadDirOrder <- MCReadDirOrder
    UserCommands <- MCUserCommands
    StaleFiles <- MCStaleFiles
INVARIANTS TypeOK NoOwnCancelError EmulationIsProfile HeatmapExplained
PROPERTIES NoOldLoad ReportRight SessionEnds
