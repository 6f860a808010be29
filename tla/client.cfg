SPECIFICATION FairSpec
CONSTANTS
    Faults = {"cancel", "close", "senderr"}
    Calls = {c1, c2}
    Readers = {r1, r2}
    Chans = {h1, h2}
    ReqObjs = {q1, q2}
    RespObjs = {p1, p2}
    None = None
INVARIANTS TypeOK ChannelExclusive RequestExclusive DrawsFreshId ResponseExclusive MatchesUndisturbed ReachableUntilSendFails CloseWaitsForWaiters
PROPERTIES ImplementsRpc ReleasedCallsReturn CloseReturns AnsweredCallsReturn
