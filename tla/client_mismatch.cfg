SPECIFICATION Spec
CONSTANTS
    Faults = {"cancel"}
    Calls = {c1, c2}
    Readers = {r1}
    Chans = {h1, h2}
    ReqObjs = {q1, q2}
    RespObjs = {p1, p2}
    None = None
INVARIANT ResponseMatchesRequest
