SPECIFICATION Spec
CONSTANTS
    Procs = {p1, p2, p3}
    Streams = {s1, s2, s3}
    CounterMod = 4
    Window = 3
    NoProc = NoProc
SYMMETRY Symmetry
INVARIANTS TypeOK NoStreamLost NoClosedStreamPublished RoundRobin
