SPECIFICATION Spec
CONSTANTS
    Procs = {p1, p2}
    Keys = {1, 2, 3}
    Vals = {v1, v2}
    ShardCount = 2
    None = None
SYMMETRY Symmetry
PROPERTY ImplementsAtomicMap
