SPECIFICATION Spec
CONSTANTS
    Streams = {s1, s2}
    Senders = {a, b}
    BatcherIds = {b1, b2, b3, b4}
    None = None
SYMMETRY Symmetry
INVARIANTS TypeOK AcceptedIsWritten OnlyPickedStream AllStreamsOpened
