SPECIFICATION Spec
CONSTANTS
    Streams = {s1}
    Senders = {a, b}
    BatcherIds = {b1, b2, b3, b4}
    None = None
INVARIANT AcceptedIsFramed
