SPECIFICATION Spec
CONSTANTS
    Streams = {s1, s2}
    Frames <- EchoFrames
    Preregistered <- Handlers
    Late <- NoHandlers
    Echo <- EchoMethods
    ConnDrops = FALSE
    ReqObjs = {q1, q2}
    CtxObjs = {x1, x2}
    None = None
INVARIANT ResponseIntact
