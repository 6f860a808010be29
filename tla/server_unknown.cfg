SPECIFICATION FairSpec
CONSTANTS
    Streams = {s1, s2}
    Frames <- UnknownFrames
    Preregistered <- Handlers
    Late <- NoHandlers
    Echo <- NoMethods
    ConnDrops = FALSE
    ReqObjs = {q1, q2}
    CtxObjs = {x1, x2}
    None = None
PROPERTY RegisteredIsAnswered
