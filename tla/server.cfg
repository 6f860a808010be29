SPECIFICATION FairSpec
CONSTANTS
    Streams = {s1, s2}
    Frames <- MixedFrames
    Preregistered <- Handlers
    Late <- LateHandlers
    Echo <- NoMethods
    ConnDrops = TRUE
    ReqObjs = {q1, q2}
    CtxObjs = {x1, x2}
    None = None
INVARIANTS TypeOK HandlerIsolated ResponseIntact AnsweredInOrder
PROPERTY RegisteredIsAnswered
