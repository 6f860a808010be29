SPECIFICATION Spec
CONSTANTS
    EncodeAll <- RunLength
    DecodeAll <- Runs
    Decompressible <- IsRunLength
    Messages <- SampleMessages
    RawFrames <- SampleRawFrames
    Waiting <- SampleWaiting
    MaxFrames = 3
    Encoders = {e1, e2}
    Buffers = {b1, b2}
    defaultBufSize = 20
    compressionThreshold = 16
    None = None
INVARIANTS TypeOK DecodedIsEncoded SizeIsExact HeadersArrive
 
