CONSTANTS
    HeadLen = 2
    FrameCount = 3
    Streams <- ShortStreams
    PutLengths = {1, 2, 3, 4, 5}
    InitialLength = 1
    Chunk = 2
    MaxRounds = 2
    MaxFrame = 5
    BodyLengths = {0, 1, 5}
SPECIFICATION Spec
INVARIANT OffsetsNeverOverlap
CHECK_DEADLOCK FALSE
