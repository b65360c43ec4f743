CONSTANTS
    HeadLen = 2
    FrameCount = 4
    Streams <- ShortStreams
    PutLengths = {1, 2, 3, 4, 5}
    InitialLength = 1
    Chunk = 2
    MaxRounds = 2
    MaxFrame = 5
    BodyLengths = {0, 1, 5}
SPECIFICATION SpacedSpec
INVARIANTS TypeOK RingHoldsStream NothingLeftBehind
PROPERTY FrameStreamSpec
CHECK_DEADLOCK FALSE
