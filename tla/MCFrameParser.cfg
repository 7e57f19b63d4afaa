SPECIFICATION Spec
CONSTANTS
    HeaderSize = 2
    ParseBufferSize = 4
    MaxFrameSize = 6
    MaxChunk = 4
    MaxFrames = 3
    Lengths = {0, 1, 3, 4, 5}
CHECK_DEADLOCK FALSE
INVARIANTS
    FramesAsSent
    RestIsKept
    NoFrameWaits
    ShutDownForCause
