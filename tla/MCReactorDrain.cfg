SPECIFICATION Spec
CONSTANTS
    Socket = {s1}
    NoSocket = NoSocket
    MaxFD = 4
    MaxGen = 1000
    KernelFDs = 2
    MaxInbox = 1
    SndBuf = 1
    MaxBacklog = 1
    HighWater = 1
    LowWater = 1
    Faults = {}
    AppCalls = {"connect", "send", "close", "pause", "timer"}
    Events = {"reset", "data", "fin", "ack", "client", "foreign"}
    SendSizes = {1}
    SendStatuses = {"Ready", "Connected", "Closing", "Closed"}
    MaxQueue = 2
    MaxNesting = 2
    UseGC = FALSE
    GCThreshold = 1
INVARIANTS
    DrainPossible
