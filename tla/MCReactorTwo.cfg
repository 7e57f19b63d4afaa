SPECIFICATION Spec
CONSTANTS
    Socket = {s1, s2}
    NoSocket = NoSocket
    MaxFD = 4
    MaxGen = 1000
    KernelFDs = 3
    MaxInbox = 1
    SndBuf = 1
    MaxBacklog = 1
    HighWater = 1
    LowWater = 1
    Faults = {}
    AppCalls = {"connect", "send", "close", "timer"}
    Events = {"reset", "data", "client"}
    SendSizes = {1}
    SendStatuses = {"Ready", "Connected", "Closing", "Closed"}
    MaxQueue = 1
    MaxNesting = 1
    UseGC = TRUE
    GCThreshold = 1
SYMMETRY Symmetry
INVARIANTS
    SlotsSound
    NoDanglingReference
PROPERTIES
    DeliveredToSubject
