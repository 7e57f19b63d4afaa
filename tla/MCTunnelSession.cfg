SPECIFICATION Spec
CONSTANTS
    InitialWindow = 2
    Threshold = 2
    Ids = {1}
    SendSizes = {5}
    MaxAccepted = 5
    MaxNesting = 1
    ClientCalls = {"send", "close", "reset", "shutdown"}
    ServerCalls = {"send", "close"}
    Breaks = TRUE
CHECK_DEADLOCK FALSE
INVARIANTS
    CreditConserved
    NothingLost
PROPERTIES
    DeliveredInOrder
