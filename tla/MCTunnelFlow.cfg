SPECIFICATION FairSpec
CONSTANTS
    InitialWindow = 2
    Threshold = 2
    Ids = {1}
    SendSizes = {1, 3}
    MaxAccepted = 6
    MaxNesting = 1
    ClientCalls = {"send", "close"}
    ServerCalls = {"close"}
    Breaks = FALSE
CHECK_DEADLOCK FALSE
INVARIANTS
    CreditOnItsWay
PROPERTIES
    ImplementsStreamFlow
    AllArrives
    CloseIsHeard
