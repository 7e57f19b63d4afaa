SPECIFICATION FairSpec
CONSTANTS
    Intervals = {1, 2}
    MaxTimers = 2
    MaxCalls = 3
    MaxLate = 1
    WaitTimeout = 3
CHECK_DEADLOCK FALSE
INVARIANTS
    OneExpiration
    ArmedForFirst
PROPERTIES
    NeverEarly
    TimersFire
    StopReturns
