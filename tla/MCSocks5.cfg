SPECIFICATION Spec
CONSTANTS
    BACK_PRESSURE = 1
    LOW_WATERMARK = 0
    SendRoom = 1
CHECK_DEADLOCK FALSE
INVARIANTS
    RelayedInOrder
    PausedForCause
    
