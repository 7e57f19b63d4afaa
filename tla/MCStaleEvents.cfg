SPECIFICATION Spec
CONSTANTS
    MaxFD = 3
    MaxGen = 4
    Socket = {p, q}
    NoSocket = NoSocket
    MaxTurn = 1
    MaxInflight = 2
CONSTRAINT Bounded
SYMMETRY Symmetry
INVARIANTS
    TypeOK
    StaleEventsRejected
    ActiveListExact
