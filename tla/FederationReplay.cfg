CONSTANTS
    TicksPerSecond = 1
    PDUs <- MCPDUs
    h1 = h1
    h2 = h2
    Handlers <- MCHandlers
    Ahead = 0
    Hour = 2
    Lease = 2
    Patience = 1
    Capacity = 1
    Horizon = 7
SYMMETRY MCSymmetry
SPECIFICATION Spec
CHECK_DEADLOCK FALSE
INVARIANTS
    TypeOK
    SinglePersister
    KnownWhileFresh
PROPERTY RecordedIsFinal
