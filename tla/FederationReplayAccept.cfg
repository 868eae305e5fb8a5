CONSTANTS
    TicksPerSecond = 2
    PDUs <- MCPDUs
    h1 = h1
    h2 = h2
    Handlers <- MCHandlers
    Ahead = 1
    Hour = 1
    Lease = 2
    Patience = 1
    Capacity = 1
    Horizon = 6
SPECIFICATION Spec
CHECK_DEADLOCK FALSE
INVARIANT AcceptedIsSaved
