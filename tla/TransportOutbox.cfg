CONSTANTS
    TicksPerSecond = 2
    Envelopes <- ThreeSubmissions
    Workers = {w1, w2}
    Transports = {"lan", "net"}
    MaxAttempts = 2
    Lease = 2
    Horizon = 4
SYMMETRY WorkerSymmetry
SPECIFICATION Spec
CHECK_DEADLOCK FALSE
INVARIANTS
    TypeOK
    PendingHasBudget
    LeaseIsCurrent
PROPERTIES
    SettledIsFinal
    LeaseHonoured
