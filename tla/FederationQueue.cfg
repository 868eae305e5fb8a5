CONSTANTS
    Items <- MCItems
    w1 = w1
    w2 = w2
    Workers <- MCWorkers
    t1 = t1
    t2 = t2
    t3 = t3
    t4 = t4
    Tokens <- MCTokens
    MaxAttempts = 2
    BackoffUnit = 1
    Lease = 4
    Budget = 3
    Timeout = 2
    Period = 1
    MaxFaults = 1
SYMMETRY MCSymmetry
SPECIFICATION Spec
INVARIANTS
    TypeOK
    SingleSender
    EndsForAReason
PROPERTY EndIsFinal
