CONSTANTS
    c1 = c1
    c2 = c2
    c3 = c3
    Calls = {c1, c2, c3}
    SelfTest = SelfTest
    None = None
    MaxId = 6
SPECIFICATION FairSpec
CHECK_DEADLOCK FALSE
INVARIANT OwnResult
PROPERTIES
    KeepsPromise
    Settles
