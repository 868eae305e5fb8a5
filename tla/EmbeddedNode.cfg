CONSTANTS
    c1 = c1
    c2 = c2
    c3 = c3
    n1 = n1
    n2 = n2
    w1 = w1
    w2 = w2
    Callers = {c1, c2, c3}
    Nodes = {n1, n2}
    Workers = {w1, w2}
SPECIFICATION FairSpec
CHECK_DEADLOCK FALSE
INVARIANTS
    TypeOK
    DatabaseOutlivesUsers
    NothingLeaks
PROPERTY ClosingReturns
