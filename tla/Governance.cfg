CONSTANTS
    None = None
    c1 = c1
    r1 = r1
    r2 = r2
    r3 = r3
    Cases = {c1}
    Reviewers = {r1, r2, r3}
    Seniors = {r1}
    UserCount = 5
    Recommendations = {"suspend"}
    Severities = {"critical"}
    Ops = {"review", "consume", "resolve", "appeal"}
    MaxCalls = 4
    Crashes = TRUE
SPECIFICATION Spec
CHECK_DEADLOCK FALSE
INVARIANTS
    TypeOK
    ReviewedOnce
    ActionedOnce
    KeyUsedOnce
