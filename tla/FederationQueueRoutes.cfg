CONSTANTS
    Items <- MCRoutedItems
    w1 = w1
    w2 = w2
    Workers <- MCOneWorker
    t1 = t1
    t2 = t2
    t3 = t3
    t4 = t4
    Tokens <- MCTokens
    MaxAttempts = 2
    BackoffUnit = 1
    Lease = 6
    Budget = 5
    Timeout = 3
    Period = 1
    MaxFaults = 0
SPECIFICATION FairSpec
PROPERTY EventuallySettled
