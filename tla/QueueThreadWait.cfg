SPECIFICATION FairSpec
CONSTANTS
    s1 = s1
    s2 = s2
    w1 = w1
    w2 = w2
    Stoppers = {s1}
    Waiters = {w1}
    None = None
    MaxItems = 1
CHECK_DEADLOCK FALSE
PROPERTY
    WaitReturns
