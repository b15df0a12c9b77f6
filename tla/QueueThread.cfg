SPECIFICATION FairSpec
CONSTANTS
    s1 = s1
    s2 = s2
    w1 = w1
    w2 = w2
    Stoppers = {s1, s2}
    Waiters = {w1, w2}
    None = None
    MaxItems = 3
CHECK_DEADLOCK FALSE
INVARIANTS
    PendingIsHeld
PROPERTIES
    ImplementsSerialExecutor
    StopReturns
