SPECIFICATION FairSpec
CONSTANTS
    w1 = w1
    w2 = w2
    s1 = s1
    s2 = s2
    s3 = s3
    Workers = {w1, w2}
    Segments = {s1, s2, s3}
    Worker <- MCWorker
    Sources = {s1, s2}
    None = None
    Retries = 1
    MaxFaults = 2
CHECK_DEADLOCK FALSE
INVARIANTS
    RunsConnected
    TakeDownAnswered
PROPERTIES
    ImplementsBarriers
    EverythingStops
