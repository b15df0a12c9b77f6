SPECIFICATION ProgramFairSpec
CONSTANTS
    plain = plain
    controlled = controlled
    w = w
    m = m
    other = other
    None = None
    Entities = {plain, controlled}
    Workers = {w}
    Callers = {m, other}
    NumCodelets <- TwoAndOne
    Controlled = {controlled}
    MaxRepeatCount = 1
    Overtaking = TRUE
    Scheduler = scheduler
    Main = m
    Waiters = {m}
    CanFail = {"routes", "initialize", "deinitialize", "run"}
CHECK_DEADLOCK FALSE
INVARIANTS
    WaitsForExecution
    CodeletsRunInitialized
    StateTellsRunning
    OriginIsClean
PROPERTIES
    InterruptEndsWait
