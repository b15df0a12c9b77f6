SPECIFICATION Spec
CONSTANTS
    Entities = {e1, e2}
    Initial = {e1}
    Workers = {w1, w2}
    Null = null
    MaxTicks <- TwoTicksOnce
    StopOnDeadlock = TRUE
    CanStop = {"max_duration"}
    CanFail = {"check", "execute"}
    Schedulable = {e1, e2}
    Unschedulable = {e1}
SYMMETRY Symmetry
INVARIANTS
    OnePlace
    ScheduledIsSomewhere
    CountsExact
    EventNotLost
    DeadlockMeansIdle
CHECK_DEADLOCK FALSE
