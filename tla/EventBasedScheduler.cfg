SPECIFICATION Spec
CONSTANTS
    Entities = {e1, e2}
    Workers = {w1, w2}
    Stoppers = {}
    Null = null
    MaxTicks <- TwoTicksOnce
    StopOnDeadlock = {TRUE}
    CanFail = {}
    Unschedulable = {}
SYMMETRY Symmetry
INVARIANTS
    OneWorkerPerEntity
    PresentIsQueued
    ReadyNotForgotten
    RunningThreadsExact
CHECK_DEADLOCK FALSE
