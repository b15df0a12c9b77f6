SPECIFICATION Spec
CONSTANTS
    Entities = {e1}
    Workers = {w1, w2}
    Stoppers = {}
    Null = null
    MaxTicks <- TwoTicks
    StopOnDeadlock = {FALSE}
    CanFail = {"execute", "check"}
    Unschedulable = {e1}
INVARIANT
    RunningThreadsExact
PROPERTY
    ReadyIsExecuted
CHECK_DEADLOCK FALSE
