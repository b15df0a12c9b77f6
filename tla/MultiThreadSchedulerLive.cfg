SPECIFICATION Spec
CONSTANTS
    Entities = {e1}
    Initial = {e1}
    Workers = {w1, w2}
    Null = null
    MaxTicks <- TwoTicks
    StopOnDeadlock = TRUE
    CanStop = {"stop_abi"}
    CanFail = {"execute"}
    Schedulable = {}
    Unschedulable = {e1}
PROPERTIES
    StopEndsWorkers
    ReadyIsExecuted
CHECK_DEADLOCK FALSE
