SPECIFICATION Spec
CONSTANTS
    Entities = {e1}
    Initial = {e1}
    Workers = {w1}
    Null = null
    MaxTicks <- TwoTicks
    StopOnDeadlock = FALSE
    CanStop = {"stop_abi"}
    CanFail = {}
    Schedulable = {}
    Unschedulable = {}
PROPERTY
    StopReturns
CHECK_DEADLOCK FALSE
