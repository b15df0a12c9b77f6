SPECIFICATION Spec
CONSTANTS
    Entities = {e1}
    Workers = {w1}
    Stoppers = {}
    Null = null
    MaxTicks <- OneTick
    StopOnDeadlock = {TRUE}
    CanFail = {}
    Unschedulable = {}
PROPERTIES
    WorkDoneStops
CHECK_DEADLOCK FALSE
