SPECIFICATION Spec
CONSTANTS
    Entities = {e1}
    Workers = {w1}
    Stoppers = {}
    Null = null
    MaxTicks <- OneTick
    StopOnDeadlock = {TRUE}
    CanFail = {}
    Unschedulable = {}
INVARIANT
    ExecutingIsCounted
CHECK_DEADLOCK FALSE
