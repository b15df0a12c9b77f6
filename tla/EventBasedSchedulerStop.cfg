SPECIFICATION Spec
CONSTANTS
    Entities = {e1}
    Workers = {w1, w2}
    Stoppers = {"stop_abi", "max_duration"}
    Null = null
    MaxTicks <- OneTick
    StopOnDeadlock = {FALSE}
    CanFail = {}
    Unschedulable = {}
PROPERTY
    StopCompletes
CHECK_DEADLOCK FALSE
