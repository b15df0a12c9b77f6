SPECIFICATION Spec
CONSTANTS
    Entities = {e1}
    Workers = {w1}
    Stoppers = {"stop_abi", "max_duration"}
    Null = null
    MaxTicks <- OneTick
    StopOnDeadlock = {FALSE}
    CanFail = {"execute"}
    Unschedulable = {}
PROPERTIES
    StopCompletes
CHECK_DEADLOCK FALSE
