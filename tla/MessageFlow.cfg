SPECIFICATION Spec
CONSTANTS
    a = a
    b = b
    c = c
    d = d
    Entities = {a, b, c, d}
    Routes <- FanAndChain
    ByTopic = {}
    Capacity = 1
    MinSize = 1
    Policy = "kFault"
    Count = 2
CHECK_DEADLOCK FALSE
INVARIANTS
    NoOverflow
    ReadyEntityHasRoom
PROPERTIES
    ImplementsChannel
    SourcesUseUpCount
