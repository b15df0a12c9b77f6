SPECIFICATION Spec
CONSTANTS
    a = a
    b = b
    c = c
    d = d
    Entities = {a, b}
    Routes <- OneRoute
    ByTopic <- OneRoute
    Capacity = 1
    MinSize = 1
    Policy = "kFault"
    Count = 2
CHECK_DEADLOCK FALSE
PROPERTY
    SourcesUseUpCount
