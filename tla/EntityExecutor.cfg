SPECIFICATION FairSpec
CONSTANTS
    plain = plain
    controlled = controlled
    w = w
    d = d
    None = None
    Entities = {plain, controlled}
    Workers = {w}
    Callers = {d}
    NumCodelets <- TwoAndOne
    Controlled = {controlled}
    MaxRepeatCount = 1
    Overtaking = FALSE
INVARIANTS
    NoneLeftStarted
    FirstTickIsCounted
PROPERTIES
    KeepsContract
    DeactivateReturns
