SPECIFICATION Spec
CONSTANT
    MaxPushes = 6
INVARIANTS
    SlotsDisjoint
    PopIsFresh
PROPERTY
    PopsInOrder
