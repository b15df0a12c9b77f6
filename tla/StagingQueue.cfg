SPECIFICATION Spec
CONSTANTS
    Items = {a, b}
    Null = null
    Capacities <- MCCapacities
    Behaviors <- AllBehaviors
    MaxMainstage = 8
SYMMETRY ItemSymmetry
INVARIANTS
    FreeSlotsNull
    DroppingQueueWithinCapacity
PROPERTY
    ImplementsFifo
