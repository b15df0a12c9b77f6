SPECIFICATION Spec
CONSTANTS
    Items = {a, b}
    Null = null
    Capacities <- MCCapacities
    Behaviors <- AllBehaviors
    MaxMainstage = 8
PROPERTY
    PushInvisibleUntilSync
