SPECIFICATION Spec
CONSTANT
    MaxPushes = 4
INVARIANT
    SingleProducerSingleConsumer
