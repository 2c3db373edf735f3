CONSTANTS
    Producers = {p1, p2, p3}
    Consumers = {c1, c2}
    QueueSize = 3
    NumProducers = 3
    Sizes <- MCSizes
    DestSizes <- MCDestSizes
    MaxCalls = 1
    Lost = Lost

SPECIFICATION Spec
INVARIANT TypeOK
INVARIANT FifoIntegrity
PROPERTY Refinement
PROPERTY ConsumersFinish
