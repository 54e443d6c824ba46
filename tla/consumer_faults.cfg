CONSTANTS
    a = a
    b = b
    pt1 = pt1
    pt2 = pt2
    Consumers = {c1, c2}
    Events = {a, b}
    Partitions = {pt1, pt2}
    Log <- TwoPartitions
    Nobody = Nobody
    Budget <- EachFault
SPECIFICATION TwoKindsSpec
INVARIANTS
    TypeOK
    OneHandlerPerEvent
    EffectsBounded
    LossesBounded
PROPERTIES
    ImplementsDelivery
    LogConsumed
\* the whole log is consumed
CHECK_DEADLOCK FALSE
