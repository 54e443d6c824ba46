CONSTANTS
    g = g
    c1 = c1
    c2 = c2
    m1 = m1
    Gateways = {g}
    Consumers = {c1, c2}
    Messages = {m1}
    MaxConnects = 2
    Budget <- EachFault
SPECIFICATION ThreeKindsSpec
INVARIANTS
    TypeOK
    NeverRefused
    HandledBounded
PROPERTIES
    NothingLostAfterSetup
    RetriedUntilHandled
\* every message has been handled or lost
CHECK_DEADLOCK FALSE
