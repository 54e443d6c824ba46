CONSTANTS
    Tasks = {t1, t2}
    p1 = p1
    p2 = p2
    Pollers = {p1, p2}
    NoTask = NoTask
    MaxAttempts = 2
    BatchSize = 2
    Timestamps = {1}
    MaxFaults <- OneFaultEach
SPECIFICATION Spec
SYMMETRY Symmetry
INVARIANTS
    TypeOK
    DualWriteAtomic
    DuplicatesBounded
    RetriedBelowLimit
    GivenUpAfterFailures
    NoEventVanishes
PROPERTIES
    NeverReopened
    ImplementsRelay
\* all requests answered, all events settled and deleted, no fault left
CHECK_DEADLOCK FALSE
