CONSTANTS
    Tasks = {t1, t2}
    p1 = p1
    p2 = p2
    Pollers = {p1, p2}
    NoTask = NoTask
    MaxAttempts = 2
    BatchSize = 1
    Timestamps = {1}
    MaxFaults <- FaultyFirst
SPECIFICATION FairSpec
PROPERTY ImplementsFairRelay
\* all requests answered, all events settled and deleted
CHECK_DEADLOCK FALSE
