CONSTANTS
    user = user
    t1 = t1
    t2 = t2
    n = n
    a1 = a1
    a2 = a2
    Tasks = {t1, t2}
    Users = {user}
    UserOf <- SameUser
    Notifiers = {n}
    Counters = {a1, a2}
    NoTask = NoTask
    Budget <- OneOfEach
SPECIFICATION FewFaultsSpec
INVARIANTS
    TypeOK
    NoIncrementLost
    
    EachFailureHarmsOne
PROPERTIES
    ImplementsDelivery
    
\* every copy is resolved
CHECK_DEADLOCK FALSE
