CONSTANTS
    c1 = c1
    c2 = c2
    c3 = c3
    login = login
    deleteUser = deleteUser
    Methods = {login, deleteUser}
    Calls = {c1, c2, c3}
    MethodOf <- TwoMethods
    Timeout = 1
    ResetTimeout = 2
    VolumeThreshold = 2
    MaxRate = 2
    Budget <- Failing
SPECIFICATION FairSpec
INVARIANTS
    TypeOK
    TrialIsAlone
    RefusedForFailures
PROPERTY Recovers
