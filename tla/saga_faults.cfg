CONSTANTS
    r1 = r1
    r2 = r2
    e1 = e1
    e2 = e2
    Requests = {r1, r2}
    Emails = {e1, e2}
    EmailOf <- SameEmail
    Budget <- AllFaults
SPECIFICATION FairSpec
INVARIANTS
    TypeOK
    DoneIsComplete
    KnownFailureIsUndone
    UndoneInReverse
    LeftoversBounded
    WelcomesBounded
PROPERTY SagaAnswers
\* every request is answered
CHECK_DEADLOCK FALSE
