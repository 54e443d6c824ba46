CONSTANTS
    r1 = r1
    r2 = r2
    e1 = e1
    e2 = e2
    Requests = {r1, r2}
    Emails = {e1, e2}
    EmailOf <- TwoEmails
    Budget <- OneTimeout
SPECIFICATION Spec
INVARIANT FailedLeavesNothing
\* every request is answered
CHECK_DEADLOCK FALSE
