CONSTANTS
    r1 = r1
    r2 = r2
    r3 = r3
    ip = ip
    alice = alice
    bob = bob
    Requests = {r1, r2, r3}
    Addresses = {ip}
    Users = {alice, bob}
    Anonymous = Anonymous
    AddressOf <- SameAddress
    UserOf <- Mixed
    Limit = 1
    Budget <- NoEvents
SPECIFICATION Spec
INVARIANT RefusedForOwnRequests
\* every request has been answered
CHECK_DEADLOCK FALSE
