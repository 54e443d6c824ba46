---------------------------- MODULE RequestThrottle ----------------------------
(***************************************************************************)
(* RedisThrottlerGuard, the rate limit of api-gateway: every HTTP request, *)
(* in any replica, counts itself under a Redis key with INCR, asks for the *)
(* TTL of the key, gives it one with EXPIRE when it has none, and is       *)
(* refused with 429 when its count is above the limit.  The three commands *)
(* are separate: requests interleave, a replica may die and the key may    *)
(* run out between any two of them.                                        *)
(*                                                                         *)
(* ioredis is configured to wait: a command issued while Redis is out of   *)
(* reach is neither answered nor refused until the connection is back, and *)
(* one that was in flight is sent again (RedisService).                    *)
(*                                                                         *)
(* Not modelled here: the route in the key (one route is enough, routes    *)
(* share nothing), the resolution of limits from decorators, the length of *)
(* a window, and what the routes do.                                       *)
(***************************************************************************)
EXTENDS Naturals, FiniteSets

CONSTANTS
    Requests,
    Addresses,      \* the client addresses requests come from
    Users,
    Anonymous,      \* the user of a request without a token
    AddressOf,      \* AddressOf[r]
    UserOf,         \* UserOf[r]: the user of the token of r
    Limit,          \* options.limit, 60 by default
    Budget          \* bound: how often each kind of event may happen

EventKinds == {"lapse", "resend", "redisError", "crash", "outage"}

ASSUME ThrottleAssumption ==
    /\ Users \cap Addresses = {}
    /\ Anonymous \notin Users \cup Addresses
    /\ AddressOf \in [Requests -> Addresses]
    /\ UserOf \in [Requests -> Users \cup {Anonymous}]
    /\ Limit \in Nat
    /\ Budget \in [EventKinds -> Nat]

Keys == Addresses \cup Users

VARIABLES
    pc,         \* where canActivate, or the route's guard, is for each request
    user,       \* request.user, set by JwtAuthGuard
    hits,       \* the counter of each key; 0 when the key does not exist
    expiring,   \* the key has a TTL
    window,     \* how often each key has run out so far
    seen,       \* currentRequests: the answer to the INCR of each request
    counted,    \* the key and the window in which each request was counted
    up,         \* Redis can be reached
    budget      \* events that may still happen

redisVars == <<hits, expiring, window>>
vars == <<pc, user, hits, expiring, window, seen, counted, up, budget>>

NotCounted == [key |-> Anonymous, window |-> 0]

TypeOK ==
    /\ pc \in [Requests -> {"new", "incr", "ttl", "expire", "admitted",
                            "failedOpen", "rejected", "dead"}]
    /\ user \in [Requests -> Users \cup {Anonymous}]
    /\ hits \in [Keys -> Nat]
    /\ expiring \in [Keys -> BOOLEAN]
    /\ window \in [Keys -> Nat]
    /\ seen \in [Requests -> Nat]
    /\ counted \in [Requests -> [key : Keys, window : Nat] \cup {NotCounted}]
    /\ \A r \in Requests : pc[r] \in {"ttl", "expire", "admitted", "rejected"} =>
                               counted[r] # NotCounted
    /\ \A k \in Keys : expiring[k] => hits[k] > 0
    /\ up \in BOOLEAN
    /\ budget \in [EventKinds -> Nat]

Init ==
    /\ pc = [r \in Requests |-> "new"]
    /\ user = [r \in Requests |-> Anonymous]
    /\ hits = [k \in Keys |-> 0]
    /\ expiring = [k \in Keys |-> FALSE]
    /\ window = [k \in Keys |-> 0]
    /\ seen = [r \in Requests |-> 0]
    /\ counted = [r \in Requests |-> NotCounted]
    /\ up = TRUE
    /\ budget = Budget

Spend(kind) ==
    /\ budget[kind] > 0
    /\ budget' = [budget EXCEPT ![kind] = @ - 1]

Goto(r, label) == pc' = [pc EXCEPT ![r] = label]

-----------------------------------------------------------------------------
(* canActivate                                                             *)

\* getClientIdentifier: the user if a guard before this one has set it.
Identifier(r) == IF user[r] # Anonymous THEN user[r] ELSE AddressOf[r]

Arrive(r) ==
    /\ pc[r] = "new"
    /\ Goto(r, "incr")
    /\ UNCHANGED <<user, redisVars, seen, counted, up, budget>>

\* The answer is the new counter.  A new key has no TTL.
Incr(r) ==
    LET k == Identifier(r)
    IN  /\ pc[r] = "incr"
        /\ up
        /\ hits' = [hits EXCEPT ![k] = @ + 1]
        /\ seen' = [seen EXCEPT ![r] = hits[k] + 1]
        /\ counted' = [counted EXCEPT ![r] = [key |-> k, window |-> window[k]]]
        /\ Goto(r, "ttl")
        /\ UNCHANGED <<user, expiring, window, up, budget>>

\* The connection drops after Redis applied INCR, and ioredis sends it again.
IncrReplyLost(r) ==
    /\ pc[r] = "incr"
    /\ up
    /\ Spend("resend")
    /\ hits' = [hits EXCEPT ![Identifier(r)] = @ + 1]
    /\ UNCHANGED <<pc, user, expiring, window, seen, counted, up>>

\* Mutated: one request too many is let through.
DecideAbove(r) ==
    Goto(r, IF seen[r] > Limit + 1 THEN "rejected" ELSE "admitted")

\* The comparison with the limit, which follows the last await.
Decide(r) == Goto(r, IF seen[r] > Limit THEN "rejected" ELSE "admitted")

\* Mutated: only the request that created the key gives it a TTL.
TtlOfFirst(r) ==
    /\ pc[r] = "ttl"
    /\ up
    /\ IF seen[r] = 1 THEN Goto(r, "expire") ELSE Decide(r)
    /\ UNCHANGED <<user, redisVars, seen, counted, up, budget>>

\* TTL answers -1 for a key without one, -2 for a key that is gone.
Ttl(r) ==
    LET k == counted[r].key
    IN  /\ pc[r] = "ttl"
        /\ up
        /\ IF hits[k] > 0 /\ ~expiring[k] THEN Goto(r, "expire") ELSE Decide(r)
        /\ UNCHANGED <<user, redisVars, seen, counted, up, budget>>

\* Mutated: the window is opened whether the counter still exists or not.
ExpireBlindly(r) ==
    /\ pc[r] = "expire"
    /\ up
    /\ expiring' = [expiring EXCEPT ![counted[r].key] = TRUE]
    /\ Decide(r)
    /\ UNCHANGED <<user, hits, window, seen, counted, up, budget>>

\* EXPIRE sets the TTL, restarts one that another request has set meanwhile,
\* and does nothing when the key is gone.
Expire(r) ==
    LET k == counted[r].key
    IN  /\ pc[r] = "expire"
        /\ up
        /\ expiring' = [expiring EXCEPT ![k] = hits[k] > 0]
        /\ Decide(r)
        /\ UNCHANGED <<user, hits, window, seen, counted, up, budget>>

\* Redis answers a command with an error: the request is let through.
RedisError(r) ==
    /\ pc[r] \in {"incr", "ttl", "expire"}
    /\ up
    /\ Spend("redisError")
    /\ Goto(r, "failedOpen")
    /\ UNCHANGED <<user, redisVars, seen, counted, up>>

\* JwtAuthGuard, a guard of the controller, runs after the global guard.
Authenticate(r) ==
    /\ pc[r] \in {"admitted", "failedOpen"}
    /\ UserOf[r] # Anonymous
    /\ user[r] = Anonymous
    /\ user' = [user EXCEPT ![r] = UserOf[r]]
    /\ UNCHANGED <<pc, redisVars, seen, counted, up, budget>>

-----------------------------------------------------------------------------
(* Redis, and the replicas of the gateway                                  *)

\* The TTL of a key has run out: the key is gone and a new window begins.
Lapse(k) ==
    /\ up
    /\ expiring[k]
    /\ Spend("lapse")
    /\ hits' = [hits EXCEPT ![k] = 0]
    /\ expiring' = [expiring EXCEPT ![k] = FALSE]
    /\ window' = [window EXCEPT ![k] = @ + 1]
    /\ UNCHANGED <<pc, user, seen, counted, up>>

Outage ==
    /\ up
    /\ Spend("outage")
    /\ up' = FALSE
    /\ UNCHANGED <<pc, user, redisVars, seen, counted>>

Recover ==
    /\ ~up
    /\ up' = TRUE
    /\ UNCHANGED <<pc, user, redisVars, seen, counted, budget>>

\* The replica that serves r dies between two commands.
Crash(r) ==
    /\ pc[r] \in {"incr", "ttl", "expire"}
    /\ Spend("crash")
    /\ Goto(r, "dead")
    /\ UNCHANGED <<user, redisVars, seen, counted, up>>

-----------------------------------------------------------------------------

GuardStep(r) == Incr(r) \/ Ttl(r) \/ Expire(r)

Next ==
    \/ \E r \in Requests :
           \/ Arrive(r) \/ GuardStep(r) \/ Authenticate(r)
           \/ IncrReplyLost(r) \/ RedisError(r) \/ Crash(r)
    \/ \E k \in Keys : Lapse(k)
    \/ Outage
    \/ Recover

Spec == Init /\ [][Next]_vars

-----------------------------------------------------------------------------
(* Properties                                                              *)

\* Of the requests counted under one key in one window, at most Limit are
\* admitted, whatever the interleaving of their commands in the replicas.
\* Requests let through because Redis answered an error are not among them.
WindowLimit ==
    \A q \in Requests : counted[q] # NotCounted =>
        Cardinality({r \in Requests : pc[r] = "admitted"
                                      /\ counted[r] = counted[q]}) <= Limit

\* A client is not locked out for ever: when a request is refused, the window
\* it was counted in is over or has a TTL, even if the replica that created
\* the key died before it could set one.
RefusalEnds ==
    \A r \in Requests : pc[r] = "rejected" =>
        \/ expiring[counted[r].key]
        \/ window[counted[r].key] > counted[r].window

\* project.md:186-188: authenticated users are tracked by their user id.  So
\* a user is refused only for requests of their own.
RefusedForOwnRequests ==
    \A r \in Requests : pc[r] = "rejected" /\ UserOf[r] # Anonymous =>
        Cardinality({q \in Requests : UserOf[q] = UserOf[r]
                                      /\ pc[q] # "new"}) > Limit
===============================================================================
