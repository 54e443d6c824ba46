------------------------- MODULE RequestThrottleProofs -------------------------
(***************************************************************************)
(* Proofs about RequestThrottle for every set of requests, keys and users, *)
(* every limit and every event budget.  That a refused client is let in    *)
(* again rests on what a missing counter means: the window of a request    *)
(* that was counted under it is over.                                      *)
(***************************************************************************)
EXTENDS RequestThrottle, FiniteSetTheorems, TLAPS

\* The window of a counted request has not ended while its counter lives on.
CountedInv(r) ==
    counted[r] # NotCounted =>
        /\ counted[r].window <= window[counted[r].key]
        /\ hits[counted[r].key] = 0 =>
               counted[r].window < window[counted[r].key]

RefusedInv(r) ==
    pc[r] = "rejected" =>
        \/ expiring[counted[r].key]
        \/ window[counted[r].key] > counted[r].window

Inv == \A r \in Requests : CountedInv(r) /\ RefusedInv(r)

-----------------------------------------------------------------------------
(* Type correctness                                                        *)

LEMMA IdentifierType ==
    ASSUME TypeOK, NEW r \in Requests
    PROVE  Identifier(r) \in Keys
  BY ThrottleAssumption DEF TypeOK, Identifier, Keys

LEMMA CountedType ==
    \A k \in Keys, w \in Nat :
        /\ [key |-> k, window |-> w] \in [key : Keys, window : Nat]
        /\ [key |-> k, window |-> w] # NotCounted
  BY ThrottleAssumption DEF NotCounted, Keys

LEMMA SpendType ==
    ASSUME TypeOK, NEW kind \in EventKinds, Spend(kind)
    PROVE  budget' \in [EventKinds -> Nat]
  BY DEF Spend, TypeOK

LEMMA InitTypeOK == Init => TypeOK
  BY ThrottleAssumption DEF Init, TypeOK

LEMMA TypeStep == TypeOK /\ [Next]_vars => TypeOK'
  <1> SUFFICES ASSUME TypeOK, [Next]_vars
               PROVE  TypeOK'
    OBVIOUS
  <1> USE DEF redisVars
  <1>1. ASSUME NEW r \in Requests, Arrive(r)
        PROVE  TypeOK'
    BY <1>1
    DEF Arrive, TypeOK, Goto
  <1>2. ASSUME NEW r \in Requests, Incr(r)
        PROVE  TypeOK'
    BY <1>2, IdentifierType, CountedType
    DEF Incr, TypeOK, Goto
  <1>3. ASSUME NEW r \in Requests, IncrReplyLost(r)
        PROVE  TypeOK'
    BY <1>3, IdentifierType, SpendType
    DEF IncrReplyLost, TypeOK, EventKinds
  <1>4. ASSUME NEW r \in Requests, Ttl(r)
        PROVE  TypeOK'
    BY <1>4
    DEF Ttl, TypeOK, Goto, Decide
  <1>5. ASSUME NEW r \in Requests, Expire(r)
        PROVE  TypeOK'
    BY <1>5
    DEF Expire, TypeOK, Goto, Decide
  <1>6. ASSUME NEW r \in Requests, RedisError(r)
        PROVE  TypeOK'
    BY <1>6, SpendType
    DEF RedisError, TypeOK, Goto, EventKinds
  <1>7. ASSUME NEW r \in Requests, Authenticate(r)
        PROVE  TypeOK'
    BY <1>7, ThrottleAssumption
    DEF Authenticate, TypeOK
  <1>8. ASSUME NEW r \in Requests, Crash(r)
        PROVE  TypeOK'
    BY <1>8, SpendType
    DEF Crash, TypeOK, Goto, EventKinds
  <1>9. ASSUME NEW k \in Keys, Lapse(k)
        PROVE  TypeOK'
    BY <1>9, SpendType
    DEF Lapse, TypeOK, EventKinds
  <1>10. CASE Outage
    BY <1>10, SpendType DEF Outage, TypeOK, EventKinds
  <1>11. CASE Recover
    BY <1>11 DEF Recover, TypeOK
  <1>12. CASE UNCHANGED vars
    BY <1>12 DEF vars, TypeOK
  <1>13. QED
    BY <1>1, <1>2, <1>3, <1>4, <1>5, <1>6, <1>7, <1>8, <1>9, <1>10, <1>11,
       <1>12
    DEF Next, GuardStep

-----------------------------------------------------------------------------
(* Refused requests                                                        *)

LEMMA InvStep == TypeOK /\ Inv /\ [Next]_vars => Inv'
  <1> SUFFICES ASSUME TypeOK, Inv, [Next]_vars, NEW q \in Requests
               PROVE  CountedInv(q)' /\ RefusedInv(q)'
    BY DEF Inv
  <1>0. CountedInv(q) /\ RefusedInv(q)
    BY DEF Inv
  <1> USE DEF redisVars
  <1>1. ASSUME NEW r \in Requests, Arrive(r)
        PROVE  CountedInv(q)' /\ RefusedInv(q)'
    BY <1>0, <1>1
    DEF Arrive, TypeOK, CountedInv, RefusedInv, Goto
  <1>2. ASSUME NEW r \in Requests, Incr(r)
        PROVE  CountedInv(q)' /\ RefusedInv(q)'
    BY <1>0, <1>2, IdentifierType, CountedType
    DEF Incr, TypeOK, CountedInv, RefusedInv, Goto
  <1>3. ASSUME NEW r \in Requests, IncrReplyLost(r)
        PROVE  CountedInv(q)' /\ RefusedInv(q)'
    BY <1>0, <1>3, IdentifierType
    DEF IncrReplyLost, TypeOK, CountedInv, RefusedInv
  <1>4. ASSUME NEW r \in Requests, Ttl(r)
        PROVE  CountedInv(q)' /\ RefusedInv(q)'
    BY <1>0, <1>4
    DEF Ttl, TypeOK, CountedInv, RefusedInv, Goto, Decide
  <1>5. ASSUME NEW r \in Requests, Expire(r)
        PROVE  CountedInv(q)' /\ RefusedInv(q)'
    <2> DEFINE k == counted[r].key
    <2>1. /\ pc[r] = "expire" /\ counted[r] # NotCounted /\ k \in Keys
          /\ UNCHANGED <<hits, window, counted>>
      BY <1>5 DEF Expire, TypeOK
    <2>2. CountedInv(q)'
      BY <1>0, <2>1 DEF CountedInv
    <2>3. ASSUME NEW j \in Keys, hits[j] > 0, j = k \/ expiring[j]
          PROVE  expiring'[j]
      BY <1>5, <2>1, <2>3 DEF Expire, TypeOK
    <2>4. RefusedInv(q)'
      <3>1. SUFFICES ASSUME pc'[q] = "rejected"
                     PROVE  \/ expiring'[counted[q].key]
                            \/ window[counted[q].key] > counted[q].window
        BY <2>1 DEF RefusedInv
      <3>2. CASE q = r
        <4>1. CASE hits[k] = 0
          BY <1>0, <2>1, <3>2, <4>1 DEF CountedInv
        <4>2. CASE hits[k] > 0
          BY <2>1, <2>3, <3>2, <4>2
        <4>3. QED
          BY <2>1, <4>1, <4>2 DEF TypeOK
      <3>3. CASE q # r
        <4>1. pc[q] = "rejected" /\ counted[q].key \in Keys
          BY <1>5, <3>1, <3>3 DEF Expire, Decide, Goto, TypeOK
        <4>2. expiring[counted[q].key] => hits[counted[q].key] > 0
          BY <4>1 DEF TypeOK
        <4>3. QED
          BY <1>0, <2>3, <4>1, <4>2 DEF RefusedInv
      <3>4. QED
        BY <3>2, <3>3
    <2>5. QED
      BY <2>2, <2>4
  <1>6. ASSUME NEW r \in Requests, RedisError(r)
        PROVE  CountedInv(q)' /\ RefusedInv(q)'
    BY <1>0, <1>6
    DEF RedisError, TypeOK, CountedInv, RefusedInv, Goto
  <1>7. ASSUME NEW r \in Requests, Authenticate(r)
        PROVE  CountedInv(q)' /\ RefusedInv(q)'
    BY <1>0, <1>7
    DEF Authenticate, TypeOK, CountedInv, RefusedInv
  <1>8. ASSUME NEW r \in Requests, Crash(r)
        PROVE  CountedInv(q)' /\ RefusedInv(q)'
    BY <1>0, <1>8
    DEF Crash, TypeOK, CountedInv, RefusedInv, Goto
  <1>9. ASSUME NEW k \in Keys, Lapse(k)
        PROVE  CountedInv(q)' /\ RefusedInv(q)'
    BY <1>0, <1>9
    DEF Lapse, TypeOK, CountedInv, RefusedInv
  <1>10. CASE Outage
    BY <1>0, <1>10 DEF Outage, CountedInv, RefusedInv
  <1>11. CASE Recover
    BY <1>0, <1>11 DEF Recover, CountedInv, RefusedInv
  <1>12. CASE UNCHANGED vars
    BY <1>0, <1>12 DEF vars, CountedInv, RefusedInv
  <1>13. QED
    BY <1>1, <1>2, <1>3, <1>4, <1>5, <1>6, <1>7, <1>8, <1>9, <1>10, <1>11,
       <1>12
    DEF Next, GuardStep

LEMMA Invariance == Spec => [](TypeOK /\ Inv)
  <1>1. Init => Inv
    BY DEF Init, Inv, CountedInv, RefusedInv
  <1>2. TypeOK /\ Inv /\ [Next]_vars => (TypeOK /\ Inv)'
    BY TypeStep, InvStep
  <1>3. QED
    BY <1>1, <1>2, InitTypeOK, PTL DEF Spec

-----------------------------------------------------------------------------
(* Admitted requests                                                       *)

\* The answers to INCR within one window of a key do not exceed its counter.
SeenBelow(r) ==
    counted[r] # NotCounted =>
        /\ seen[r] \in Nat \ {0}
        /\ counted[r].window = window[counted[r].key] =>
               seen[r] <= hits[counted[r].key]

\* No two requests get the same answer in one window.
SeenDiffers(q, r) ==
    /\ q # r
    /\ counted[q] # NotCounted
    /\ counted[q] = counted[r]
    => seen[q] # seen[r]

SeenInv ==
    /\ \A r \in Requests : SeenBelow(r)
    /\ \A q, r \in Requests : SeenDiffers(q, r)
    /\ \A r \in Requests : pc[r] = "admitted" => seen[r] <= Limit

LEMMA DecideAdmits ==
    ASSUME TypeOK, SeenInv, NEW r \in Requests, Decide(r)
    PROVE  \A q \in Requests : pc'[q] = "admitted" => seen[q] <= Limit
  BY ThrottleAssumption DEF Decide, Goto, TypeOK, SeenInv

\* A new answer is above all earlier ones of its window.
LEMMA IncrSeen ==
    ASSUME TypeOK, Inv, SeenInv, NEW r \in Requests, Incr(r)
    PROVE  SeenInv'
  <1> DEFINE k == Identifier(r)
             c == [key |-> k, window |-> window[k]]
  <1>1. k \in Keys /\ c # NotCounted
    BY IdentifierType, CountedType DEF TypeOK
  <1>2. /\ hits' = [hits EXCEPT ![k] = hits[k] + 1]
        /\ seen' = [seen EXCEPT ![r] = hits[k] + 1]
        /\ counted' = [counted EXCEPT ![r] = c]
        /\ pc' = [pc EXCEPT ![r] = "ttl"]
        /\ UNCHANGED window
    BY DEF Incr, Goto
  <1>3. /\ c.key = k /\ c.window = window[k]
        /\ hits \in [Keys -> Nat] /\ window \in [Keys -> Nat]
        /\ seen \in [Requests -> Nat]
        /\ counted \in [Requests -> [key : Keys, window : Nat] \cup {NotCounted}]
        /\ pc \in [Requests -> {"new", "incr", "ttl", "expire", "admitted",
                                 "failedOpen", "rejected", "dead"}]
    BY DEF TypeOK
  <1> HIDE DEF k, c
  <1>4. ASSUME NEW q \in Requests
        PROVE  SeenBelow(q)'
    <2>1. CASE q = r
      BY <1>1, <1>2, <1>3, <2>1 DEF SeenBelow
    <2>2. CASE q # r
      BY <1>1, <1>2, <1>3, <2>2 DEF SeenInv, SeenBelow
    <2>3. QED
      BY <2>1, <2>2
  <1>5. ASSUME NEW q \in Requests, q # r, counted[q] = c
        PROVE  seen[q] <= hits[k]
    BY <1>1, <1>3, <1>5 DEF SeenInv, SeenBelow
  <1>6. ASSUME NEW p \in Requests, NEW q \in Requests
        PROVE  SeenDiffers(p, q)'
    <2>1. CASE p # r /\ q # r
      BY <1>2, <1>3, <2>1 DEF SeenInv, SeenDiffers
    <2>2. CASE p = r /\ q # r
      BY <1>2, <1>3, <1>5, <2>2 DEF SeenDiffers
    <2>3. CASE p # r /\ q = r
      BY <1>2, <1>3, <1>5, <2>3 DEF SeenDiffers
    <2>4. QED
      BY <2>1, <2>2, <2>3 DEF SeenDiffers
  <1>7. ASSUME NEW q \in Requests, pc'[q] = "admitted"
        PROVE  seen'[q] <= Limit
    BY <1>2, <1>3, <1>7 DEF SeenInv
  <1>8. QED
    BY <1>4, <1>6, <1>7 DEF SeenInv

\* A window that has ended leaves its answers behind.
LEMMA LapseSeen ==
    ASSUME TypeOK, Inv, SeenInv, NEW k \in Keys, Lapse(k)
    PROVE  SeenInv'
  <1>1. /\ window' = [window EXCEPT ![k] = @ + 1]
        /\ hits' = [hits EXCEPT ![k] = 0]
        /\ UNCHANGED <<pc, seen, counted>>
    BY DEF Lapse
  <1>2. ASSUME NEW r \in Requests
        PROVE  SeenBelow(r)'
    <2>1. CountedInv(r) /\ SeenBelow(r)
      BY DEF Inv, SeenInv
    <2>2. counted[r] # NotCounted =>
              /\ counted[r].key \in Keys /\ counted[r].window \in Nat
      BY DEF TypeOK
    <2>3. hits \in [Keys -> Nat] /\ window \in [Keys -> Nat]
      BY DEF TypeOK
    <2>4. QED
      BY <1>1, <2>1, <2>2, <2>3 DEF SeenBelow, CountedInv
  <1>3. QED
    BY <1>1, <1>2 DEF SeenInv, SeenDiffers

LEMMA SeenStep == TypeOK /\ Inv /\ SeenInv /\ [Next]_vars => SeenInv'
  <1> SUFFICES ASSUME TypeOK, Inv, SeenInv, [Next]_vars
               PROVE  SeenInv'
    OBVIOUS
  <1> USE DEF redisVars
  <1>1. ASSUME UNCHANGED <<hits, window, seen, counted>>,
               \A q \in Requests : pc'[q] = "admitted" => seen[q] <= Limit
        PROVE  SeenInv'
    BY <1>1 DEF SeenInv, SeenBelow, SeenDiffers
  <1>2. ASSUME NEW r \in Requests, Incr(r)
        PROVE  SeenInv'
    BY <1>2, IncrSeen
  <1>3. ASSUME NEW r \in Requests, Ttl(r)
        PROVE  SeenInv'
    <2>1. UNCHANGED <<hits, window, seen, counted>>
      BY <1>3 DEF Ttl
    <2>2. \A q \in Requests : pc'[q] = "admitted" => seen[q] <= Limit
      <3>1. Goto(r, "expire") =>
                \A q \in Requests : pc'[q] = "admitted" => pc[q] = "admitted"
        BY DEF Goto, TypeOK
      <3>2. QED
        BY <1>3, <3>1, DecideAdmits DEF Ttl, SeenInv
    <2>3. QED
      BY <1>1, <2>1, <2>2
  <1>4. ASSUME NEW r \in Requests, Expire(r)
        PROVE  SeenInv'
    BY <1>1, <1>4, DecideAdmits DEF Expire
  <1>5. ASSUME NEW r \in Requests,
               Arrive(r) \/ RedisError(r) \/ Authenticate(r) \/ Crash(r)
        PROVE  SeenInv'
    <2>1. UNCHANGED <<hits, window, seen, counted>>
      BY <1>5 DEF Arrive, RedisError, Authenticate, Crash
    <2>2. \A q \in Requests : pc'[q] = "admitted" => pc[q] = "admitted"
      BY <1>5 DEF Arrive, RedisError, Authenticate, Crash, Goto, TypeOK
    <2>3. QED
      BY <1>1, <2>1, <2>2 DEF SeenInv
  <1>6. ASSUME NEW r \in Requests, IncrReplyLost(r)
        PROVE  SeenInv'
    <2>1. /\ UNCHANGED <<pc, window, seen, counted>>
          /\ hits' = [hits EXCEPT ![Identifier(r)] = @ + 1]
          /\ Identifier(r) \in Keys
          /\ hits \in [Keys -> Nat]
      BY <1>6, IdentifierType DEF IncrReplyLost, TypeOK
    <2>2. ASSUME NEW q \in Requests
          PROVE  SeenBelow(q)'
      <3>1. SeenBelow(q) /\ (counted[q] # NotCounted => counted[q].key \in Keys)
        BY DEF SeenInv, TypeOK
      <3>2. \A k \in Keys : hits[k] <= hits'[k] /\ hits[k] \in Nat /\ hits'[k] \in Nat
        BY <2>1
      <3>3. QED
        BY <2>1, <3>1, <3>2 DEF SeenBelow
    <2>3. QED
      BY <2>1, <2>2 DEF SeenInv, SeenDiffers
  <1>7. ASSUME NEW k \in Keys, Lapse(k)
        PROVE  SeenInv'
    BY <1>7, LapseSeen
  <1>8. CASE Outage \/ Recover \/ UNCHANGED vars
    BY <1>1, <1>8 DEF Outage, Recover, vars, SeenInv
  <1>9. QED
    BY <1>2, <1>3, <1>4, <1>5, <1>6, <1>7, <1>8 DEF Next, GuardStep

\* The answers of the admitted requests of a window are different numbers from
\* 1 to Limit.
LEMMA SeenLimits == TypeOK /\ SeenInv => WindowLimit
  <1> SUFFICES ASSUME TypeOK, SeenInv,
                      NEW q \in Requests, counted[q] # NotCounted
               PROVE  Cardinality({r \in Requests : pc[r] = "admitted"
                                      /\ counted[r] = counted[q]}) <= Limit
    BY DEF WindowLimit
  <1> DEFINE S == {r \in Requests : pc[r] = "admitted" /\ counted[r] = counted[q]}
             T == 1 .. Limit
             f == [r \in S |-> seen[r]]
  <1>1. \A r \in S : seen[r] \in T
    BY ThrottleAssumption DEF SeenInv, SeenBelow
  <1>2. \A p, r \in S : seen[p] = seen[r] => p = r
    BY DEF SeenInv, SeenDiffers
  <1>3. f \in Injection(S, T)
    BY <1>1, <1>2 DEF Injection, IsInjective
  <1>4. IsFiniteSet(T) /\ Cardinality(T) = Limit
    BY FS_Interval, ThrottleAssumption
  <1> HIDE DEF S, T, f
  <1>5. Cardinality(S) <= Cardinality(T)
    BY <1>3, <1>4, FS_Injection
  <1>6. QED
    BY <1>4, <1>5 DEF S

-----------------------------------------------------------------------------
(* The theorems                                                            *)

\* Every reachable state of the guard and of its counters is well formed: a
\* key with a TTL exists, and a request that is past INCR has been counted.
THEOREM TypeCorrect == Spec => []TypeOK
  BY Invariance, PTL

\* RedisThrottlerGuard locks no client out for ever, however the INCR, TTL and
\* EXPIRE of any number of requests and replicas interleave and wherever
\* replicas die.
THEOREM RefusalsEnd == Spec => []RefusalEnds
  <1>1. Inv => RefusalEnds
    BY DEF Inv, RefusedInv, RefusalEnds
  <1>2. QED
    BY <1>1, Invariance, PTL

\* Of the requests that INCR counted in one window of a key at most Limit are
\* admitted, whichever replicas serve them and however their commands and those
\* that are sent again interleave with the end of the window.
THEOREM AdmissionsAreLimited == Spec => []WindowLimit
  <1>1. Init => SeenInv
    BY DEF Init, SeenInv, SeenBelow, SeenDiffers
  <1>2. TypeOK /\ Inv /\ SeenInv /\ [Next]_vars => SeenInv'
    BY SeenStep
  <1>3. QED
    BY <1>1, <1>2, SeenLimits, Invariance, PTL DEF Spec
================================================================================
