------------------------- MODULE CircuitBreakerProofs -------------------------
(***************************************************************************)
(* Proofs about CircuitBreaker for every set of methods and calls, every   *)
(* timeout shorter than the reset timeout, and every budget of failures.   *)
(* That a trial is alone is a matter of time: a call that runs while its   *)
(* circuit is open has been running for at least as long as the circuit    *)
(* has been open, so it is over before the circuit is half-open.           *)
(***************************************************************************)
EXTENDS CircuitBreaker, FiniteSetTheorems, TLAPS

Busy(c) == pc[c] # "idle"

\* Calls under way in an open circuit are older than its opening.
AgeInv(c) ==
    Busy(c) /\ circuit[MethodOf[c]] = "open" => openFor[MethodOf[c]] <= age[c]

\* A call under way in a half-open circuit is its only one, and the trial.
HalfInv(c, d) ==
    /\ Busy(c) /\ Busy(d)
    /\ MethodOf[c] = MethodOf[d]
    /\ circuit[MethodOf[c]] = "halfOpen"
    => c = d /\ ~pendingClose[MethodOf[c]]

TimeInv ==
    /\ \A c \in Calls : AgeInv(c)
    /\ \A c, d \in Calls : HalfInv(c, d)

Lost(m) == {c \in Calls : pc[c] = "lost" /\ MethodOf[c] = m}

Spent(m) == Budget[m] - budget[m]

\* Failures counted in the window, and those a timeout will still count, have
\* been paid for.
CountInv(m) ==
    /\ Stats(failures, m) + Cardinality(Lost(m)) <= Spent(m)
    /\ circuit[m] # "closed" =>
           100 * Spent(m) > ErrorThresholdPercentage * VolumeThreshold

Inv == TypeOK /\ TimeInv

-----------------------------------------------------------------------------
(* Types and time                                                          *)

\* The types that are used most, without those of pendingClose.
LEMMA Types ==
    ASSUME TypeOK
    PROVE  /\ pc \in [Calls -> {"idle", "running", "lost"}]
           /\ age \in [Calls -> 0 .. Timeout]
           /\ circuit \in [Methods -> {"closed", "open", "halfOpen"}]
           /\ openFor \in [Methods -> 0 .. ResetTimeout]
           /\ Timeout \in Nat /\ ResetTimeout \in Nat
           /\ MethodOf \in [Calls -> Methods]
  BY BreakerAssumption DEF TypeOK

LEMMA SuccessType ==
    ASSUME Inv, NEW c \in Calls, Busy(c), Success(BreakerOfCall(c)), Return(c)
    PROVE  /\ pc' \in [Calls -> {"idle", "running", "lost"}]
           /\ age' \in [Calls -> 0 .. Timeout]
           /\ circuit' \in [Methods -> {"closed", "open", "halfOpen"}]
           /\ UNCHANGED <<pendingClose, openFor, failures>>
           /\ \A b \in Methods : pendingClose'[b] => circuit'[b] = "halfOpen"
           /\ TimeInv'
  <1> DEFINE m == MethodOf[c]
  <1>0. m \in Methods /\ Timeout \in Nat
    BY BreakerAssumption
  <1> USE DEF Inv, TypeOK, BreakerOfCall, BreakerOf, Success, Return
  <1>1. /\ pc' \in [Calls -> {"idle", "running", "lost"}]
        /\ age' \in [Calls -> 0 .. Timeout]
        /\ circuit' \in [Methods -> {"closed", "open", "halfOpen"}]
        /\ UNCHANGED <<pendingClose, openFor, failures>>
    BY <1>0
  <1>2. \A b \in Methods : pendingClose'[b] => circuit'[b] = "halfOpen"
    <2>1. pendingClose[m] => circuit[m] # "halfOpen"
      BY DEF TimeInv, HalfInv
    <2>2. QED
      BY <1>0, <2>1
  <1>3. TimeInv'
    BY <1>0 DEF TimeInv, AgeInv, HalfInv, Busy
  <1>4. QED
    BY <1>1, <1>2, <1>3

LEMMA FailureType ==
    ASSUME Inv, NEW c \in Calls, Busy(c), Failure(BreakerOfCall(c)), Return(c)
    PROVE  /\ pc' \in [Calls -> {"idle", "running", "lost"}]
           /\ age' \in [Calls -> 0 .. Timeout]
           /\ circuit' \in [Methods -> {"closed", "open", "halfOpen"}]
           /\ openFor' \in [Methods -> 0 .. ResetTimeout]
           /\ failures' \in [Methods -> [Halves -> Nat]]
           /\ UNCHANGED pendingClose
           /\ \A b \in Methods : pendingClose'[b] => circuit'[b] = "halfOpen"
           /\ TimeInv'
  <1> DEFINE m == MethodOf[c]
  <1>0. m \in Methods /\ Timeout \in Nat /\ ResetTimeout \in Nat
    BY BreakerAssumption
  <1>1. \/ /\ circuit' = [circuit EXCEPT ![m] = "open"]
           /\ openFor' = [openFor EXCEPT ![m] =
                              IF circuit[m] = "open" THEN openFor[m] ELSE 0]
        \/ circuit[m] # "halfOpen" /\ circuit' = circuit /\ openFor' = openFor
    BY DEF Failure, Open, BreakerOfCall, BreakerOf
  <1>2. /\ failures' = [failures EXCEPT ![m]["recent"] = @ + 1]
        /\ UNCHANGED pendingClose
        /\ pc' = [pc EXCEPT ![c] = "idle"]
        /\ age' = [age EXCEPT ![c] = 0]
    BY DEF Failure, Return, BreakerOfCall, BreakerOf
  <1>3. failures' \in [Methods -> [Halves -> Nat]]
    BY <1>0, <1>2 DEF Inv, TypeOK, Halves
  <1>4. /\ pc' \in [Calls -> {"idle", "running", "lost"}]
        /\ age' \in [Calls -> 0 .. Timeout]
        /\ circuit' \in [Methods -> {"closed", "open", "halfOpen"}]
        /\ openFor' \in [Methods -> 0 .. ResetTimeout]
    <2>0. TypeOK
      BY DEF Inv
    <2>1. /\ pc' \in [Calls -> {"idle", "running", "lost"}]
          /\ age' \in [Calls -> 0 .. Timeout]
      BY <1>2, <2>0, Types
    <2>2. circuit' \in [Methods -> {"closed", "open", "halfOpen"}]
      BY <1>1, <2>0, Types
    <2>3. openFor' \in [Methods -> 0 .. ResetTimeout]
      BY <1>1, <2>0, Types
    <2>4. QED
      BY <2>1, <2>2, <2>3
  <1>5. \A b \in Methods : pendingClose'[b] => circuit'[b] = "halfOpen"
    <2>1. ~pendingClose[m]
      BY <1>0 DEF Inv, TypeOK, TimeInv, HalfInv
    <2>2. QED
      BY <1>0, <1>1, <1>2, <2>1 DEF Inv, TypeOK
  <1>6. TimeInv'
    <2>0. TypeOK
      BY DEF Inv
    <2>1. ASSUME NEW d \in Calls
          PROVE  AgeInv(d)'
      <3>1. AgeInv(d) /\ MethodOf[d] \in Methods
        BY BreakerAssumption DEF Inv, TimeInv
      <3>2. QED
        BY <1>1, <1>2, <2>0, <3>1, Types DEF AgeInv, Busy
    <2>2. ASSUME NEW d \in Calls, NEW e \in Calls
          PROVE  HalfInv(d, e)'
      <3>1. HalfInv(d, e) /\ HalfInv(c, d) /\ HalfInv(c, e)
        BY DEF Inv, TimeInv
      <3>2. QED
        BY <1>1, <1>2, <2>0, <3>1, Types DEF HalfInv, Busy
    <2>3. QED
      BY <2>1, <2>2 DEF TimeInv
  <1>7. QED
    BY <1>2, <1>3, <1>4, <1>5, <1>6

LEMMA SpendType ==
    ASSUME TypeOK, NEW c \in Calls, Spend(c)
    PROVE  budget' \in [Methods -> Nat]
  BY BreakerAssumption DEF Spend, TypeOK

LEMMA ThrowType ==
    ASSUME NEW err \in {"UNKNOWN", "UNAVAILABLE", "ETIMEDOUT", "EOPENBREAKER"},
           Throw(err)
    PROVE  answer' \in {200, 500, 503}
  BY DEF Throw, ToHttpStatus

LEMMA FiresType ==
    ASSUME TypeOK, NEW c \in Calls, CountFire(BreakerOfCall(c))
    PROVE  fires' \in [Methods -> [Halves -> Nat]]
  BY BreakerAssumption DEF TypeOK, CountFire, BreakerOfCall, BreakerOf, Halves

LEMMA ShiftType ==
    ASSUME NEW f \in [Methods -> [Halves -> Nat]]
    PROVE  /\ Shift(f) \in [Methods -> [Halves -> Nat]]
           /\ \A m \in Methods : Stats(Shift(f), m) = f[m]["recent"]
  BY DEF Shift, Halves, Stats

LEMMA InitInv == Init => Inv
  BY BreakerAssumption
  DEF Init, Inv, TypeOK, TimeInv, AgeInv, HalfInv, Busy, Empty

LEMMA FireStep ==
    ASSUME Inv, NEW c \in Calls, Fire(c)
    PROVE  Inv'
  <1> DEFINE m == MethodOf[c]
  <1>0. m \in Methods /\ Timeout \in Nat
    BY BreakerAssumption
  <1>1. /\ pc[c] = "idle"
        /\ circuit[m] = "closed" \/ pendingClose[m]
        /\ pc' = [pc EXCEPT ![c] = "running"]
        /\ age' = [age EXCEPT ![c] = 0]
        /\ pendingClose' = [pendingClose EXCEPT ![m] = FALSE]
        /\ UNCHANGED <<circuit, openFor, failures, answer, budget>>
    BY DEF Fire, Refuses, BreakerOfCall, BreakerOf
  <1>2. circuit[m] # "open"
    BY <1>0, <1>1 DEF Inv, TypeOK
  <1>3. TypeOK'
    <2>1. fires' \in [Methods -> [Halves -> Nat]]
      BY FiresType DEF Fire, Inv
    <2>2. /\ pc' \in [Calls -> {"idle", "running", "lost"}]
          /\ age' \in [Calls -> 0 .. Timeout]
      BY <1>0, <1>1 DEF Inv, TypeOK
    <2>3. /\ pendingClose' \in [Methods -> BOOLEAN]
          /\ \A b \in Methods : pendingClose'[b] => circuit'[b] = "halfOpen"
      BY <1>0, <1>1 DEF Inv, TypeOK
    <2>4. QED
      BY <1>1, <2>1, <2>2, <2>3 DEF Inv, TypeOK
  <1>4. TimeInv'
    <2>1. ASSUME NEW d \in Calls
          PROVE  AgeInv(d)'
      BY <1>1, <1>2 DEF Inv, TypeOK, TimeInv, AgeInv, Busy
    <2>2. ASSUME NEW d \in Calls, NEW e \in Calls
          PROVE  HalfInv(d, e)'
      <3>1. HalfInv(d, e) /\ HalfInv(d, d) /\ HalfInv(e, e)
        BY DEF Inv, TimeInv
      <3>2. QED
        BY <1>0, <1>1, <3>1, BreakerAssumption DEF Inv, TypeOK, HalfInv, Busy
    <2>3. QED
      BY <2>1, <2>2 DEF TimeInv
  <1>5. QED
    BY <1>3, <1>4 DEF Inv

LEMMA TickStep ==
    ASSUME Inv, Tick
    PROVE  Inv'
  <1>0. Timeout \in Nat /\ ResetTimeout \in Nat
    BY BreakerAssumption
  <1>1. /\ UNCHANGED <<pc, circuit, pendingClose, answer, budget>>
        /\ age' = [c \in Calls |-> IF pc[c] = "idle" \/ age[c] > Timeout
                                   THEN age[c] ELSE age[c] + 1]
        /\ openFor' = [b \in Methods |-> IF circuit[b] = "open"
                                         THEN openFor[b] + 1 ELSE openFor[b]]
    BY DEF Tick
  <1>2. \A c \in Calls : Busy(c) => age[c] < Timeout
    <2>1. age \in [Calls -> 0 .. Timeout]
      BY DEF Inv, TypeOK
    <2>2. \A c \in Calls : ~(pc[c] # "idle" /\ age[c] = Timeout)
      BY DEF Tick, Overdue
    <2>3. QED
      BY <1>0, <2>1, <2>2 DEF Busy
  <1>3. \A b \in Methods : circuit[b] = "open" => openFor[b] < ResetTimeout
    <2>1. TypeOK /\ \A b \in Methods : ~(circuit[b] = "open" /\ openFor[b] = ResetTimeout)
      BY DEF Inv, Tick, ResetDue
    <2>2. QED
      BY <2>1, Types
  <1>4. fires' \in [Methods -> [Halves -> Nat]]
        /\ failures' \in [Methods -> [Halves -> Nat]]
    BY ShiftType DEF Tick, Inv, TypeOK
  <1>5. age' \in [Calls -> 0 .. Timeout]
    BY <1>0, <1>1, <1>2 DEF Inv, TypeOK, Busy
  <1>6. openFor' \in [Methods -> 0 .. ResetTimeout]
    BY <1>0, <1>1, <1>3 DEF Inv, TypeOK
  <1>7. TypeOK'
    BY <1>1, <1>4, <1>5, <1>6 DEF Inv, TypeOK
  <1>8. TimeInv'
    <2>1. ASSUME NEW c \in Calls
          PROVE  AgeInv(c)'
      <3>1. AgeInv(c) /\ MethodOf[c] \in Methods
        BY BreakerAssumption DEF Inv, TimeInv
      <3>2. QED
        BY <1>0, <1>1, <1>2, <3>1 DEF AgeInv, Busy, Inv, TypeOK
    <2>2. \A c, d \in Calls : HalfInv(c, d)'
      BY <1>1 DEF Inv, TimeInv, HalfInv, Busy
    <2>3. QED
      BY <2>1, <2>2 DEF TimeInv
  <1>9. QED
    BY <1>7, <1>8 DEF Inv

LEMMA HalfOpenStep ==
    ASSUME Inv, NEW b \in Methods, HalfOpen(b)
    PROVE  Inv'
  <1>0. Timeout \in Nat /\ ResetTimeout \in Nat /\ Timeout < ResetTimeout
    BY BreakerAssumption
  <1>1. /\ circuit[b] = "open" /\ openFor[b] = ResetTimeout
        /\ circuit' = [circuit EXCEPT ![b] = "halfOpen"]
        /\ pendingClose' = [pendingClose EXCEPT ![b] = TRUE]
        /\ UNCHANGED <<pc, age, openFor, fires, failures, answer, budget>>
    BY DEF HalfOpen, ResetDue, callVars
  <1>2. \A c \in Calls : MethodOf[c] = b => ~Busy(c)
    BY <1>0, <1>1 DEF Inv, TypeOK, TimeInv, AgeInv
  <1>3. TypeOK'
    BY <1>1 DEF Inv, TypeOK
  <1>4. TimeInv'
    BY <1>1, <1>2, BreakerAssumption
    DEF Inv, TypeOK, TimeInv, AgeInv, HalfInv, Busy
  <1>5. QED
    BY <1>3, <1>4 DEF Inv

LEMMA InvStep == Inv /\ [Next]_vars => Inv'
  <1> SUFFICES ASSUME Inv, [Next]_vars
               PROVE  Inv'
    OBVIOUS
  <1>1. ASSUME NEW c \in Calls, Fire(c)
        PROVE  Inv'
    BY <1>1, FireStep
  <1>2. ASSUME NEW c \in Calls, Refuse(c)
        PROVE  Inv'
    <2>1. fires' \in [Methods -> [Halves -> Nat]] /\ answer' \in {200, 500, 503}
      BY <1>2, FiresType, ThrowType DEF Refuse, Inv
    <2>2. QED
      BY <1>2, <2>1
      DEF Refuse, Inv, TypeOK, TimeInv, AgeInv, HalfInv, Busy
  <1>3. ASSUME NEW c \in Calls, Answer(c)
        PROVE  Inv'
    <2>1. Busy(c)
      BY <1>3 DEF Answer, Busy
    <2>2. QED
      BY <1>3, <2>1, SuccessType DEF Answer, Inv, TypeOK
  <1>4. ASSUME NEW c \in Calls, Exception(c)
        PROVE  Inv'
    <2>1. /\ Busy(c) /\ Success(BreakerOfCall(c)) /\ Return(c)
          /\ Throw("UNKNOWN") /\ UNCHANGED <<fires, budget>>
      BY <1>4 DEF Exception, Busy, HandleError, ErrorFilter
    <2>2. QED
      BY <2>1, SuccessType, ThrowType DEF Inv, TypeOK
  <1>5. ASSUME NEW c \in Calls, Unavailable(c)
        PROVE  Inv'
    <2>1. /\ Busy(c) /\ Failure(BreakerOfCall(c)) /\ Return(c)
          /\ Throw("UNAVAILABLE") /\ Spend(c) /\ UNCHANGED fires
      BY <1>5 DEF Unavailable, Busy, HandleError, ErrorFilter
    <2>2. QED
      BY <2>1, FailureType, ThrowType, SpendType DEF Inv, TypeOK
  <1>6. ASSUME NEW c \in Calls, Hang(c)
        PROVE  Inv'
    <2>1. Spend(c) /\ budget' \in [Methods -> Nat]
      BY <1>6, SpendType DEF Hang, Inv
    <2>2. QED
      BY <1>6, <2>1
      DEF Hang, breakerVars, Inv, TypeOK, TimeInv, AgeInv, HalfInv, Busy
  <1>7. ASSUME NEW c \in Calls, CallTimesOut(c)
        PROVE  Inv'
    <2>1. /\ Busy(c) /\ Failure(BreakerOfCall(c)) /\ Return(c)
          /\ Throw("ETIMEDOUT") /\ UNCHANGED <<fires, budget>>
      BY <1>7 DEF CallTimesOut, Busy, HandleError, ErrorFilter
    <2>2. QED
      BY <2>1, FailureType, ThrowType DEF Inv, TypeOK
  <1>8. ASSUME NEW b \in Methods, HalfOpen(b)
        PROVE  Inv'
    BY <1>8, HalfOpenStep
  <1>9. CASE Tick
    BY <1>9, TickStep
  <1>10. CASE UNCHANGED vars
    BY <1>10
    DEF vars, callVars, breakerVars, Inv, TypeOK, TimeInv, AgeInv, HalfInv, Busy
  <1>11. QED
    BY <1>1, <1>2, <1>3, <1>4, <1>5, <1>6, <1>7, <1>8, <1>9, <1>10
    DEF Next, Request, Reply

LEMMA Invariance == Spec => []Inv
  BY InitInv, InvStep, PTL DEF Spec

-----------------------------------------------------------------------------
(* Failures                                                                *)

LEMMA LostType ==
    /\ \A S \in SUBSET Calls : IsFiniteSet(S) /\ Cardinality(S) \in Nat
    /\ \A m \in Methods : Lost(m) \in SUBSET Calls /\ Lost(m)' \in SUBSET Calls
  <1>1. \A S \in SUBSET Calls : IsFiniteSet(S)
    BY BreakerAssumption, FS_Subset
  <1>2. QED
    BY <1>1, FS_CardinalityType DEF Lost

LEMMA CountTypes ==
    ASSUME TypeOK, NEW m \in Methods
    PROVE  /\ Stats(failures, m) \in Nat /\ Stats(fires, m) \in Nat
           /\ Budget[m] \in Nat /\ budget[m] \in Nat
           /\ circuit[m] \in {"closed", "open", "halfOpen"}
           /\ VolumeThreshold \in Nat
  BY BreakerAssumption DEF TypeOK, Stats, Halves

\* A step that opens no circuit and counts no failure, and that loses a call
\* only if it pays for it.
LEMMA CountKept ==
    ASSUME TypeOK, TypeOK', NEW m \in Methods, CountInv(m),
           Stats(failures, m)' <= Stats(failures, m),
           Cardinality(Lost(m)') + budget'[m] <= Cardinality(Lost(m)) + budget[m],
           budget'[m] <= budget[m],
           circuit'[m] # "closed" => circuit[m] # "closed"
    PROVE  CountInv(m)'
  <1>1. Stats(failures, m)' \in Nat /\ budget'[m] \in Nat
    BY DEF TypeOK, Stats, Halves
  <1>2. Cardinality(Lost(m)') \in Nat /\ Cardinality(Lost(m)) \in Nat
    BY LostType
  <1>3. QED
    BY <1>1, <1>2, CountTypes DEF CountInv, Spent, ErrorThresholdPercentage

\* A failure was paid for just now, or when its call was lost.
LEMMA CountFailure ==
    ASSUME TypeOK, TypeOK', \A m \in Methods : CountInv(m),
           NEW c \in Calls, Failure(BreakerOfCall(c)),
           \A m \in Methods :
               /\ budget'[m] <= budget[m]
               /\ Cardinality(Lost(m)') + (IF m = MethodOf[c] THEN 1 ELSE 0)
                      + budget'[m] <= Cardinality(Lost(m)) + budget[m]
    PROVE  \A m \in Methods : CountInv(m)'
  <1> SUFFICES ASSUME NEW m \in Methods
               PROVE  CountInv(m)'
    OBVIOUS
  <1> DEFINE b == MethodOf[c]
  <1>1. /\ failures' = [failures EXCEPT ![b]["recent"] = @ + 1]
        /\ b \in Methods
        /\ \/ /\ circuit' = [circuit EXCEPT ![b] = "open"]
              /\ \/ circuit[b] = "halfOpen"
                 \/ /\ Stats(fires, b) >= VolumeThreshold
                    /\ 100 * (Stats(failures, b) + 1)
                           > ErrorThresholdPercentage * Stats(fires, b)
           \/ circuit' = circuit
    BY BreakerAssumption DEF Failure, Open, BreakerOfCall, BreakerOf
  <1>2. CASE m # b
    <2>1. Stats(failures, m)' = Stats(failures, m) /\ circuit'[m] = circuit[m]
      BY <1>1, <1>2 DEF Stats, TypeOK
    <2>2. Cardinality(Lost(m)') + budget'[m] <= Cardinality(Lost(m)) + budget[m]
      <3>1. Cardinality(Lost(m)') \in Nat /\ budget'[m] \in Nat
        BY LostType DEF TypeOK
      <3>2. QED
        BY <1>2, <3>1
    <2>3. QED
      BY <2>1, <2>2, CountKept, CountTypes
  <1>3. CASE m = b
    <2>1. Stats(failures, m)' = Stats(failures, m) + 1
      BY <1>1, <1>3 DEF Stats, TypeOK, Halves
    <2>2. /\ budget'[m] \in Nat
          /\ Cardinality(Lost(m)') \in Nat /\ Cardinality(Lost(m)) \in Nat
      BY LostType DEF TypeOK
    <2>3. /\ budget'[m] <= budget[m]
          /\ Cardinality(Lost(m)') + 1 + budget'[m]
                 <= Cardinality(Lost(m)) + budget[m]
      BY <1>3
    <2>4. Stats(failures, m)' + Cardinality(Lost(m)') <= Spent(m)'
      BY <2>1, <2>2, <2>3, CountTypes DEF CountInv, Spent
    <2>5. ASSUME circuit'[m] # "closed"
          PROVE  100 * Spent(m)' > ErrorThresholdPercentage * VolumeThreshold
      <3>1. CASE circuit[m] # "closed"
        BY <2>2, <2>3, <3>1, CountTypes
        DEF CountInv, Spent, ErrorThresholdPercentage
      <3>2. CASE circuit[m] = "closed"
        <4>1. /\ Stats(fires, m) >= VolumeThreshold
              /\ 100 * (Stats(failures, m) + 1)
                     > ErrorThresholdPercentage * Stats(fires, m)
          BY <1>1, <1>3, <2>5, <3>2
        <4>2. Stats(failures, m) + 1 <= Spent(m)' /\ Spent(m)' \in Int
          BY <2>1, <2>2, <2>4, CountTypes DEF Spent
        <4>3. QED
          BY <4>1, <4>2, CountTypes DEF ErrorThresholdPercentage
      <3>3. QED
        BY <3>1, <3>2
    <2>6. QED
      BY <2>4, <2>5 DEF CountInv
  <1>4. QED
    BY <1>2, <1>3

LEMMA CountStep == Inv /\ (\A m \in Methods : CountInv(m)) /\ [Next]_vars
                   => (\A m \in Methods : CountInv(m))'
  <1> SUFFICES ASSUME Inv, \A m \in Methods : CountInv(m), [Next]_vars
               PROVE  \A m \in Methods : CountInv(m)'
    OBVIOUS
  <1>0. TypeOK /\ TypeOK'
    BY InvStep DEF Inv
  <1>q. \A m \in Methods : Cardinality(Lost(m)) \in Nat
    BY LostType
  \* Steps that touch neither the counters of failures nor the lost calls.
  <1>1. ASSUME UNCHANGED <<failures, budget>>,
               \A m \in Methods : Lost(m)' = Lost(m),
               \A m \in Methods : circuit'[m] # "closed" => circuit[m] # "closed"
        PROVE  \A m \in Methods : CountInv(m)'
    <2> SUFFICES ASSUME NEW m \in Methods
                 PROVE  CountInv(m)'
      OBVIOUS
    <2>1. Stats(failures, m)' = Stats(failures, m)
      BY <1>1 DEF Stats
    <2>2. QED
      BY <1>0, <1>1, <1>q, <2>1, CountKept, CountTypes
  <1>2. ASSUME NEW c \in Calls, Request(c)
        PROVE  \A m \in Methods : CountInv(m)'
    <2>1. \A m \in Methods : Lost(m)' = Lost(m)
      BY <1>0, <1>2 DEF Request, Fire, Refuse, Lost, TypeOK
    <2>2. QED
      BY <1>1, <1>2, <2>1 DEF Request, Fire, Refuse
  <1>3. ASSUME NEW c \in Calls, Reply(c)
        PROVE  \A m \in Methods : CountInv(m)'
    <2>1. /\ pc[c] = "running" /\ Success(BreakerOfCall(c)) /\ Return(c)
          /\ UNCHANGED budget
      BY <1>3 DEF Reply, Answer, Exception, HandleError, ErrorFilter
    <2>2. \A m \in Methods : Lost(m)' = Lost(m)
      BY <1>0, <2>1 DEF Return, Lost, TypeOK
    <2>3. /\ UNCHANGED failures
          /\ \A m \in Methods : circuit'[m] # "closed" => circuit[m] # "closed"
      BY <1>0, <2>1 DEF Success, TypeOK
    <2>4. QED
      BY <1>1, <2>1, <2>2, <2>3
  <1>4. ASSUME NEW c \in Calls, Unavailable(c)
        PROVE  \A m \in Methods : CountInv(m)'
    <2>1. /\ pc[c] = "running" /\ Failure(BreakerOfCall(c)) /\ Return(c)
          /\ Spend(c)
      BY <1>4 DEF Unavailable, HandleError, ErrorFilter
    <2>2. \A m \in Methods : Lost(m)' = Lost(m)
      BY <1>0, <2>1 DEF Return, Lost, TypeOK
    <2>3. \A m \in Methods :
              /\ budget'[m] <= budget[m]
              /\ Cardinality(Lost(m)') + (IF m = MethodOf[c] THEN 1 ELSE 0)
                     + budget'[m] <= Cardinality(Lost(m)) + budget[m]
      BY <1>0, <1>q, <2>1, <2>2 DEF Spend, TypeOK
    <2>4. QED
      BY <1>0, <2>1, <2>3, CountFailure
  <1>5. ASSUME NEW c \in Calls, Hang(c)
        PROVE  \A m \in Methods : CountInv(m)'
    <2> SUFFICES ASSUME NEW m \in Methods
                 PROVE  CountInv(m)'
      OBVIOUS
    <2>1. /\ pc[c] = "running" /\ pc' = [pc EXCEPT ![c] = "lost"] /\ Spend(c)
          /\ circuit' = circuit /\ failures' = failures
      BY <1>5 DEF Hang, breakerVars
    <2>2. Stats(failures, m)' = Stats(failures, m)
      BY <2>1 DEF Stats
    <2>3. Cardinality(Lost(m)') + budget'[m] <= Cardinality(Lost(m)) + budget[m]
      <3>1. CASE m = MethodOf[c]
        <4>1. Lost(m)' = Lost(m) \cup {c} /\ c \notin Lost(m)
          BY <1>0, <2>1, <3>1 DEF Lost, TypeOK
        <4>2. Cardinality(Lost(m)') = Cardinality(Lost(m)) + 1
          BY <4>1, LostType, FS_AddElement
        <4>3. budget'[m] = budget[m] - 1 /\ budget[m] \in Nat
          BY <1>0, <2>1, <3>1 DEF Spend, TypeOK
        <4>4. QED
          BY <1>q, <4>2, <4>3
      <3>2. CASE m # MethodOf[c]
        <4>1. Lost(m)' = Lost(m) /\ budget'[m] = budget[m] /\ budget[m] \in Nat
          BY <1>0, <2>1, <3>2 DEF Lost, TypeOK, Spend
        <4>2. QED
          BY <1>q, <4>1
      <3>3. QED
        BY <3>1, <3>2
    <2>4. budget'[m] <= budget[m]
      BY <1>0, <2>1 DEF Spend, TypeOK
    <2>5. QED
      BY <1>0, <2>1, <2>2, <2>3, <2>4, CountKept, CountTypes
  <1>6. ASSUME NEW c \in Calls, CallTimesOut(c)
        PROVE  \A m \in Methods : CountInv(m)'
    <2>1. /\ pc[c] = "lost" /\ Failure(BreakerOfCall(c)) /\ Return(c)
          /\ budget' = budget
      BY <1>6 DEF CallTimesOut, HandleError, ErrorFilter
    <2>2. \A m \in Methods : Lost(m)' = Lost(m) \ {c}
      BY <1>0, <2>1 DEF Return, Lost, TypeOK
    <2>3. \A m \in Methods : Cardinality(Lost(m)')
              = Cardinality(Lost(m)) - (IF m = MethodOf[c] THEN 1 ELSE 0)
      <3> SUFFICES ASSUME NEW m \in Methods
                   PROVE  Cardinality(Lost(m)')
                          = Cardinality(Lost(m)) - (IF m = MethodOf[c] THEN 1 ELSE 0)
        OBVIOUS
      <3>1. CASE m = MethodOf[c]
        <4>1. c \in Lost(m) /\ IsFiniteSet(Lost(m))
          BY <2>1, <3>1, LostType DEF Lost
        <4>2. QED
          BY <2>2, <3>1, <4>1, FS_RemoveElement
      <3>2. CASE m # MethodOf[c]
        <4>1. Lost(m)' = Lost(m)
          BY <2>2, <3>2 DEF Lost
        <4>2. QED
          BY <1>q, <3>2, <4>1
      <3>3. QED
        BY <3>1, <3>2
    <2>4. \A m \in Methods :
              /\ budget'[m] <= budget[m]
              /\ Cardinality(Lost(m)') + (IF m = MethodOf[c] THEN 1 ELSE 0)
                     + budget'[m] <= Cardinality(Lost(m)) + budget[m]
      BY <1>0, <1>q, <2>1, <2>3 DEF TypeOK
    <2>5. QED
      BY <1>0, <2>1, <2>4, CountFailure
  <1>7. ASSUME NEW b \in Methods, HalfOpen(b)
        PROVE  \A m \in Methods : CountInv(m)'
    <2>1. \A m \in Methods : Lost(m)' = Lost(m)
      BY <1>7 DEF HalfOpen, callVars, Lost
    <2>2. \A m \in Methods : circuit'[m] # "closed" => circuit[m] # "closed"
      BY <1>0, <1>7 DEF HalfOpen, ResetDue, TypeOK
    <2>3. QED
      BY <1>1, <1>7, <2>1, <2>2 DEF HalfOpen
  <1>8. CASE Tick
    <2> SUFFICES ASSUME NEW m \in Methods
                 PROVE  CountInv(m)'
      OBVIOUS
    <2>1. Stats(failures, m)' <= Stats(failures, m)
      <3>1. failures \in [Methods -> [Halves -> Nat]] /\ failures' = Shift(failures)
        BY <1>0, <1>8 DEF Tick, TypeOK
      <3>2. QED
        BY <3>1, ShiftType DEF Stats, Halves
    <2>2. /\ Lost(m)' = Lost(m)
          /\ UNCHANGED <<circuit, budget>>
      BY <1>8 DEF Tick, Lost
    <2>3. QED
      BY <1>0, <1>q, <2>1, <2>2, CountKept, CountTypes
  <1>9. CASE UNCHANGED vars
    <2>1. \A m \in Methods : Lost(m)' = Lost(m)
      BY <1>9 DEF vars, callVars, Lost
    <2>2. QED
      BY <1>1, <1>9, <2>1 DEF vars, breakerVars
  <1>10. QED
    BY <1>2, <1>3, <1>4, <1>5, <1>6, <1>7, <1>8, <1>9 DEF Next

-----------------------------------------------------------------------------
(* The theorems                                                            *)

\* Every reachable state of the proxy and its breakers is well typed: no call is
\* under way for longer than the timeout, and only half-open circuits wait for
\* a trial.
THEOREM TypeCorrect == Spec => []TypeOK
  BY Invariance, PTL DEF Inv

\* The breakers of wrapWithCircuitbreaker test a service with a single request,
\* whatever was under way when the circuit was opened, because the timeout of a
\* call is shorter than the reset timeout.
THEOREM TrialsAreAlone == Spec => []TrialIsAlone
  <1>1. Inv => TrialIsAlone
    <2> SUFFICES ASSUME Inv, NEW b \in Methods, circuit[b] = "halfOpen"
                 PROVE  LET S == {c \in Calls : BreakerOfCall(c) = b
                                                /\ pc[c] # "idle"}
                        IN  Cardinality(S) <= IF pendingClose[b] THEN 0 ELSE 1
      BY DEF TrialIsAlone
    <2> DEFINE S == {c \in Calls : BreakerOfCall(c) = b /\ pc[c] # "idle"}
    <2>1. \A c, d \in S : c = d /\ ~pendingClose[b]
      BY DEF Inv, TimeInv, HalfInv, Busy, BreakerOfCall, BreakerOf
    <2>2. CASE S = {}
      BY <2>2, FS_EmptySet
    <2>3. CASE S # {}
      <3>1. PICK c \in S : TRUE
        BY <2>3
      <3>2. S = {c}
        BY <2>1, <3>1
      <3>3. Cardinality(S) = 1 /\ ~pendingClose[b]
        BY <2>1, <3>1, <3>2, FS_Singleton
      <3>4. QED
        BY <3>3
    <2>4. QED
      BY <2>2, <2>3
  <1>2. QED
    BY <1>1, Invariance, PTL

\* No circuit is opened by exceptions of the business rules or by failures of
\* another method: more than half of VolumeThreshold calls of the method itself
\* have timed out or found the service out of reach.
THEOREM RefusalsHaveFailures == Spec => []RefusedForFailures
  <1> DEFINE Counts == \A m \in Methods : CountInv(m)
  <1>1. Init => Counts
    <2> SUFFICES ASSUME Init, NEW m \in Methods
                 PROVE  CountInv(m)
      OBVIOUS
    <2>1. Lost(m) = {}
      BY DEF Init, Lost
    <2>2. Stats(failures, m) = 0 /\ Spent(m) = 0
      BY BreakerAssumption DEF Init, Stats, Empty, Halves, Spent
    <2>3. QED
      BY <2>1, <2>2, FS_EmptySet DEF Init, CountInv
  <1>2. Inv /\ Counts /\ [Next]_vars => Counts'
    BY CountStep
  <1>3. Counts => RefusedForFailures
    BY DEF CountInv, RefusedForFailures, BreakerOf, Spent
  <1>4. QED
    BY <1>1, <1>2, <1>3, Invariance, PTL DEF Spec
===============================================================================
