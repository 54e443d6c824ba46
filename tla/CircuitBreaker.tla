---------------------------- MODULE CircuitBreaker ----------------------------
(***************************************************************************)
(* wrapWithCircuitbreaker: the gateway calls the gRPC services through a   *)
(* proxy that keeps one opossum breaker per method of a wrapped client.  A *)
(* breaker gives up on a call after a timeout, refuses calls while it is   *)
(* open, and lets one trial through when its reset timer has run out.  The *)
(* error filter decides which errors count as failures; toHttpStatus turns *)
(* what is left into the answer of the controllers.                        *)
(*                                                                         *)
(* Time is explicit and counts in units of five seconds.  The rolling      *)
(* window of ten seconds is the unit under way and the one before it.      *)
(* Breakers live in memory: a gateway that restarts begins in Init, and    *)
(* replicas, and controllers that wrap the same client, share nothing.     *)
(***************************************************************************)
EXTENDS Naturals, FiniteSets

CONSTANTS
    Methods,            \* the methods of a wrapped client
    Calls,              \* requests that may be under way at the same time
    MethodOf,           \* MethodOf[c]: the method request c calls
    Timeout,            \* options.timeout, 5000 ms
    ResetTimeout,       \* options.resetTimeout, 10000 ms
    VolumeThreshold,    \* options.volumeThreshold, 5
    MaxRate,            \* bound: calls of a method per unit of time
    Budget              \* bound: how many calls of each method may fail

ASSUME BreakerAssumption ==
    /\ IsFiniteSet(Calls)
    /\ MethodOf \in [Calls -> Methods]
    /\ Timeout \in Nat
    /\ ResetTimeout \in Nat
    /\ Timeout < ResetTimeout
    /\ VolumeThreshold \in Nat
    /\ MaxRate \in Nat
    /\ Budget \in [Methods -> Nat]

ErrorThresholdPercentage == 50

Halves == {"recent", "old"}

VARIABLES
    pc,             \* per call; "lost": its answer will not come in time
    age,            \* per call: how long it has been running
    circuit,        \* per breaker: closed, open or halfOpen
    pendingClose,   \* per breaker: half-open, and the trial is still to come
    openFor,        \* per breaker: the reset timer
    fires,          \* per breaker: stats.fires in both halves of the window
    failures,       \* per breaker: stats.failures, likewise
    answer,         \* the last HTTP status a client was given
    budget          \* failures that may still happen, per method

callVars == <<pc, age>>
breakerVars == <<circuit, pendingClose, openFor, fires, failures>>
vars == <<callVars, breakerVars, answer, budget>>

TypeOK ==
    /\ pc \in [Calls -> {"idle", "running", "lost"}]
    /\ age \in [Calls -> 0 .. Timeout]
    /\ circuit \in [Methods -> {"closed", "open", "halfOpen"}]
    /\ pendingClose \in [Methods -> BOOLEAN]
    /\ \A b \in Methods : pendingClose[b] => circuit[b] = "halfOpen"
    /\ openFor \in [Methods -> 0 .. ResetTimeout]
    /\ fires \in [Methods -> [Halves -> Nat]]
    /\ failures \in [Methods -> [Halves -> Nat]]
    /\ answer \in {200, 500, 503}
    /\ budget \in [Methods -> Nat]

Empty == [h \in Halves |-> 0]

Init ==
    /\ pc = [c \in Calls |-> "idle"]
    /\ age = [c \in Calls |-> 0]
    /\ circuit = [b \in Methods |-> "closed"]
    /\ pendingClose = [b \in Methods |-> FALSE]
    /\ openFor = [b \in Methods |-> 0]
    /\ fires = [b \in Methods |-> Empty]
    /\ failures = [b \in Methods |-> Empty]
    /\ answer = 200
    /\ budget = Budget

-----------------------------------------------------------------------------
(* wrapWithCircuitbreaker and toHttpStatus                                 *)

\* Mutated: one breaker for all methods of the client.
BreakerOfService(m) == CHOOSE b \in Methods : TRUE

\* breakers, a map keyed by the name of the method.
BreakerOf(m) == m

BreakerOfCall(c) == BreakerOf(MethodOf[c])

\* Mutated: only the codes that name an error of the client.
ErrorFilterStrict(err) ==
    err \in {"INVALID_ARGUMENT", "NOT_FOUND", "ALREADY_EXISTS",
             "PERMISSION_DENIED", "UNAUTHENTICATED"}

\* The errors that are no failures: gRPC codes 2, 3, 5, 6, 7 and 16.
ErrorFilter(err) ==
    err \in {"UNKNOWN", "INVALID_ARGUMENT", "NOT_FOUND", "ALREADY_EXISTS",
             "PERMISSION_DENIED", "UNAUTHENTICATED"}

\* A timeout of the breaker, ETIMEDOUT, is not among the codes.
ToHttpStatus(err) ==
    CASE err = "INVALID_ARGUMENT"                 -> 400
      [] err = "NOT_FOUND"                        -> 404
      [] err = "ALREADY_EXISTS"                   -> 409
      [] err = "UNAUTHENTICATED"                  -> 401
      [] err = "DEADLINE_EXCEEDED"                -> 504
      [] err \in {"UNAVAILABLE", "EOPENBREAKER"}  -> 503
      [] OTHER                                    -> 500

\* The catchError of the controllers.
Throw(err) == answer' = ToHttpStatus(err)

Refuses(b) == circuit[b] # "closed" /\ ~pendingClose[b]

\* breaker.fire, also of a call that will be refused.
CountFire(b) ==
    /\ fires[b]["recent"] < MaxRate
    /\ fires' = [fires EXCEPT ![b]["recent"] = @ + 1]

\* The breaker lets the call through; in a half-open one it is the trial.
Fire(c) ==
    LET b == BreakerOfCall(c)
    IN  /\ pc[c] = "idle"
        /\ ~Refuses(b)
        /\ CountFire(b)
        /\ pc' = [pc EXCEPT ![c] = "running"]
        /\ age' = [age EXCEPT ![c] = 0]
        /\ pendingClose' = [pendingClose EXCEPT ![b] = FALSE]
        /\ UNCHANGED <<circuit, openFor, failures, answer, budget>>

Refuse(c) ==
    LET b == BreakerOfCall(c)
    IN  /\ pc[c] = "idle"
        /\ Refuses(b)
        /\ CountFire(b)
        /\ Throw("EOPENBREAKER")
        /\ UNCHANGED <<pc, age, circuit, pendingClose, openFor, failures,
                       budget>>

-----------------------------------------------------------------------------
(* The breaker                                                             *)

Stats(counter, b) == counter[b]["recent"] + counter[b]["old"]

Open(b) ==
    /\ circuit' = [circuit EXCEPT ![b] = "open"]
    /\ openFor' = [openFor EXCEPT ![b] = IF circuit[b] = "open" THEN @ ELSE 0]

\* The event "success", which a filtered error is too, ends a trial.
Success(b) ==
    /\ circuit' = [circuit EXCEPT ![b] = IF @ = "halfOpen" THEN "closed" ELSE @]
    /\ UNCHANGED <<pendingClose, openFor, failures>>

\* A failure opens a half-open circuit, and a closed one that has had enough
\* calls of which more than half have failed.
Failure(b) ==
    /\ failures' = [failures EXCEPT ![b]["recent"] = @ + 1]
    /\ IF \/ circuit[b] = "halfOpen"
          \/ /\ Stats(fires, b) >= VolumeThreshold
             /\ 100 * (Stats(failures, b) + 1)
                    > ErrorThresholdPercentage * Stats(fires, b)
       THEN Open(b)
       ELSE UNCHANGED <<circuit, openFor>>
    /\ UNCHANGED pendingClose

Return(c) ==
    /\ pc' = [pc EXCEPT ![c] = "idle"]
    /\ age' = [age EXCEPT ![c] = 0]

HandleError(c, err) ==
    /\ IF ErrorFilter(err)
       THEN Success(BreakerOfCall(c))
       ELSE Failure(BreakerOfCall(c))
    /\ Return(c)
    /\ Throw(err)

Answer(c) ==
    /\ pc[c] = "running"
    /\ Success(BreakerOfCall(c))
    /\ Return(c)
    /\ answer' = 200
    /\ UNCHANGED <<fires, budget>>

\* Every exception of a service, an HttpException of its business rules and an
\* error of its database alike, reaches the gateway as UNKNOWN.
Exception(c) ==
    /\ pc[c] = "running"
    /\ HandleError(c, "UNKNOWN")
    /\ UNCHANGED <<fires, budget>>

Spend(c) ==
    /\ budget[MethodOf[c]] > 0
    /\ budget' = [budget EXCEPT ![MethodOf[c]] = @ - 1]

\* The service cannot be reached.
Unavailable(c) ==
    /\ pc[c] = "running"
    /\ Spend(c)
    /\ HandleError(c, "UNAVAILABLE")
    /\ UNCHANGED fires

\* The service will not answer in time; what it answers later is ignored.
Hang(c) ==
    /\ pc[c] = "running"
    /\ Spend(c)
    /\ pc' = [pc EXCEPT ![c] = "lost"]
    /\ UNCHANGED <<age, breakerVars, answer>>

\* Mutated: no timeout among the options.
OverdueNever(c) == FALSE

Overdue(c) == pc[c] # "idle" /\ age[c] = Timeout

CallTimesOut(c) ==
    /\ pc[c] = "lost"
    /\ Overdue(c)
    /\ HandleError(c, "ETIMEDOUT")
    /\ UNCHANGED <<fires, budget>>

ResetDue(b) == circuit[b] = "open" /\ openFor[b] = ResetTimeout

HalfOpen(b) ==
    /\ ResetDue(b)
    /\ circuit' = [circuit EXCEPT ![b] = "halfOpen"]
    /\ pendingClose' = [pendingClose EXCEPT ![b] = TRUE]
    /\ UNCHANGED <<callVars, openFor, fires, failures, answer, budget>>

Shift(counter) ==
    [b \in Methods |-> [h \in Halves |->
        IF h = "old" THEN counter[b]["recent"] ELSE 0]]

\* A unit of time passes once all timers that are due have fired.  A call that
\* is not lost is answered before it is overdue; ages stop at a bound that only
\* a call without a timeout would reach.
Tick ==
    /\ \A c \in Calls : ~Overdue(c)
    /\ \A b \in Methods : ~ResetDue(b)
    /\ age' = [c \in Calls |-> IF pc[c] = "idle" \/ age[c] > Timeout
                               THEN age[c] ELSE age[c] + 1]
    /\ openFor' = [b \in Methods |-> IF circuit[b] = "open"
                                     THEN openFor[b] + 1 ELSE openFor[b]]
    /\ fires' = Shift(fires)
    /\ failures' = Shift(failures)
    /\ UNCHANGED <<pc, circuit, pendingClose, answer, budget>>

-----------------------------------------------------------------------------

Request(c) == Fire(c) \/ Refuse(c)

Reply(c) == Answer(c) \/ Exception(c)

Next ==
    \/ \E c \in Calls :
           \/ Request(c) \/ Reply(c)
           \/ Unavailable(c) \/ Hang(c) \/ CallTimesOut(c)
    \/ \E b \in Methods : HalfOpen(b)
    \/ Tick

Spec == Init /\ [][Next]_vars

\* Timers fire, time passes, calls that are not lost are answered, and every
\* method keeps being called: the breaker polls nothing by itself.
Fairness ==
    /\ WF_vars(Tick)
    /\ \A b \in Methods : WF_vars(HalfOpen(b))
    /\ \A c \in Calls : WF_vars(Reply(c)) /\ WF_vars(CallTimesOut(c))
    /\ \A m \in Methods : WF_vars(\E c \in Calls : MethodOf[c] = m /\ Request(c))

FairSpec == Spec /\ Fairness

-----------------------------------------------------------------------------
(* Properties                                                              *)

\* project.md:483: in a half-open circuit a single request tests the service.
\* While the trial is still to come no call is under way, and with the trial no
\* other call is, not even one from before the circuit was opened: its outcome
\* would decide in place of the trial's.
TrialIsAlone ==
    \A b \in Methods : circuit[b] = "halfOpen" =>
        Cardinality({c \in Calls : BreakerOfCall(c) = b /\ pc[c] # "idle"})
            <= IF pendingClose[b] THEN 0 ELSE 1

\* project.md:462: exceptions of the business rules do not trip the breaker
\* for other users, however many there are.  A circuit is opened for failures of
\* its own method only, and by more than half of VolumeThreshold calls.
RefusedForFailures ==
    \A m \in Methods : circuit[BreakerOf(m)] # "closed" =>
        100 * (Budget[m] - budget[m]) > ErrorThresholdPercentage * VolumeThreshold

\* When the failures of a service end, also those of trials, every circuit is
\* closed in the end and stays so.
Recovers == \A b \in Methods : <>[](circuit[b] = "closed")
=============================================================================
