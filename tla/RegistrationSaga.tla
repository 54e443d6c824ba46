--------------------------- MODULE RegistrationSaga ---------------------------
(***************************************************************************)
(* The registration saga of api-gateway: RegistrationSagaService calls     *)
(* auth-service and task-service over gRPC, then notification-service over *)
(* RabbitMQ, and undoes the completed steps in reverse order when one      *)
(* fails.  The list of undo actions lives in the memory of the gateway.    *)
(*                                                                         *)
(* A gRPC call goes through a circuit breaker with a timeout: the gateway  *)
(* may see an error for a call the server has answered, is still working   *)
(* on, or never received.  The RabbitMQ request has no timeout, and its    *)
(* message is never acknowledged (noAck is false and no handler acks), so  *)
(* it comes again whenever the channel of the consumer is reopened.        *)
(*                                                                         *)
(* Not modelled here: the statistics by which a breaker opens, tokens and  *)
(* passwords, other callers of the services, and the undo action of step   *)
(* 3, which is pushed after the last call that can fail and never runs.    *)
(***************************************************************************)
EXTENDS Naturals, Sequences, FiniteSets

CONSTANTS
    Requests,       \* POST /auth/register-saga requests
    Emails,
    EmailOf,        \* EmailOf[r]: the e-mail address r registers
    Budget          \* bound: how often each kind of fault may happen

FaultKinds == {"serverFails", "storedFails", "timeout", "rejected", "undoFails",
               "redelivery", "replyLost", "crash"}

ASSUME SagaAssumption ==
    /\ EmailOf \in [Requests -> Emails]
    /\ Budget \in [FaultKinds -> Nat]

VARIABLES
    pc,         \* where executeRegistrationSaga is for each request
    undo,       \* rollbackActions, oldest first: "user", "task"
    auth,       \* the register call in auth-service
    task,       \* the createSaga call in task-service
    note,       \* the notification.sendSaga message in RabbitMQ
    reply,      \* the answer to that message
    users,      \* requests whose user is in the auth collection
    tasks,      \* requests whose welcome task is in the tasks collection
    notes,      \* welcome notifications stored for each request
    late,       \* undo calls the gateway gave up on, still to be executed
    budget      \* faults that may still happen

gatewayVars == <<pc, undo>>
serverVars  == <<auth, task, note, reply, users, tasks, notes, late>>
vars == <<pc, undo, auth, task, note, reply, users, tasks, notes, late, budget>>

Undoable == {"user", "task"}

TypeOK ==
    /\ pc \in [Requests -> {"start", "register", "createTask", "notify",
                            "rollback", "done", "failed", "dead"}]
    /\ undo \in [Requests -> {<<>>, <<"user">>, <<"user", "task">>}]
    /\ auth \in [Requests -> {"none", "called", "checked", "created", "refused"}]
    /\ task \in [Requests -> {"none", "called", "created", "refused"}]
    /\ note \in [Requests -> {"none", "queued", "unacked"}]
    /\ reply \in [Requests -> {"none", "ok", "error"}]
    /\ users \subseteq Requests
    /\ tasks \subseteq Requests
    /\ notes \in [Requests -> Nat]
    /\ late \subseteq Undoable \X Requests
    /\ budget \in [FaultKinds -> Nat]

Init ==
    /\ pc = [r \in Requests |-> "start"]
    /\ undo = [r \in Requests |-> <<>>]
    /\ auth = [r \in Requests |-> "none"]
    /\ task = [r \in Requests |-> "none"]
    /\ note = [r \in Requests |-> "none"]
    /\ reply = [r \in Requests |-> "none"]
    /\ users = {}
    /\ tasks = {}
    /\ notes = [r \in Requests |-> 0]
    /\ late = {}
    /\ budget = Budget

Spend(kind) ==
    /\ budget[kind] > 0
    /\ budget' = [budget EXCEPT ![kind] = @ - 1]

Goto(r, label) == pc' = [pc EXCEPT ![r] = label]

Push(r, action) == undo' = [undo EXCEPT ![r] = Append(@, action)]

-----------------------------------------------------------------------------
(* auth-service: AuthService.register                                      *)

EmailTaken(r) == \E q \in users : EmailOf[q] = EmailOf[r]

\* findOne({ email }); the hash of the password is computed after it.
AuthCheck(r) ==
    /\ auth[r] = "called"
    /\ auth' = [auth EXCEPT ![r] = IF EmailTaken(r) THEN "refused" ELSE "checked"]
    /\ UNCHANGED <<gatewayVars, task, note, reply, users, tasks, notes, late,
                   budget>>

AuthCreate(r) ==
    /\ auth[r] = "checked"
    /\ auth' = [auth EXCEPT ![r] = "created"]
    /\ users' = users \cup {r}
    /\ UNCHANGED <<gatewayVars, task, note, reply, tasks, notes, late, budget>>

\* findOne, the hash or the create fails, and nothing is stored.
AuthFails(r) ==
    /\ auth[r] \in {"called", "checked"}
    /\ Spend("serverFails")
    /\ auth' = [auth EXCEPT ![r] = "refused"]
    /\ UNCHANGED <<gatewayVars, task, note, reply, users, tasks, notes, late>>

\* The user is stored, but the call ends in an error: the token cannot be
\* signed, or MongoDB reports a failure of a write it has applied.
AuthStoresAndFails(r) ==
    /\ auth[r] = "checked"
    /\ Spend("storedFails")
    /\ auth' = [auth EXCEPT ![r] = "refused"]
    /\ users' = users \cup {r}
    /\ UNCHANGED <<gatewayVars, task, note, reply, tasks, notes, late>>

-----------------------------------------------------------------------------
(* task-service: TaskService.createSaga                                    *)

TaskCreate(r) ==
    /\ task[r] = "called"
    /\ task' = [task EXCEPT ![r] = "created"]
    /\ tasks' = tasks \cup {r}
    /\ UNCHANGED <<gatewayVars, auth, note, reply, users, notes, late, budget>>

TaskFails(r) ==
    /\ task[r] = "called"
    /\ Spend("serverFails")
    /\ task' = [task EXCEPT ![r] = "refused"]
    /\ UNCHANGED <<gatewayVars, auth, note, reply, users, tasks, notes, late>>

\* The task is stored, but MongoDB reports a failure.
TaskStoresAndFails(r) ==
    /\ task[r] = "called"
    /\ Spend("storedFails")
    /\ task' = [task EXCEPT ![r] = "refused"]
    /\ tasks' = tasks \cup {r}
    /\ UNCHANGED <<gatewayVars, auth, note, reply, users, notes, late>>

-----------------------------------------------------------------------------
(* notification-service: sendSaga                                          *)

\* The first answer to a message is the one the gateway takes.
Answer(r, answer) ==
    reply' = [reply EXCEPT ![r] = IF @ = "none" THEN answer ELSE @]

\* Mutated: the handler answers before it has stored the notification.
NotifyAnswersFirst(r) ==
    /\ note[r] = "queued"
    /\ note' = [note EXCEPT ![r] = "unacked"]
    /\ Answer(r, "ok")
    /\ UNCHANGED <<gatewayVars, auth, task, users, tasks, notes, late, budget>>

\* Mutated: the message goes back to the queue when its handler is through.
NotifyRepeats(r) ==
    /\ note[r] = "queued"
    /\ notes' = [notes EXCEPT ![r] = @ + 1]
    /\ Answer(r, "ok")
    /\ UNCHANGED <<gatewayVars, auth, task, note, users, tasks, late, budget>>

NotifyCreate(r) ==
    /\ note[r] = "queued"
    /\ note' = [note EXCEPT ![r] = "unacked"]
    /\ notes' = [notes EXCEPT ![r] = @ + 1]
    /\ Answer(r, "ok")
    /\ UNCHANGED <<gatewayVars, auth, task, users, tasks, late, budget>>

NotifyFails(r) ==
    /\ note[r] = "queued"
    /\ Spend("serverFails")
    /\ note' = [note EXCEPT ![r] = "unacked"]
    /\ Answer(r, "error")
    /\ UNCHANGED <<gatewayVars, auth, task, users, tasks, notes, late>>

\* The notification is stored, but MongoDB reports a failure.
NotifyStoresAndFails(r) ==
    /\ note[r] = "queued"
    /\ Spend("storedFails")
    /\ note' = [note EXCEPT ![r] = "unacked"]
    /\ notes' = [notes EXCEPT ![r] = @ + 1]
    /\ Answer(r, "error")
    /\ UNCHANGED <<gatewayVars, auth, task, users, tasks, late>>

\* The consumer restarts, or RabbitMQ closes its channel because the ack is
\* overdue: every message that was not acknowledged is delivered again.
Redeliver ==
    /\ \E r \in Requests : note[r] = "unacked"
    /\ Spend("redelivery")
    /\ note' = [r \in Requests |-> IF note[r] = "unacked" THEN "queued" ELSE note[r]]
    /\ UNCHANGED <<gatewayVars, auth, task, reply, users, tasks, notes, late>>

-----------------------------------------------------------------------------
(* The gateway: executeRegistrationSaga                                    *)

\* The request arrives and register is called.
Start(r) ==
    /\ pc[r] = "start"
    /\ Goto(r, "register")
    /\ auth' = [auth EXCEPT ![r] = "called"]
    /\ UNCHANGED <<undo, task, note, reply, users, tasks, notes, late, budget>>

\* Mutated: the undo action of step 1 is forgotten.
UserRegisteredNoUndo(r) ==
    /\ pc[r] = "register"
    /\ auth[r] = "created"
    /\ Goto(r, "createTask")
    /\ task' = [task EXCEPT ![r] = "called"]
    /\ UNCHANGED <<undo, auth, note, reply, users, tasks, notes, late, budget>>

\* register answers with a user: its undo is pushed, createSaga is called.
UserRegistered(r) ==
    /\ pc[r] = "register"
    /\ auth[r] = "created"
    /\ Push(r, "user")
    /\ Goto(r, "createTask")
    /\ task' = [task EXCEPT ![r] = "called"]
    /\ UNCHANGED <<auth, note, reply, users, tasks, notes, late, budget>>

\* createSaga answers with a task: its undo is pushed, the message is sent.
TaskCreated(r) ==
    /\ pc[r] = "createTask"
    /\ task[r] = "created"
    /\ Push(r, "task")
    /\ Goto(r, "notify")
    /\ note' = [note EXCEPT ![r] = "queued"]
    /\ UNCHANGED <<auth, task, reply, users, tasks, notes, late, budget>>

Notified(r) ==
    /\ pc[r] = "notify"
    /\ reply[r] = "ok"
    /\ Goto(r, "done")
    /\ UNCHANGED <<undo, serverVars, budget>>

\* Mutated: the error answer to the message is not awaited as an error.
StepFailsGrpcOnly(r) ==
    /\ \/ pc[r] = "register" /\ auth[r] = "refused"
       \/ pc[r] = "createTask" /\ task[r] = "refused"
    /\ Goto(r, "rollback")
    /\ UNCHANGED <<undo, serverVars, budget>>

\* A call answers with an error: the catch block starts the rollback.
StepFails(r) ==
    /\ \/ pc[r] = "register" /\ auth[r] = "refused"
       \/ pc[r] = "createTask" /\ task[r] = "refused"
       \/ pc[r] = "notify" /\ reply[r] = "error"
    /\ Goto(r, "rollback")
    /\ UNCHANGED <<undo, serverVars, budget>>

\* The answer names no user or task: the saga throws before it has pushed the
\* undo action.  The controllers of this repository always name one.
StepHasNoId(r) ==
    /\ \/ pc[r] = "register" /\ auth[r] = "created"
       \/ pc[r] = "createTask" /\ task[r] = "created"
    /\ Spend("storedFails")
    /\ Goto(r, "rollback")
    /\ UNCHANGED <<undo, serverVars>>

\* The breaker gives up on the call, or its answer is lost.
CallTimesOut(r) ==
    /\ pc[r] \in {"register", "createTask"}
    /\ Spend("timeout")
    /\ Goto(r, "rollback")
    /\ UNCHANGED <<undo, serverVars>>

\* The breaker is open, or the server unreachable: the call never starts.
CallRejected(r) ==
    /\ \/ /\ pc[r] = "register" /\ auth[r] = "called"
          /\ auth' = [auth EXCEPT ![r] = "none"]
          /\ UNCHANGED task
       \/ /\ pc[r] = "createTask" /\ task[r] = "called"
          /\ task' = [task EXCEPT ![r] = "none"]
          /\ UNCHANGED auth
    /\ Spend("rejected")
    /\ Goto(r, "rollback")
    /\ UNCHANGED <<undo, note, reply, users, tasks, notes, late>>

\* The reply queue of the gateway is lost with its connection; the request
\* has no timeout and waits for ever.
ReplyLost(r) ==
    /\ pc[r] = "notify"
    /\ reply[r] # "none"
    /\ Spend("replyLost")
    /\ reply' = [reply EXCEPT ![r] = "none"]
    /\ UNCHANGED <<gatewayVars, auth, task, note, users, tasks, notes, late>>

-----------------------------------------------------------------------------
(* The gateway: rollback                                                   *)

\* The documents an undo call deletes.
Delete(action, r) ==
    /\ users' = IF action = "user" THEN users \ {r} ELSE users
    /\ tasks' = IF action = "task" THEN tasks \ {r} ELSE tasks

\* Mutated: the actions run in the order they were pushed.
NextFirst(stack) == [action |-> Head(stack), rest |-> Tail(stack)]

NextUndo(stack) ==
    [action |-> stack[Len(stack)], rest |-> SubSeq(stack, 1, Len(stack) - 1)]

TakeUndo(r) ==
    /\ pc[r] = "rollback"
    /\ undo[r] # <<>>
    /\ undo' = [undo EXCEPT ![r] = NextUndo(@).rest]
    /\ UNCHANGED <<pc, auth, task, note, reply, notes>>

Undo(r) ==
    /\ TakeUndo(r)
    /\ Delete(NextUndo(undo[r]).action, r)
    /\ UNCHANGED <<late, budget>>

\* The undo call deletes nothing; the error is logged and the rollback goes on.
\* (An error after the deletion makes no difference to it.)
UndoFails(r) ==
    /\ TakeUndo(r)
    /\ Spend("undoFails")
    /\ UNCHANGED <<users, tasks, late>>

\* The breaker gives up on the undo call; the server executes it later.
UndoTimesOut(r) ==
    /\ TakeUndo(r)
    /\ Spend("timeout")
    /\ late' = late \cup {<<NextUndo(undo[r]).action, r>>}
    /\ UNCHANGED <<users, tasks>>

LateUndo(action, r) ==
    /\ <<action, r>> \in late
    /\ late' = late \ {<<action, r>>}
    /\ Delete(action, r)
    /\ UNCHANGED <<gatewayVars, auth, task, note, reply, notes, budget>>

\* rollback returns and the request is answered with an error.
RolledBack(r) ==
    /\ pc[r] = "rollback"
    /\ undo[r] = <<>>
    /\ Goto(r, "failed")
    /\ UNCHANGED <<undo, serverVars, budget>>

\* The gateway dies with the undo lists of the sagas it runs; the calls it
\* has sent go on.
Active(r) == pc[r] \in {"register", "createTask", "notify", "rollback"}

GatewayCrash ==
    /\ \E r \in Requests : Active(r)
    /\ Spend("crash")
    /\ pc' = [r \in Requests |-> IF Active(r) THEN "dead" ELSE pc[r]]
    /\ undo' = [r \in Requests |-> IF Active(r) THEN <<>> ELSE undo[r]]
    /\ UNCHANGED serverVars

-----------------------------------------------------------------------------

ServerStep(r) ==
    \/ AuthCheck(r) \/ AuthCreate(r) \/ TaskCreate(r) \/ NotifyCreate(r)
    \/ \E action \in Undoable : LateUndo(action, r)

GatewayStep(r) ==
    \/ UserRegistered(r) \/ TaskCreated(r) \/ Notified(r) \/ StepFails(r)
    \/ Undo(r) \/ RolledBack(r)

FaultStep(r) ==
    \/ AuthFails(r) \/ TaskFails(r) \/ NotifyFails(r)
    \/ AuthStoresAndFails(r) \/ TaskStoresAndFails(r) \/ NotifyStoresAndFails(r)
    \/ StepHasNoId(r) \/ CallTimesOut(r) \/ CallRejected(r) \/ ReplyLost(r)
    \/ UndoFails(r) \/ UndoTimesOut(r)

Next ==
    \/ \E r \in Requests :
           Start(r) \/ ServerStep(r) \/ GatewayStep(r) \/ FaultStep(r)
    \/ Redeliver
    \/ GatewayCrash

Spec == Init /\ [][Next]_vars

\* Servers finish the calls and messages they receive, and the gateway acts
\* on answers.  No fairness on the arrival of requests or on faults.
Fairness ==
    \A r \in Requests : WF_vars(ServerStep(r)) /\ WF_vars(GatewayStep(r))

FairSpec == Spec /\ Fairness

-----------------------------------------------------------------------------
(* Properties                                                              *)

\* A saga that answers success has its user, its welcome task and at least
\* one welcome notification, whatever other sagas, timeouts, late calls and
\* redeliveries did.
DoneIsComplete ==
    \A r \in Requests : pc[r] = "done" =>
        r \in users /\ r \in tasks /\ notes[r] >= 1

\* No call or message of r is under way in a server.
Quiet(r) ==
    /\ auth[r] \notin {"called", "checked"}
    /\ task[r] # "called"
    /\ note[r] # "queued"
    /\ \A action \in Undoable : <<action, r>> \notin late

\* project.md:143, README.md:94: rollback reverts the completed steps of a
\* failed saga.  Once its calls have ended, nothing of it is left.
FailedLeavesNothing ==
    \A r \in Requests : pc[r] = "failed" /\ Quiet(r) =>
        r \notin users /\ r \notin tasks /\ notes[r] = 0

\* Faults that leave the gateway wrong about what its calls have done.
Obscuring == {"storedFails", "timeout", "undoFails", "redelivery", "replyLost", "crash"}

\* So far every call was answered or refused by an open breaker, and those that
\* answered with an error have stored nothing.
EveryOutcomeKnown == \A kind \in Obscuring : budget[kind] = Budget[kind]

\* As long as that is so the rollback keeps the promise, also for sagas that
\* compete for an address.
KnownFailureIsUndone == EveryOutcomeKnown => FailedLeavesNothing

\* A user or a welcome task that no step of its failed saga will ever remove.
Leftover(r) == pc[r] = "failed" /\ Quiet(r) /\ (r \in users \/ r \in tasks)

\* A call the gateway gave up on, one that failed after it had stored its
\* document, or an undo call that failed leaves documents of its own saga behind
\* and never those of a saga that runs at the same time.  Errors of calls that
\* stored nothing, refused calls, redeliveries and lost replies leave none.
LeftoversBounded ==
    Cardinality({r \in Requests : Leftover(r)})
            + budget["timeout"] + budget["storedFails"] + budget["undoFails"]
        <= Budget["timeout"] + Budget["storedFails"] + Budget["undoFails"]

\* sendSaga stores a notification each time it handles the message.  Only a
\* redelivery makes it do so again, and each one only once per saga: neither
\* lost replies, timeouts and errors nor the messages of other sagas do.
WelcomesBounded ==
    \A r \in Requests :
        notes[r] + budget["redelivery"] <= 1 + Budget["redelivery"]

\* The undo order is the reverse of the order of the steps: a welcome task
\* is never left without its user, not even half way through a rollback.
UndoneInReverse == EveryOutcomeKnown => tasks \subseteq users

\* auth.service.ts:25-31 refuses an address that has an account with 409 'User
\* already exists': no two accounts share an e-mail address.
OneUserPerEmail ==
    \A q, r \in users : EmailOf[q] = EmailOf[r] => q = r

\* The reply to the message of r is lost, and only a redelivery brings another.
ReplyMissing(r) == pc[r] = "notify" /\ note[r] = "unacked" /\ reply[r] = "none"

\* Every started saga answers its request, whatever fails or times out, except
\* when its gateway dies or its reply is lost.
SagaAnswers ==
    \A r \in Requests : pc[r] = "register" ~>
        pc[r] \in {"done", "failed", "dead"} \/ ReplyMissing(r)
=============================================================================
