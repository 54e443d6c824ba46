------------------------------ MODULE TaskOutbox ------------------------------
(***************************************************************************)
(* The transactional outbox of task-service: TaskService.create stores a   *)
(* task and its task.created event in one MongoDB transaction, and every   *)
(* replica's OutboxPollerService publishes the pending events to Kafka.    *)
(*                                                                         *)
(* The replicas share the outbox collection and nothing else: isPolling is *)
(* a field of one process, so two replicas may hold the same event at the  *)
(* same time.  A document a poller read is a private copy; save() writes   *)
(* the fields the poller assigned since, whatever the collection holds by  *)
(* then.                                                                   *)
(*                                                                         *)
(* Not modelled here: the payload and the error text of an event, find()   *)
(* errors (they end the cycle and change nothing), tasks created by        *)
(* createSaga (they store no event), and what consumers do with a copy.    *)
(*                                                                         *)
(* Definitions under a heading "Mutated" are not the code: each is a       *)
(* plausible slip in the definition that follows it, kept to show that     *)
(* the properties at the end notice it.                                    *)
(***************************************************************************)
EXTENDS Naturals, FiniteSets

CONSTANTS
    Tasks,          \* create requests; each one has its own outbox event
    Pollers,        \* task-service replicas
    NoTask,         \* a poller that is between two events
    MaxAttempts,    \* 25 in the code
    BatchSize,      \* 10 in the code
    Timestamps,     \* values of createdAt: clocks of replicas may tie or skew
    MaxFaults       \* bound: faults each replica suffers in one behaviour

ASSUME OutboxAssumption ==
    /\ NoTask \notin Tasks
    /\ MaxAttempts \in Nat \ {0}
    /\ BatchSize \in Nat \ {0}
    /\ Timestamps \subseteq Nat
    /\ Timestamps # {}
    /\ MaxFaults \in [Pollers -> Nat]

VARIABLES
    tx,         \* progress of the transaction of each create request
    reply,      \* what create answered
    tasks,      \* the tasks collection
    outbox,     \* the outbox collection, by event
    purged,     \* events the TTL index has deleted
    published,  \* published[p][t]: copies of t that p has put in the topic
    pc,         \* where pollOutbox is in each replica
    batch,      \* pendingEvents of the current cycle still to be handled
    docs,       \* docs[p][t]: p's in-memory document of event t
    current,    \* the event whose save is in flight
    failures,   \* failed emits of each event that has no copy in the topic
    faults      \* crashes, failed saves and lost producer acks, by replica

txVars     == <<tx, reply, tasks>>
pollerVars == <<pc, batch, docs, current>>
vars == <<tx, reply, tasks, outbox, purged, published, pc, batch, docs,
          current, failures, faults>>

Statuses == {"NONE", "PENDING", "COMPLETED", "FAILED"}  \* NONE: no such row
Settled  == {"COMPLETED", "FAILED"}

Row == [status : Statuses, attempts : Nat, processed : BOOLEAN,
        createdAt : Timestamps]
Doc == [status : Statuses, attempts : Nat]

NoRow == [status |-> "NONE", attempts |-> 0, processed |-> FALSE,
          createdAt |-> CHOOSE ts \in Timestamps : TRUE]

\* The document find() returns for a row.  Its status is PENDING until the
\* poller assigns it: save() leaves an unassigned field out of the update.
ReadDoc(row) == [status |-> "PENDING", attempts |-> row.attempts]
NoDocs == [t \in Tasks |-> [status |-> "PENDING", attempts |-> 0]]

TypeOK ==
    /\ tx \in [Tasks -> {"started", "taskInserted", "eventInserted",
                         "committed", "aborted"}]
    /\ reply \in [Tasks -> {"none", "ok", "error"}]
    /\ tasks \in SUBSET Tasks
    /\ outbox \in [Tasks -> Row]
    /\ purged \in SUBSET Tasks
    /\ published \in [Pollers -> [Tasks -> Nat]]
    /\ pc \in [Pollers -> {"idle", "emit", "save", "catchSave", "down"}]
    /\ batch \in [Pollers -> SUBSET Tasks]
    /\ docs \in [Pollers -> [Tasks -> Doc]]
    /\ current \in [Pollers -> Tasks \cup {NoTask}]
    /\ failures \in [Tasks -> Nat]
    /\ faults \in [Pollers -> Nat]

Init ==
    /\ tx = [t \in Tasks |-> "started"]
    /\ reply = [t \in Tasks |-> "none"]
    /\ tasks = {}
    /\ outbox = [t \in Tasks |-> NoRow]
    /\ purged = {}
    /\ published = [p \in Pollers |-> [t \in Tasks |-> 0]]
    /\ pc = [p \in Pollers |-> "idle"]
    /\ batch = [p \in Pollers |-> {}]
    /\ docs = [p \in Pollers |-> NoDocs]
    /\ current = [p \in Pollers |-> NoTask]
    /\ failures = [t \in Tasks |-> 0]
    /\ faults = [p \in Pollers |-> 0]

-----------------------------------------------------------------------------
(* TaskService.create                                                      *)

InsertTask(t) ==
    /\ tx[t] = "started"
    /\ tx' = [tx EXCEPT ![t] = "taskInserted"]
    /\ UNCHANGED <<reply, tasks, outbox, purged, published, pollerVars,
                   failures, faults>>

\* Mutated: the schema loses timestamps: true, and rows have no createdAt.
StageUntimed(row, ts) == [row EXCEPT !.createdAt = 0]

\* Mutated: outboxModel.create without { session } writes at once.
StoreEvent(row, ts) == [row EXCEPT !.createdAt = ts, !.status = "PENDING"]

\* The row is staged in the session: no reader sees it before the commit.
\* Its createdAt is the clock of the replica at this moment.
StageEvent(row, ts) == [row EXCEPT !.createdAt = ts]

InsertEvent(t) ==
    /\ tx[t] = "taskInserted"
    /\ tx' = [tx EXCEPT ![t] = "eventInserted"]
    /\ \E ts \in Timestamps : outbox' = [outbox EXCEPT ![t] = StageEvent(@, ts)]
    /\ UNCHANGED <<reply, tasks, purged, published, pollerVars, failures,
                   faults>>

\* Commit makes both inserts visible at once.  The driver may report an error
\* for a commit the server applied (a lost connection); create then answers
\* with an error although the task exists.
Commit(t) ==
    /\ tx[t] = "eventInserted"
    /\ tx' = [tx EXCEPT ![t] = "committed"]
    /\ tasks' = tasks \cup {t}
    /\ outbox' = [outbox EXCEPT ![t].status = "PENDING"]
    /\ \E answer \in {"ok", "error"} : reply' = [reply EXCEPT ![t] = answer]
    /\ UNCHANGED <<purged, published, pollerVars, failures, faults>>

\* An insert or the commit fails, or the replica dies: nothing is stored.
Abort(t) ==
    /\ tx[t] \in {"started", "taskInserted", "eventInserted"}
    /\ tx' = [tx EXCEPT ![t] = "aborted"]
    /\ reply' = [reply EXCEPT ![t] = "error"]
    /\ UNCHANGED <<tasks, outbox, purged, published, pollerVars, failures,
                   faults>>

-----------------------------------------------------------------------------
(* OutboxPollerService.pollOutbox                                          *)

Pending == {t \in Tasks \ purged : outbox[t].status = "PENDING"}

\* find().sort({ createdAt: 1 }).limit(10): ties in any order.
OldestPending(B) ==
    /\ B \subseteq Pending
    /\ Cardinality(B) <= BatchSize
    /\ B = Pending \/ Cardinality(B) = BatchSize
    /\ \A t \in B, u \in Pending \ B :
           outbox[t].createdAt <= outbox[u].createdAt

\* Mutated: the isPolling guard is gone and a tick of the interval starts a
\* second cycle in a replica that is still in its first.
MayOverlap(p) == pc[p] # "down"

MayPoll(p) == pc[p] = "idle"

\* One cycle starts; a cycle that finds nothing ends at once and changes
\* nothing, so it is left out.
Poll(p) ==
    /\ MayPoll(p)
    /\ \E B \in SUBSET Pending \ {{}} :
           /\ OldestPending(B)
           /\ batch' = [batch EXCEPT ![p] = B]
           /\ docs' = [docs EXCEPT ![p] =
                  [t \in Tasks |-> IF t \in B THEN ReadDoc(outbox[t])
                                              ELSE NoDocs[t]]]
    /\ pc' = [pc EXCEPT ![p] = "emit"]
    /\ UNCHANGED <<txVars, outbox, purged, published, current, failures,
                   faults>>

\* The assignments after a successful emit.
Completed(doc) == [status |-> "COMPLETED", attempts |-> doc.attempts + 1]

\* Mutated: the failure is not counted.
CaughtUncounted(doc) == [doc EXCEPT !.status =
    IF doc.attempts >= MaxAttempts THEN "FAILED" ELSE @]

\* Mutated: the event is quarantined one failure late.
CaughtLate(doc) == [status   |-> IF doc.attempts + 1 > MaxAttempts
                                 THEN "FAILED" ELSE doc.status,
                    attempts |-> doc.attempts + 1]

\* Mutated: the event is quarantined one failure early.
CaughtEarly(doc) == [status   |-> IF doc.attempts + 2 >= MaxAttempts
                                  THEN "FAILED" ELSE doc.status,
                     attempts |-> doc.attempts + 1]

\* Mutated: a failed emit is taken for a published event.
CaughtAsCompleted(doc) == [status   |-> "COMPLETED",
                           attempts |-> doc.attempts + 1]

\* The assignments of the catch block.
Caught(doc) == [status   |-> IF doc.attempts + 1 >= MaxAttempts
                             THEN "FAILED" ELSE doc.status,
                attempts |-> doc.attempts + 1]

\* Mutated: the update carries the whole document, read status included.
SavedWhole(row, doc) ==
    [row EXCEPT !.attempts = doc.attempts, !.status = doc.status,
                !.processed = doc.status \in Settled]

\* event.save(): the fields assigned since the read overwrite the row.
Saved(row, doc) ==
    [row EXCEPT !.attempts = doc.attempts,
                !.status = IF doc.status = "PENDING" THEN @ ELSE doc.status,
                !.processed = IF doc.status \in Settled THEN TRUE ELSE @]

\* The loop handles the batch oldest first.
IsNext(p, t) ==
    /\ t \in batch[p]
    /\ \A u \in batch[p] : outbox[t].createdAt <= outbox[u].createdAt

Copies(t) == {p \in Pollers : published[p][t] > 0}

AppendCopy(p, t) ==
    /\ published' = [published EXCEPT ![p][t] = @ + 1]
    /\ failures' = [failures EXCEPT ![t] = 0]

EmitOk(p) ==
    /\ pc[p] = "emit"
    /\ \E t \in batch[p] :
           /\ IsNext(p, t)
           /\ AppendCopy(p, t)
           /\ docs' = [docs EXCEPT ![p][t] = Completed(@)]
           /\ current' = [current EXCEPT ![p] = t]
    /\ pc' = [pc EXCEPT ![p] = "save"]
    /\ UNCHANGED <<txVars, outbox, purged, batch, faults>>

HandleError(p, t) ==
    /\ docs' = [docs EXCEPT ![p][t] = Caught(@)]
    /\ current' = [current EXCEPT ![p] = t]
    /\ pc' = [pc EXCEPT ![p] = "catchSave"]

\* Bound: failures are counted up to MaxAttempts.
CountFailure(t) ==
    failures' = [failures EXCEPT ![t] =
        IF Copies(t) = {} /\ @ < MaxAttempts THEN @ + 1 ELSE @]

EmitFails(p) ==
    /\ pc[p] = "emit"
    /\ \E t \in batch[p] :
           IsNext(p, t) /\ HandleError(p, t) /\ CountFailure(t)
    /\ UNCHANGED <<txVars, outbox, purged, published, batch, faults>>

\* The rest of the batch, or the end of the cycle: isPolling = false.
Advance(p) ==
    LET rest == batch[p] \ {current[p]}
    IN  /\ batch' = [batch EXCEPT ![p] = rest]
        /\ docs' = [docs EXCEPT ![p] = IF rest = {} THEN NoDocs ELSE @]
        /\ current' = [current EXCEPT ![p] = NoTask]
        /\ pc' = [pc EXCEPT ![p] = IF rest = {} THEN "idle" ELSE "emit"]

StoreDoc(p) ==
    outbox' = [outbox EXCEPT ![current[p]] = Saved(@, docs[p][current[p]])]

\* Either save() of the loop succeeds.
SaveOk(p) ==
    /\ pc[p] \in {"save", "catchSave"}
    /\ StoreDoc(p)
    /\ Advance(p)
    /\ UNCHANGED <<txVars, purged, published, failures, faults>>

-----------------------------------------------------------------------------
(* Faults                                                                  *)

Fault(p) ==
    /\ faults[p] < MaxFaults[p]
    /\ faults' = [faults EXCEPT ![p] = @ + 1]

\* The broker appended the message but the producer saw an error.
EmitAckLost(p) ==
    /\ pc[p] = "emit"
    /\ Fault(p)
    /\ \E t \in batch[p] :
           /\ IsNext(p, t)
           /\ AppendCopy(p, t)
           /\ HandleError(p, t)
    /\ UNCHANGED <<txVars, outbox, purged, batch>>

\* The save of the try block throws, having been applied or not: the catch
\* block handles it as if the publication had failed.
SaveFails(p) ==
    /\ pc[p] = "save"
    /\ Fault(p)
    /\ HandleError(p, current[p])
    /\ StoreDoc(p) \/ UNCHANGED outbox
    /\ UNCHANGED <<txVars, purged, published, batch, failures>>

Forget(p) ==
    /\ batch' = [batch EXCEPT ![p] = {}]
    /\ docs' = [docs EXCEPT ![p] = NoDocs]
    /\ current' = [current EXCEPT ![p] = NoTask]

\* The save of the catch block throws: the outer catch drops the rest of the
\* batch and finally resets isPolling.
CatchSaveFails(p) ==
    /\ pc[p] = "catchSave"
    /\ Fault(p)
    /\ StoreDoc(p) \/ UNCHANGED outbox
    /\ Forget(p)
    /\ pc' = [pc EXCEPT ![p] = "idle"]
    /\ UNCHANGED <<txVars, purged, published, failures>>

\* The process dies between two awaits; onModuleDestroy waits for nothing.
Crash(p) ==
    /\ pc[p] # "down"
    /\ Fault(p)
    /\ Forget(p)
    /\ pc' = [pc EXCEPT ![p] = "down"]
    /\ UNCHANGED <<txVars, outbox, purged, published, failures>>

\* onModuleInit sets the interval again.
Restart(p) ==
    /\ pc[p] = "down"
    /\ pc' = [pc EXCEPT ![p] = "idle"]
    /\ UNCHANGED <<txVars, outbox, purged, published, batch, docs, current,
                   failures, faults>>

-----------------------------------------------------------------------------
(* The TTL index on processedAt                                            *)

\* Mutated: the index is on createdAt, which every row has.
ExpiredByAge(row) == row.status # "NONE"

Expired(row) == row.processed

\* The deletion comes seven days after processedAt, long after the cycle of
\* any replica that read the row as PENDING.
Purge(t) ==
    /\ t \notin purged
    /\ Expired(outbox[t])
    /\ \A p \in Pollers : t \notin batch[p]
    /\ purged' = purged \cup {t}
    /\ UNCHANGED <<txVars, outbox, published, pollerVars, failures, faults>>

-----------------------------------------------------------------------------

Create(t) == InsertTask(t) \/ InsertEvent(t) \/ Commit(t) \/ Abort(t)

PollerStep(p) == Poll(p) \/ EmitOk(p) \/ EmitFails(p) \/ SaveOk(p)

FaultStep(p) ==
    EmitAckLost(p) \/ SaveFails(p) \/ CatchSaveFails(p) \/ Crash(p)

Next ==
    \/ \E t \in Tasks : Create(t) \/ Purge(t)
    \/ \E p \in Pollers : PollerStep(p) \/ FaultStep(p) \/ Restart(p)

Spec == Init /\ [][Next]_vars

\* The interval keeps firing in a live replica, each awaited call answers or
\* throws, and the orchestrator restarts a dead replica.  No fairness on the
\* requests, on the TTL monitor, or between success and failure of an emit.
Fairness == \A p \in Pollers : WF_vars(PollerStep(p)) /\ WF_vars(Restart(p))

FairSpec == Spec /\ Fairness

-----------------------------------------------------------------------------
(* Properties                                                              *)

\* The dual write of create (task.service.ts:33-49) is atomic: the task and
\* its event are stored together or not at all, both are there once create
\* has answered success, and only events of stored tasks reach the topic.
DualWriteAtomic ==
    \A t \in Tasks :
        /\ t \in tasks <=> outbox[t].status # "NONE"
        /\ reply[t] = "ok" => t \in tasks
        /\ Copies(t) # {} => t \in tasks

\* An event marked COMPLETED (outbox-poller.service.ts:66) has been put in
\* the topic, whichever replica wrote the row last.
CompletedWasPublished ==
    \A t \in Tasks : outbox[t].status = "COMPLETED" => Copies(t) # {}

\* isPolling and the per-event save bound the duplicates: a replica publishes
\* an event at most once more than the faults it has suffered, however many
\* replicas poll the same rows.
DuplicatesBounded ==
    \A p \in Pollers, t \in Tasks : published[p][t] <= 1 + faults[p]

\* An event that is still retried has failed fewer than MaxAttempts times,
\* also when replicas overwrite each other's attempts counter.
RetriedBelowLimit ==
    \A t \in Tasks : outbox[t].status = "PENDING" =>
                         outbox[t].attempts < MaxAttempts

\* An event is given up without a copy in the topic only after MaxAttempts emits
\* of it have failed, although replicas count them in one field of a row that
\* each writes from its own copy, and saves fail and replicas die in between.
GivenUpAfterFailures ==
    \A t \in Tasks : outbox[t].status = "FAILED" /\ Copies(t) = {} =>
                         failures[t] >= MaxAttempts

\* The TTL index never deletes an event that neither reached the topic nor
\* was quarantined as FAILED.
PurgedWasHandled ==
    \A t \in purged : Copies(t) # {} \/ outbox[t].status = "FAILED"

\* project.md:56, zero data loss: the event of a stored task is still to be
\* retried, or is in the topic, or was given up after MaxAttempts failed emits.
\* Stale replicas, failed saves, crashes and the TTL index drop no event before.
NoEventVanishes ==
    \A t \in tasks :
        \/ t \in Pending
        \/ Copies(t) # {}
        \/ outbox[t].status = "FAILED" /\ failures[t] >= MaxAttempts

\* A stale replica may turn COMPLETED into FAILED or back, but no step makes
\* a settled event pending again.
NeverReopened ==
    [][\A t \in Tasks : outbox[t].status \in Settled =>
                            outbox'[t].status \in Settled]_vars

-----------------------------------------------------------------------------
(* The abstract specification                                              *)

Mark(t) == CASE outbox[t].status = "NONE"      -> "absent"
             [] outbox[t].status = "PENDING"   -> "waiting"
             [] outbox[t].status = "COMPLETED" -> "sent"
             [] outbox[t].status = "FAILED"    -> "gaveUp"

Relay == INSTANCE EventRelay WITH
             Events <- Tasks,
             mark   <- [t \in Tasks |-> Mark(t)],
             sent   <- {t \in Tasks : Copies(t) # {}}

\* Seen from outside, replicas, batches and failures come to the relay of
\* EventRelay: a stored event is sent at least once or given up, a mark
\* "sent" never precedes the first copy, and nothing else is ever sent.
ImplementsRelay == Relay!Spec

\* The same with its promise that every stored event is sent or given up in
\* the end, even if every emit fails, newer events queue behind it, replicas
\* lose each other's updates of attempts, and replicas crash.
ImplementsFairRelay == Relay!FairSpec
=============================================================================
