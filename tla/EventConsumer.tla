----------------------------- MODULE EventConsumer -----------------------------
(***************************************************************************)
(* One consumer group of the task.created topic, as in notification-service*)
(* (and, with the prefix "analytics:" on its keys, analytics-service): the *)
(* handler claims the event with SET NX in Redis, does its work in MongoDB,*)
(* and deletes the key again when the work throws, so that the redelivered *)
(* message can be claimed anew.                                            *)
(*                                                                         *)
(* Kafka, Redis and MongoDB are external and modelled from how the code    *)
(* uses them.  A handler that returns resolves its offset; one that throws *)
(* does not, and the message comes again; resolved offsets are committed   *)
(* some time later, and are what a new owner of the partition starts from. *)
(* The topic holds several copies of an event when the outbox sent several,*)
(* in any partition, because the producer sets no key.                     *)
(*                                                                         *)
(* Not modelled here: the contents of events and notifications, events     *)
(* without ids, and the RabbitMQ handlers of the same controller.          *)
(***************************************************************************)
EXTENDS Naturals, Sequences, FiniteSets

CONSTANTS
    Consumers,      \* replicas of the service, one kafkajs consumer each
    Events,
    Partitions,
    Log,            \* Log[pt]: the events in partition pt, in offset order
    Nobody,         \* owner of a partition between two assignments
    Budget          \* bound: how often each kind of fault may happen

FaultKinds == {"workFails", "writeUnknown", "replyLost", "evictFails",
               "crash", "rebalance", "expiry"}

ASSUME ConsumerAssumption ==
    /\ Nobody \notin Consumers
    /\ Log \in [Partitions -> Seq(Events)]
    /\ Budget \in [FaultKinds -> Nat]

VARIABLES
    owner,      \* the consumer each partition is assigned to
    position,   \* offset the owner of a partition fetches next
    committed,  \* offset committed to the broker
    pc,         \* where handleTaskCreated is in each consumer
    msg,        \* the message each consumer handles: a partition and offset
    keys,       \* events whose idempotency key is in Redis
    effects,    \* notifications stored (increments applied) for each event
    excuses,    \* lapses of the key of an event after a possible effect
    cut,        \* ghost: events with a handler that a fault cut short, below
    budget      \* faults that may still happen

kafkaVars == <<owner, position, committed>>
vars ==
    <<owner, position, committed, pc, msg, keys, effects, excuses, cut, budget>>

NoMsg == [part |-> Nobody, offset |-> 0]
Messages == [part : Partitions, offset : Nat]

\* Offsets of pt are 0 .. Len(Log[pt]) - 1; the end is a position too.
Offsets(pt) == 0 .. Len(Log[pt])

TypeOK ==
    /\ owner \in [Partitions -> Consumers \cup {Nobody}]
    /\ position \in [Partitions -> Nat]
    /\ committed \in [Partitions -> Nat]
    /\ \A pt \in Partitions : {position[pt], committed[pt]} \subseteq Offsets(pt)
    /\ pc \in [Consumers -> {"idle", "claim", "work", "evict", "return", "down"}]
    /\ msg \in [Consumers -> Messages \cup {NoMsg}]
    /\ \A c \in Consumers : pc[c] \in {"claim", "work", "evict", "return"} =>
           /\ msg[c] \in Messages
           /\ msg[c].offset < Len(Log[msg[c].part])
    /\ keys \subseteq Events
    /\ effects \in [Events -> Nat]
    /\ excuses \in [Events -> Nat]
    /\ cut \subseteq Events
    /\ budget \in [FaultKinds -> Nat]

Init ==
    /\ owner = [pt \in Partitions |-> Nobody]
    /\ position = [pt \in Partitions |-> 0]
    /\ committed = [pt \in Partitions |-> 0]
    /\ pc = [c \in Consumers |-> "idle"]
    /\ msg = [c \in Consumers |-> NoMsg]
    /\ keys = {}
    /\ effects = [e \in Events |-> 0]
    /\ excuses = [e \in Events |-> 0]
    /\ cut = {}
    /\ budget = Budget

InFlight(c) == pc[c] \in {"claim", "work", "evict", "return"}

EventOf(c) == Log[msg[c].part][msg[c].offset + 1]

\* Some fault of this kind is left, and one is used up.
Spend(kind) ==
    /\ budget[kind] > 0
    /\ budget' = [budget EXCEPT ![kind] = @ - 1]

Goto(c, label) == pc' = [pc EXCEPT ![c] = label]

Finish(c) == Goto(c, "idle") /\ msg' = [msg EXCEPT ![c] = NoMsg]

-----------------------------------------------------------------------------
(* The group protocol and the fetch loop of kafkajs                        *)

\* Every assignment of the group is revoked at once, and the consumers that are
\* in a handler go on with a message that is no longer theirs.
Regroup ==
    /\ owner' = [pt \in Partitions |-> Nobody]
    /\ cut' = cut \cup {EventOf(c) : c \in {d \in Consumers : InFlight(d)}}

\* A partition nobody owns goes to a live consumer, which starts from the
\* committed offset.
Assign(c, pt) ==
    /\ owner[pt] = Nobody
    /\ pc[c] # "down"
    /\ owner' = [owner EXCEPT ![pt] = c]
    /\ position' = [position EXCEPT ![pt] = committed[pt]]
    /\ UNCHANGED <<committed, pc, msg, keys, effects, excuses, cut, budget>>

\* A member misses its heartbeats, or the service is scaled.
Rebalance ==
    /\ Spend("rebalance")
    /\ Regroup
    /\ UNCHANGED <<position, committed, pc, msg, keys, effects, excuses>>

\* A consumer handles one message at a time.
Deliver(c, pt) ==
    /\ pc[c] = "idle"
    /\ owner[pt] = c
    /\ position[pt] < Len(Log[pt])
    /\ msg' = [msg EXCEPT ![c] = [part |-> pt, offset |-> position[pt]]]
    /\ Goto(c, "claim")
    /\ UNCHANGED <<kafkaVars, keys, effects, excuses, cut, budget>>

\* Resolved offsets are committed after a batch or after an error in it; the
\* broker refuses a commit from a consumer that is no longer the owner.
CommitOffset(c, pt) ==
    /\ pc[c] # "down"
    /\ owner[pt] = c
    /\ committed[pt] # position[pt]
    /\ committed' = [committed EXCEPT ![pt] = position[pt]]
    /\ UNCHANGED <<owner, position, pc, msg, keys, effects, excuses, cut, budget>>

-----------------------------------------------------------------------------
(* handleTaskCreated                                                       *)

\* Mutated: redis.set without NX always answers OK.
ClaimAlways(c) ==
    /\ pc[c] = "claim"
    /\ keys' = keys \cup {EventOf(c)}
    /\ Goto(c, "work")
    /\ UNCHANGED <<kafkaVars, msg, effects, excuses, cut, budget>>

\* redis.set(key, 'processed', 'EX', 86400, 'NX') answers OK.
Claim(c) ==
    /\ pc[c] = "claim"
    /\ EventOf(c) \notin keys
    /\ keys' = keys \cup {EventOf(c)}
    /\ Goto(c, "work")
    /\ UNCHANGED <<kafkaVars, msg, effects, excuses, cut, budget>>

\* Mutated: a duplicate is reported by throwing, and comes again for ever.
SkipThrows(c) ==
    /\ pc[c] = "claim"
    /\ EventOf(c) \in keys
    /\ Finish(c)
    /\ UNCHANGED <<kafkaVars, keys, effects, excuses, cut, budget>>

\* The key is there: a duplicate, the handler returns.
Skip(c) ==
    /\ pc[c] = "claim"
    /\ EventOf(c) \in keys
    /\ Goto(c, "return")
    /\ UNCHANGED <<kafkaVars, msg, keys, effects, excuses, cut, budget>>

\* The connection drops after Redis applied SET NX; ioredis sends it again,
\* and the second answer is nil: the handler takes its own claim for another's.
ClaimReplyLost(c) ==
    /\ pc[c] = "claim"
    /\ EventOf(c) \notin keys
    /\ Spend("replyLost")
    /\ keys' = keys \cup {EventOf(c)}
    /\ cut' = cut \cup {EventOf(c)}
    /\ Goto(c, "return")
    /\ UNCHANGED <<kafkaVars, msg, effects, excuses>>

\* The notification is stored (the counter incremented).
Work(c) ==
    /\ pc[c] = "work"
    /\ effects' = [effects EXCEPT ![EventOf(c)] = @ + 1]
    /\ Goto(c, "return")
    /\ UNCHANGED <<kafkaVars, msg, keys, excuses, cut, budget>>

\* MongoDB refuses the write: nothing is stored, the catch block runs.
WorkFails(c) ==
    /\ pc[c] = "work"
    /\ Spend("workFails")
    /\ Goto(c, "evict")
    /\ UNCHANGED <<kafkaVars, msg, keys, effects, excuses, cut>>

\* The write is applied but its answer is an error.
WriteUnknown(c) ==
    /\ pc[c] = "work"
    /\ Spend("writeUnknown")
    /\ effects' = [effects EXCEPT ![EventOf(c)] = @ + 1]
    /\ excuses' = [excuses EXCEPT ![EventOf(c)] = @ + 1]
    /\ Goto(c, "evict")
    /\ UNCHANGED <<kafkaVars, msg, keys, cut>>

\* Mutated: the error is swallowed after the eviction and the handler returns.
EvictAndReturn(c) ==
    /\ pc[c] = "evict"
    /\ keys' = keys \ {EventOf(c)}
    /\ Goto(c, "return")
    /\ UNCHANGED <<kafkaVars, msg, effects, excuses, cut, budget>>

\* redis.del(key), then the handler throws: its offset is not resolved.
Evict(c) ==
    /\ pc[c] = "evict"
    /\ keys' = keys \ {EventOf(c)}
    /\ Finish(c)
    /\ UNCHANGED <<kafkaVars, effects, excuses, cut, budget>>

\* redis.del throws instead: the handler throws that error, the key stays.
EvictFails(c) ==
    /\ pc[c] = "evict"
    /\ Spend("evictFails")
    /\ cut' = cut \cup {EventOf(c)}
    /\ Finish(c)
    /\ UNCHANGED <<kafkaVars, keys, effects, excuses>>

\* Mutated: a handler whose partition has moved still moves its position.
ReturnUnfenced(c) ==
    /\ pc[c] = "return"
    /\ position' = [position EXCEPT ![msg[c].part] = @ + 1]
    /\ Finish(c)
    /\ UNCHANGED <<owner, committed, keys, effects, excuses, cut, budget>>

\* The handler returns and kafkajs resolves the offset, unless the partition
\* has moved meanwhile.
Return(c) ==
    LET pt == msg[c].part
    IN  /\ pc[c] = "return"
        /\ position' = IF owner[pt] = c /\ position[pt] = msg[c].offset
                       THEN [position EXCEPT ![pt] = @ + 1] ELSE position
        /\ Finish(c)
        /\ UNCHANGED <<owner, committed, keys, effects, excuses, cut, budget>>

-----------------------------------------------------------------------------
(* Crashes, and keys that run out                                          *)

\* A process dies or starts; either makes the group rebalance.
Crash(c) ==
    /\ pc[c] # "down"
    /\ Spend("crash")
    /\ Goto(c, "down")
    /\ msg' = [msg EXCEPT ![c] = NoMsg]
    /\ Regroup
    /\ UNCHANGED <<position, committed, keys, effects, excuses>>

Restart(c) ==
    /\ pc[c] = "down"
    /\ Goto(c, "idle")
    /\ Regroup
    /\ UNCHANGED <<position, committed, msg, keys, effects, excuses, budget>>

Handling(c, e) == pc[c] \in {"work", "evict"} /\ EventOf(c) = e

\* 24 hours after the claim, when its handler is long gone.
Expire(e) ==
    /\ e \in keys
    /\ \A c \in Consumers : ~Handling(c, e)
    /\ Spend("expiry")
    /\ keys' = keys \ {e}
    /\ excuses' = [excuses EXCEPT ![e] = @ + 1]
    /\ UNCHANGED <<kafkaVars, pc, msg, effects, cut>>

-----------------------------------------------------------------------------

HandlerStep(c) == Claim(c) \/ Skip(c) \/ Work(c) \/ Evict(c) \/ Return(c)

FetchStep(c) ==
    \E pt \in Partitions : Assign(c, pt) \/ Deliver(c, pt) \/ CommitOffset(c, pt)

FaultStep(c) ==
    \/ ClaimReplyLost(c) \/ WorkFails(c) \/ WriteUnknown(c) \/ EvictFails(c)
    \/ Crash(c)

Next ==
    \/ \E c \in Consumers :
           HandlerStep(c) \/ FetchStep(c) \/ FaultStep(c) \/ Restart(c)
    \/ Rebalance
    \/ \E e \in Events : Expire(e)

Spec == Init /\ [][Next]_vars

\* Live consumers keep joining, fetching and committing, awaited calls end,
\* and dead consumers are restarted.  Errors are transient because Budget
\* bounds them: an event whose write never succeeds blocks its partition.
Fairness ==
    \A c \in Consumers :
        /\ WF_vars(HandlerStep(c))
        /\ WF_vars(FetchStep(c))
        /\ WF_vars(Restart(c))

FairSpec == Spec /\ Fairness

-----------------------------------------------------------------------------
(* Properties                                                              *)

\* SET NX makes the handler of an event exclusive: two consumers are never
\* between the claim and the end of the work for the same event, be it two
\* copies or one copy delivered again after a rebalance.
OneHandlerPerEvent ==
    \A c, d \in Consumers, e \in Events :
        Handling(c, e) /\ Handling(d, e) => c = d

\* An event has one effect, and one more only for each time its key was
\* deleted or ran out although the effect may have been there.
EffectsBounded ==
    \A e \in Events : effects[e] <= 1 + excuses[e]

\* The group will not see e again.
Passed(e) ==
    \A pt \in Partitions : \A i \in 1..Len(Log[pt]) :
        Log[pt][i] = e => i <= committed[pt]

InLog(e) == \E pt \in Partitions : \E i \in 1..Len(Log[pt]) : Log[pt][i] = e

\* The group is done with e, no consumer is at work on it, and it had no effect.
Lost(e) ==
    /\ InLog(e) /\ Passed(e)
    /\ \A c \in Consumers : ~Handling(c, e)
    /\ effects[e] = 0

\* project.md:83-87: duplicates are skipped, and a failed attempt is evicted
\* so that a retry can proceed.  So an event the group is done with, and no
\* consumer is still working on, has had its effect.
NoEventLost == \A e \in Events : ~Lost(e)

\* Faults that cut a handler short, or leave it wrong about its key.
RiskyFaults == {"replyLost", "evictFails", "crash", "rebalance"}

\* So far only MongoDB has failed, or a key has run out: no process died or
\* lost a partition, and Redis answered every command.
OnlyWritesFailed == \A kind \in RiskyFaults : budget[kind] = Budget[kind]

\* The eviction does what it is for: failed and ambiguous writes lose no
\* event, whichever copies of it are handled meanwhile.
FailedWritesLoseNothing == OnlyWritesFailed => NoEventLost

\* What project.md:83 means by idempotency: as long as only writes fail, an
\* event the group is done with, and whose effect was never in doubt, had its
\* effect exactly once, however often it was sent and delivered.
ExactlyOnceWithoutDoubt ==
    OnlyWritesFailed =>
        \A e \in Events :
            /\ InLog(e) /\ Passed(e) /\ excuses[e] = 0
            /\ \A c \in Consumers : ~Handling(c, e)
            => effects[e] = 1

\* The code has no protection against those faults, but they do not spread: an
\* event is lost only if a handler of its own was under way when one happened.
\* Events behind it in a partition, or back in the log because the offset was
\* not committed, are handled all the same.
LossesBounded == \A e \in Events : Lost(e) => e \in cut

\* The group gets through the whole log: no failure, crash or rebalance that
\* ends leaves a partition stuck.
LogConsumed ==
    <>(\A pt \in Partitions : committed[pt] = Len(Log[pt]))

\* The group delivers its log as EventDelivery promises: an event has another
\* effect only with an excuse, whatever is retried, expires or crashes.
Delivery ==
    INSTANCE EventDelivery WITH
        Groups <- {"group"},
        sent <- {e \in Events : InLog(e)},
        effects <- [g \in {"group"} |-> effects],
        excuses <- [g \in {"group"} |-> excuses]
ImplementsDelivery == Delivery!Spec
=============================================================================
