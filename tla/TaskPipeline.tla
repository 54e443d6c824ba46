----------------------------- MODULE TaskPipeline -----------------------------
(***************************************************************************)
(* A created task on its way through the system: the outbox of task-service*)
(* sends its event (EventRelay, which TaskOutbox implements), and the      *)
(* consumer groups of notification-service and of analytics-service, which *)
(* share one Redis, store a notification and count the task of its user.   *)
(*                                                                         *)
(* Of Kafka there remains how many copies of an event a group has not      *)
(* resolved (EventConsumer has the partitions and offsets).  A copy is with*)
(* one consumer at a time and stays until a handler returns for it; when   *)
(* the group rebalances, the copies in its handlers are delivered again,   *)
(* while the handlers go on.                                               *)
(*                                                                         *)
(* Not modelled: events without a user or task id, which the outbox never  *)
(* writes; the contents of notifications; resolved copies that come again  *)
(* because their offset was not committed, which are skipped as any copy   *)
(* that was sent again.                                                    *)
(***************************************************************************)
EXTENDS Naturals, FiniteSets

CONSTANTS
    Tasks,          \* a task and its event, whose taskId is the id
    Users,
    UserOf,         \* UserOf[t]: the user who created t
    Notifiers,      \* replicas of notification-service
    Counters,       \* replicas of analytics-service
    NoTask,         \* what an idle consumer handles
    Budget          \* bound: copies sent again; failed or lost calls, crashes
                    \* and expiries; rebalances

FaultKinds == {"copy", "failure", "rebalance"}

ASSUME PipelineAssumption ==
    /\ UserOf \in [Tasks -> Users]
    /\ IsFiniteSet(Notifiers) /\ IsFiniteSet(Counters)
    /\ Notifiers \cap Counters = {}
    /\ NoTask \notin Tasks
    /\ Budget \in [FaultKinds -> Nat]

Consumers == Notifiers \cup Counters

\* The group ids of the two services.
Groups == {"notification-group", "analytics-group"}

GroupOf(c) == IF c \in Notifiers THEN "notification-group" ELSE "analytics-group"

VARIABLES
    mark,       \* EventRelay
    sent,       \* EventRelay
    todo,       \* per group and task: copies that are not resolved
    pc,         \* where handleTaskCreated is in each consumer
    task,       \* the task of the event each consumer handles
    stale,      \* consumers whose copy is theirs no more
    keys,       \* idempotency keys in Redis
    taskCount,  \* the user_counters collection; 0 is no document
    effects,    \* per group and task: notifications stored, increments applied
    excuses,    \* per group and task: lapses of a key after a possible effect
    orphaned,   \* pairs of group and task whose handler left its key behind
    cut,        \* pairs whose handler was at work when its group rebalanced
    budget

consumerVars ==
    <<todo, pc, task, stale, keys, taskCount, effects, excuses, orphaned, cut>>
vars == <<mark, sent, consumerVars, budget>>

Relay == INSTANCE EventRelay WITH Events <- Tasks

TypeOK ==
    /\ mark \in [Tasks -> {"absent", "waiting", "sent", "gaveUp"}]
    /\ sent \subseteq Tasks
    /\ todo \in [Groups -> [Tasks -> Nat]]
    /\ pc \in [Consumers -> {"idle", "work", "insert", "evict", "return", "down"}]
    /\ task \in [Consumers -> Tasks \cup {NoTask}]
    /\ \A c \in Consumers :
           /\ pc[c] \in {"idle", "down"} <=> task[c] = NoTask
           /\ pc[c] = "insert" => c \in Counters
    /\ stale \subseteq {c \in Consumers : task[c] # NoTask}
    /\ keys \subseteq {"event:", "analytics:event:"} \X Tasks
    /\ taskCount \in [Users -> Nat]
    /\ effects \in [Groups -> [Tasks -> Nat]]
    /\ excuses \in [Groups -> [Tasks -> Nat]]
    /\ orphaned \subseteq Groups \X Tasks
    /\ cut \subseteq Groups \X Tasks
    /\ budget \in [FaultKinds -> Nat]

NoneYet == [g \in Groups |-> [t \in Tasks |-> 0]]

Init ==
    /\ Relay!Init
    /\ todo = NoneYet
    /\ pc = [c \in Consumers |-> "idle"]
    /\ task = [c \in Consumers |-> NoTask]
    /\ stale = {}
    /\ keys = {}
    /\ taskCount = [u \in Users |-> 0]
    /\ effects = NoneYet
    /\ excuses = NoneYet
    /\ orphaned = {}
    /\ cut = {}
    /\ budget = Budget

Spend(kind) ==
    /\ budget[kind] > 0
    /\ budget' = [budget EXCEPT ![kind] = @ - 1]

Goto(c, label) == pc' = [pc EXCEPT ![c] = label]

\* Mutated: the consumer still holds on to the message.
FinishHolding(c) == Goto(c, "idle") /\ UNCHANGED <<task, stale>>

Finish(c) ==
    /\ Goto(c, "idle")
    /\ task' = [task EXCEPT ![c] = NoTask]
    /\ stale' = stale \ {c}

Plus(f, g, t) == [f EXCEPT ![g][t] = @ + 1]

-----------------------------------------------------------------------------
(* task-service                                                            *)

Create(t) == Relay!Accept(t) /\ UNCHANGED <<consumerVars, budget>>

SettleOrRemark(t) ==
    /\ Relay!Settle(t) \/ Relay!Remark(t)
    /\ UNCHANGED <<consumerVars, budget>>

\* Each copy is seen by both groups.
Send(t) ==
    /\ Relay!Send(t)
    /\ IF t \in sent THEN Spend("copy") ELSE UNCHANGED budget
    /\ todo' = [g \in Groups |-> [todo[g] EXCEPT ![t] = @ + 1]]
    /\ UNCHANGED <<pc, task, stale, keys, taskCount, effects, excuses, orphaned,
                   cut>>

-----------------------------------------------------------------------------
(* The two handlers of task.created                                        *)

\* Consumers of g that handle a copy of the event of t which is still theirs.
Handlers(g, t) == {c \in Consumers \ stale : GroupOf(c) = g /\ task[c] = t}

\* A copy of the event of t is delivered to the idle consumer c of g.
Delivered(c, g, t) ==
    /\ pc[c] = "idle"
    /\ GroupOf(c) = g
    /\ Cardinality(Handlers(g, t)) < todo[g][t]

Resolved(g, t) == todo' = [todo EXCEPT ![g][t] = @ - 1]

\* Mutated: both services use the same key.
KeyShared(g, t) == <<"event:", t>>

KeyOf(g, t) ==
    << IF g = "notification-group" THEN "event:" ELSE "analytics:event:", t >>

Key(c) == KeyOf(GroupOf(c), task[c])

\* Mutated: SET without NX always answers OK.
ClaimAlways(c, g, t) ==
    /\ Delivered(c, g, t)
    /\ keys' = keys \cup {KeyOf(g, t)}
    /\ Goto(c, "work")
    /\ task' = [task EXCEPT ![c] = t]
    /\ UNCHANGED <<mark, sent, todo, stale, taskCount, effects, excuses, orphaned,
                   cut, budget>>

\* The key is set: the work begins.  Until then a handler has done nothing.
Claim(c, g, t) ==
    /\ Delivered(c, g, t)
    /\ KeyOf(g, t) \notin keys
    /\ keys' = keys \cup {KeyOf(g, t)}
    /\ Goto(c, "work")
    /\ task' = [task EXCEPT ![c] = t]
    /\ UNCHANGED <<mark, sent, todo, stale, taskCount, effects, excuses, orphaned,
                   cut, budget>>

\* The key is there: a duplicate, and the handler returns at once.
Skip(c, g, t) ==
    /\ Delivered(c, g, t)
    /\ KeyOf(g, t) \in keys
    /\ Resolved(g, t)
    /\ UNCHANGED <<mark, sent, pc, task, stale, keys, taskCount, effects, excuses,
                   orphaned, cut, budget>>

\* Redis applied SET NX but its answer was lost; ioredis sends it again and gets
\* nil: the handler takes its own key for another copy's and returns.
ClaimReplyLost(c, g, t) ==
    /\ Delivered(c, g, t)
    /\ KeyOf(g, t) \notin keys
    /\ Spend("failure")
    /\ keys' = keys \cup {KeyOf(g, t)}
    /\ orphaned' = orphaned \cup {<<g, t>>}
    /\ Resolved(g, t)
    /\ UNCHANGED <<mark, sent, pc, task, stale, taskCount, effects, excuses, cut>>

\* The effect of the handler of c is in MongoDB.
Applied(c) == effects' = Plus(effects, GroupOf(c), task[c])

AppliedInDoubt(c) ==
    /\ Applied(c)
    /\ excuses' = Plus(excuses, GroupOf(c), task[c])

\* The handler goes on after a write that was applied: it knows, or it got an
\* error all the same.
Written(c) ==
    \/ /\ Applied(c)
       /\ Goto(c, "return")
       /\ UNCHANGED <<excuses, budget>>
    \/ /\ AppliedInDoubt(c)
       /\ Spend("failure")
       /\ Goto(c, "evict")

\* notificationModel.create
Notify(c) ==
    /\ pc[c] = "work"
    /\ c \in Notifiers
    /\ Written(c)
    /\ UNCHANGED <<mark, sent, todo, task, stale, keys, taskCount, orphaned, cut>>

\* updateOne with $inc finds the counter of the user.
Increment(c) ==
    LET u == UserOf[task[c]]
    IN  /\ pc[c] = "work"
        /\ c \in Counters
        /\ taskCount[u] > 0
        /\ taskCount' = [taskCount EXCEPT ![u] = @ + 1]
        /\ Written(c)
        /\ UNCHANGED <<mark, sent, todo, task, stale, keys, orphaned, cut>>

\* updateOne finds no counter and is going to insert one.
NoCounterYet(c) ==
    /\ pc[c] = "work"
    /\ c \in Counters
    /\ taskCount[UserOf[task[c]]] = 0
    /\ Goto(c, "insert")
    /\ UNCHANGED <<mark, sent, todo, task, stale, keys, taskCount, effects, excuses,
                   orphaned, cut, budget>>

\* Mutated: no unique index; the new counter hides the one that is there.
InsertHides(c) ==
    /\ pc[c] = "insert"
    /\ taskCount' = [taskCount EXCEPT ![UserOf[task[c]]] = 1]
    /\ Written(c)
    /\ UNCHANGED <<mark, sent, todo, task, stale, keys, orphaned, cut>>

\* The upsert inserts, or finds that another one was faster: the unique index
\* refuses it, or the server tries it once more as an update.
Insert(c) ==
    /\ pc[c] = "insert"
    /\ \/ /\ taskCount' = [taskCount EXCEPT ![UserOf[task[c]]] = @ + 1]
          /\ Written(c)
       \/ /\ taskCount[UserOf[task[c]]] > 0
          /\ Goto(c, "evict")
          /\ UNCHANGED <<taskCount, effects, excuses, budget>>
    /\ UNCHANGED <<mark, sent, todo, task, stale, keys, orphaned, cut>>

WorkFails(c) ==
    /\ pc[c] \in {"work", "insert"}
    /\ Spend("failure")
    /\ Goto(c, "evict")
    /\ UNCHANGED <<mark, sent, todo, task, stale, keys, taskCount, effects, excuses,
                   orphaned, cut>>

Holding(c, g, t) ==
    GroupOf(c) = g /\ task[c] = t /\ pc[c] \in {"work", "insert", "evict"}

\* The key of c, if it holds one, is nobody's from now on.
LeaveKey(c) ==
    orphaned' = orphaned \cup {p \in Groups \X Tasks : Holding(c, p[1], p[2])}

\* Mutated: the error is thrown, but the key stays.
EvictForgotten(c) ==
    /\ pc[c] = "evict"
    /\ Finish(c)
    /\ UNCHANGED <<mark, sent, todo, keys, taskCount, effects, excuses, orphaned, cut,
                   budget>>

\* The catch block; the error is thrown and the copy comes again.
Evict(c) ==
    /\ pc[c] = "evict"
    /\ keys' = keys \ {Key(c)}
    /\ Finish(c)
    /\ UNCHANGED <<mark, sent, todo, taskCount, effects, excuses, orphaned, cut, budget>>

\* redis.del fails too: that error is thrown instead, and the key stays.
EvictFails(c) ==
    /\ pc[c] = "evict"
    /\ Spend("failure")
    /\ LeaveKey(c)
    /\ Finish(c)
    /\ UNCHANGED <<mark, sent, todo, keys, taskCount, effects, excuses, cut>>

\* The offset of a copy that is no longer c's is not c's to resolve.
Return(c) ==
    /\ pc[c] = "return"
    /\ IF c \in stale THEN UNCHANGED todo ELSE Resolved(GroupOf(c), task[c])
    /\ Finish(c)
    /\ UNCHANGED <<mark, sent, keys, taskCount, effects, excuses, orphaned, cut, budget>>

-----------------------------------------------------------------------------
(* Rebalances, crashes, and keys that run out                              *)

\* Every partition of g is revoked at once: the members of g that handle a copy
\* go on, while it is delivered again.
Regroup(g, members) ==
    /\ stale' = members \cap
           (stale \cup {c \in Consumers : GroupOf(c) = g /\ task[c] # NoTask})
    /\ cut' = cut \cup
           {p \in {g} \X Tasks : \E c \in members : Holding(c, g, p[2])}

\* A member misses its heartbeats, or the service is scaled.
Rebalance(g) ==
    /\ Spend("rebalance")
    /\ Regroup(g, Consumers)
    /\ UNCHANGED <<mark, sent, todo, pc, task, keys, taskCount, effects, excuses,
                   orphaned>>

\* A process dies or starts; either makes its group rebalance.
Crash(c) ==
    /\ pc[c] # "down"
    /\ Spend("failure")
    /\ Goto(c, "down")
    /\ task' = [task EXCEPT ![c] = NoTask]
    /\ LeaveKey(c)
    /\ Regroup(GroupOf(c), Consumers \ {c})
    /\ UNCHANGED <<mark, sent, todo, keys, taskCount, effects, excuses>>

Restart(c) ==
    /\ pc[c] = "down"
    /\ Goto(c, "idle")
    /\ Regroup(GroupOf(c), Consumers)
    /\ UNCHANGED <<mark, sent, todo, task, keys, taskCount, effects, excuses, orphaned,
                   budget>>

\* 24 hours after the claim, when its handler is long gone.
Expire(g, t) ==
    /\ KeyOf(g, t) \in keys
    /\ \A c \in Consumers : ~Holding(c, g, t)
    /\ Spend("failure")
    /\ keys' = keys \ {KeyOf(g, t)}
    /\ excuses' = Plus(excuses, g, t)
    /\ UNCHANGED <<mark, sent, todo, pc, task, stale, taskCount, effects, orphaned,
                   cut>>

-----------------------------------------------------------------------------

ConsumerStep(c) ==
    \/ \E t \in Tasks : Claim(c, GroupOf(c), t) \/ Skip(c, GroupOf(c), t)
    \/ Notify(c) \/ Increment(c) \/ NoCounterYet(c) \/ Insert(c)
    \/ Evict(c) \/ Return(c) \/ Restart(c)

FaultStep(c) ==
    \/ \E t \in Tasks : ClaimReplyLost(c, GroupOf(c), t)
    \/ WorkFails(c) \/ EvictFails(c) \/ Crash(c)

Next ==
    \/ \E t \in Tasks : Create(t) \/ Send(t) \/ SettleOrRemark(t)
    \/ \E c \in Consumers : ConsumerStep(c) \/ FaultStep(c)
    \/ \E g \in Groups : Rebalance(g)
    \/ \E g \in Groups, t \in Tasks : Expire(g, t)

Spec == Init /\ [][Next]_vars

\* The outbox settles every event (EventRelay), and as long as consumers can go
\* on, one does.
Fairness ==
    /\ \A t \in Tasks : WF_vars(Relay!Settle(t) /\ UNCHANGED <<consumerVars, budget>>)
    /\ WF_vars(\E c \in Consumers : ConsumerStep(c))

FairSpec == Spec /\ Fairness

-----------------------------------------------------------------------------
(* Properties                                                              *)

\* grpcGetUserCounter
UserCounter(u) == taskCount[u]

TasksOf(u) == {t \in Tasks : UserOf[t] = u}

\* The increments that were applied for u: the n-th one for each of its tasks.
Increments(u) ==
    UNION {{t} \X (1 .. effects["analytics-group"][t]) : t \in TasksOf(u)}

\* Counters that are incremented for two tasks of a user at the same time, also
\* the two first ones, lose no increment.
NoIncrementLost ==
    \A u \in Users : UserCounter(u) = Cardinality(Increments(u))

\* The effect of g on t may be wrong: it was in doubt, its key was left behind
\* (its handler died, did not learn that the key was its own, or could not evict
\* it), or its handler was at work during a rebalance, so that the group may have
\* passed the copy before the handler failed.
Spoilt(g, t) == excuses[g][t] > 0 \/ <<g, t>> \in orphaned \cup cut

\* When both groups are through with the topic and none of a user's tasks is
\* spoilt, the user's counter, notifications and published tasks agree.
ServicesAgree ==
    \A u \in Users :
        (\A g \in Groups, t \in TasksOf(u) : todo[g][t] = 0 /\ ~Spoilt(g, t))
        => /\ UserCounter(u) = Cardinality(TasksOf(u) \cap sent)
           /\ \A t \in TasksOf(u) :
                  effects["notification-group"][t] = IF t \in sent THEN 1 ELSE 0

\* A failure spoils the work of one service on one task, and of no other: when
\* the copies of a task are resolved, its effect is there once, except for as
\* many pairs of service and task as there were failed or lost calls, crashes
\* and expiries, and for the pairs other handlers were at in a rebalance.
EachFailureHarmsOne ==
    LET Harmed == {p \in Groups \X sent :
                       todo[p[1]][p[2]] = 0 /\ effects[p[1]][p[2]] # 1}
    IN  Cardinality(Harmed \ cut) + budget["failure"] <= Budget["failure"]

\* No service has a notification or a count of a task that was never stored.
NothingInvented ==
    \A g \in Groups, t \in Tasks : effects[g][t] > 0 => mark[t] # "absent"

\* Both groups, over one Redis, deliver as EventDelivery promises.
Delivery == INSTANCE EventDelivery WITH Events <- Tasks
ImplementsDelivery == Delivery!Spec

\* project.md:56, a created task reaches both services, unless the outbox has
\* given it up, or its handler left its key behind (died, did not learn that the
\* key was its own, could not evict it) or was at work during a rebalance.
TaskReachesServices ==
    \A t \in Tasks :
        mark[t] = "waiting" ~>
            \/ mark[t] = "gaveUp"
            \/ \A g \in Groups : effects[g][t] > 0 \/ <<g, t>> \in orphaned \cup cut
================================================================================
