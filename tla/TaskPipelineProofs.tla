-------------------------- MODULE TaskPipelineProofs --------------------------
(***************************************************************************)
(* Proofs about TaskPipeline for any number of tasks, users, replicas,     *)
(* repeated copies and faults.  A consumer that works holds the key of its *)
(* group and task, which nobody else's handler can be past; a group has at *)
(* least as many unresolved copies of an event as consumers that handle it.*)
(* Damage is counted as a set of pairs of group and task that grows by at  *)
(* most one element per failure.                                           *)
(***************************************************************************)
EXTENDS TaskPipeline, Integers, FiniteSetTheorems, TLAPS

\* Nobody handles, and nothing waits for, an event that has not been sent.
SentInv ==
    /\ \A g \in Groups, t \in Tasks : todo[g][t] > 0 => t \in sent
    /\ \A c \in Consumers : task[c] # NoTask => task[c] \in sent

CopiesInv ==
    \A g \in Groups, t \in Tasks : Cardinality(Handlers(g, t)) <= todo[g][t]

KeyHeld ==
    \A c \in Consumers, g \in Groups, t \in Tasks :
        Holding(c, g, t) => KeyOf(g, t) \in keys

OneHolder ==
    \A c, d \in Consumers, g \in Groups, t \in Tasks :
        Holding(c, g, t) /\ Holding(d, g, t) => c = d

EffectsExcused ==
    \A g \in Groups, t \in Tasks :
        /\ effects[g][t] <= 1 + excuses[g][t]
        /\ KeyOf(g, t) \notin keys => effects[g][t] <= excuses[g][t]
        /\ \A c \in Consumers : Holding(c, g, t) => effects[g][t] <= excuses[g][t]

HoldInv == KeyHeld /\ OneHolder /\ EffectsExcused

-----------------------------------------------------------------------------
(* Groups, keys and handlers                                               *)

LEMMA GroupType == \A c \in Consumers : GroupOf(c) \in Groups
  BY DEF GroupOf, Groups

LEMMA KeyInjective ==
    \A g, h \in Groups, s, t \in Tasks :
        KeyOf(g, s) = KeyOf(h, t) <=> g = h /\ s = t
  BY DEF KeyOf, Groups

LEMMA KeyType ==
    \A g \in Groups, t \in Tasks : KeyOf(g, t) \in {"event:", "analytics:event:"} \X Tasks
  BY DEF KeyOf, Groups

LEMMA HandlersFinite ==
    \A g, t : /\ IsFiniteSet(Handlers(g, t))
              /\ Cardinality(Handlers(g, t)) \in Nat
  <1>1. IsFiniteSet(Consumers)
    BY PipelineAssumption, FS_Union DEF Consumers
  <1>2. \A g, t : Handlers(g, t) \subseteq Consumers
    BY DEF Handlers
  <1>3. QED
    BY <1>1, <1>2, FS_Subset, FS_CardinalityType

LEMMA HandlersFinitePrime ==
    \A g, t : /\ IsFiniteSet(Handlers(g, t)')
              /\ Cardinality(Handlers(g, t)') \in Nat
  <1>1. IsFiniteSet(Consumers)
    BY PipelineAssumption, FS_Union DEF Consumers
  <1>2. \A g, t : Handlers(g, t)' \subseteq Consumers
    BY DEF Handlers
  <1>3. QED
    BY <1>1, <1>2, FS_Subset, FS_CardinalityType

\* A consumer takes a copy.
LEMMA HandlersStart ==
    ASSUME TypeOK, NEW c \in Consumers, NEW t \in Tasks, task[c] = NoTask,
           task' = [task EXCEPT ![c] = t], UNCHANGED stale,
           NEW g \in Groups, NEW s \in Tasks
    PROVE  Cardinality(Handlers(g, s)') <=
               Cardinality(Handlers(g, s)) + (IF g = GroupOf(c) /\ s = t THEN 1 ELSE 0)
  <1>1. CASE g = GroupOf(c) /\ s = t
    <2>1. Handlers(g, s)' = Handlers(g, s) \cup {c}
      BY <1>1 DEF Handlers, TypeOK
    <2>2. c \notin Handlers(g, s)
      BY <1>1, PipelineAssumption DEF Handlers
    <2>3. Cardinality(Handlers(g, s) \cup {c}) = Cardinality(Handlers(g, s)) + 1
      BY <2>2, HandlersFinite, FS_AddElement
    <2>4. QED
      BY <1>1, <2>1, <2>3, HandlersFinite
  <1>2. CASE ~(g = GroupOf(c) /\ s = t)
    <2>1. Handlers(g, s)' = Handlers(g, s)
      BY <1>2, PipelineAssumption DEF Handlers, TypeOK
    <2>2. QED
      BY <1>2, <2>1, HandlersFinite
  <1>3. QED
    BY <1>1, <1>2

\* Consumers let go of copies, or lose them.
LEMMA HandlersFewer ==
    ASSUME NEW g \in Groups, NEW s \in Tasks,
           \A d \in Consumers : \/ task'[d] = NoTask
                                \/ task'[d] = task[d] /\ (d \in stale => d \in stale')
    PROVE  Cardinality(Handlers(g, s)') <= Cardinality(Handlers(g, s))
  <1>1. Handlers(g, s)' \subseteq Handlers(g, s)
    BY PipelineAssumption DEF Handlers
  <1>2. QED
    BY <1>1, HandlersFinite, FS_Subset

\* A consumer lets go of a copy that is its own.
LEMMA HandlersEnd ==
    ASSUME TypeOK, NEW c \in Consumers, task[c] # NoTask, c \notin stale,
           task' = [task EXCEPT ![c] = NoTask], stale' = stale \ {c}, NEW g \in Groups, NEW s \in Tasks
    PROVE  /\ Cardinality(Handlers(g, s)') =
                  Cardinality(Handlers(g, s))
                  - (IF g = GroupOf(c) /\ s = task[c] THEN 1 ELSE 0)
           /\ g = GroupOf(c) /\ s = task[c] => Cardinality(Handlers(g, s)) > 0
  <1>1. CASE g = GroupOf(c) /\ s = task[c]
    <2>1. Handlers(g, s)' = Handlers(g, s) \ {c}
      BY <1>1, PipelineAssumption DEF Handlers, TypeOK
    <2>2. c \in Handlers(g, s)
      BY <1>1 DEF Handlers
    <2>3. Cardinality(Handlers(g, s) \ {c}) = Cardinality(Handlers(g, s)) - 1
      BY <2>2, HandlersFinite, FS_RemoveElement
    <2>4. Cardinality(Handlers(g, s) \ {c}) \in Nat
      BY <2>1, HandlersFinitePrime
    <2>5. QED
      BY <1>1, <2>1, <2>3, <2>4, HandlersFinite
  <1>2. CASE ~(g = GroupOf(c) /\ s = task[c])
    <2>1. Handlers(g, s)' = Handlers(g, s)
      BY <1>2, PipelineAssumption DEF Handlers, TypeOK
    <2>2. QED
      BY <1>2, <2>1, HandlersFinite
  <1>3. QED
    BY <1>1, <1>2

LEMMA SpendType ==
    ASSUME TypeOK, NEW kind \in FaultKinds, Spend(kind)
    PROVE  budget' \in [FaultKinds -> Nat]
  BY DEF Spend, TypeOK

LEMMA PlusType ==
    ASSUME NEW f \in [Groups -> [Tasks -> Nat]], NEW g \in Groups, NEW t \in Tasks
    PROVE  /\ Plus(f, g, t) \in [Groups -> [Tasks -> Nat]]
           /\ Plus(f, g, t)[g][t] = f[g][t] + 1
           /\ \A h \in Groups, s \in Tasks :
                  h # g \/ s # t => Plus(f, g, t)[h][s] = f[h][s]
  BY DEF Plus


-----------------------------------------------------------------------------
(* Types and copies                                                        *)

Copied == TypeOK /\ SentInv /\ CopiesInv

LEMMA InitCopied == Init => Copied
  <1> SUFFICES ASSUME Init
               PROVE  Copied
    OBVIOUS
  <1>1. TypeOK /\ SentInv
    BY PipelineAssumption
    DEF Init, Relay!Init, NoneYet, TypeOK, SentInv
  <1>2. ASSUME NEW g \in Groups, NEW t \in Tasks
        PROVE  Cardinality(Handlers(g, t)) <= todo[g][t]
    <2>1. Handlers(g, t) = {}
      BY PipelineAssumption DEF Init, Handlers
    <2>2. QED
      BY <2>1, FS_EmptySet DEF Init, NoneYet
  <1>3. QED
    BY <1>1, <1>2 DEF Copied, CopiesInv

\* A step that gives no consumer a copy and resolves none.
LEMMA CopiedKept ==
    ASSUME Copied, TypeOK', sent \subseteq sent', UNCHANGED todo,
           \A d \in Consumers : \/ task'[d] = NoTask
                                \/ task'[d] = task[d] /\ (d \in stale => d \in stale')
    PROVE  Copied'
  <1>1. SentInv'
    BY DEF Copied, SentInv
  <1>2. ASSUME NEW g \in Groups, NEW t \in Tasks
        PROVE  Cardinality(Handlers(g, t)') <= todo'[g][t]
    <2>1. Cardinality(Handlers(g, t)') <= Cardinality(Handlers(g, t))
      BY HandlersFewer
    <2>2. /\ Cardinality(Handlers(g, t)) <= todo[g][t] /\ todo[g][t] \in Nat
          /\ Cardinality(Handlers(g, t)) \in Nat /\ Cardinality(Handlers(g, t)') \in Nat
      BY HandlersFinite, HandlersFinitePrime DEF Copied, CopiesInv, TypeOK
    <2>3. QED
      BY <2>1, <2>2
  <1>3. QED
    BY <1>1, <1>2 DEF Copied, CopiesInv

LEMMA RelayStep ==
    ASSUME Copied, NEW t \in Tasks, Create(t) \/ SettleOrRemark(t)
    PROVE  Copied' /\ UNCHANGED <<sent, consumerVars>>
  <1>1. /\ UNCHANGED <<sent, consumerVars, budget>>
        /\ \E m \in {"waiting", "sent", "gaveUp"} : mark' = [mark EXCEPT ![t] = m]
    BY DEF Create, SettleOrRemark, Relay!Accept, Relay!Settle, Relay!Remark,
           Relay!MarkAs
  <1>2. TypeOK'
    BY <1>1 DEF Copied, TypeOK, consumerVars
  <1>3. QED
    BY <1>1, <1>2, CopiedKept DEF consumerVars

LEMMA SendStep ==
    ASSUME Copied, NEW t \in Tasks, Send(t)
    PROVE  Copied'
  <1>1. /\ sent' = sent \cup {t} /\ mark' = mark
        /\ todo' = [g \in Groups |-> [todo[g] EXCEPT ![t] = todo[g][t] + 1]]
        /\ UNCHANGED <<pc, task, stale, keys, taskCount, effects, excuses, orphaned,
                       cut>>
    BY DEF Send, Relay!Send
  <1>2. budget' \in [FaultKinds -> Nat]
    BY SpendType DEF Send, FaultKinds, Copied, TypeOK
  <1>3. /\ todo' \in [Groups -> [Tasks -> Nat]]
        /\ \A g \in Groups, s \in Tasks :
               todo'[g][s] = todo[g][s] + (IF s = t THEN 1 ELSE 0)
    BY <1>1 DEF Copied, TypeOK
  <1>4. TypeOK'
    BY <1>1, <1>2, <1>3 DEF Copied, TypeOK
  <1>5. SentInv'
    BY <1>1, <1>3 DEF Copied, SentInv, TypeOK
  <1>6. ASSUME NEW g \in Groups, NEW s \in Tasks
        PROVE  Cardinality(Handlers(g, s)') <= todo'[g][s]
    <2>1. Handlers(g, s)' = Handlers(g, s)
      BY <1>1 DEF Handlers
    <2>2. /\ Cardinality(Handlers(g, s)) <= todo[g][s]
          /\ todo[g][s] \in Nat /\ Cardinality(Handlers(g, s)) \in Nat
      BY HandlersFinite DEF Copied, CopiesInv, TypeOK
    <2>3. QED
      BY <1>3, <2>1, <2>2
  <1>7. QED
    BY <1>4, <1>5, <1>6 DEF Copied, CopiesInv

\* What Delivered says of the copy that the consumer takes.
LEMMA DeliveredFacts ==
    ASSUME Copied, NEW c \in Consumers, NEW g \in Groups, NEW t \in Tasks,
           Delivered(c, g, t)
    PROVE  /\ todo[g][t] > 0 /\ t \in sent
           /\ task[c] = NoTask /\ pc[c] = "idle" /\ GroupOf(c) = g
           /\ Cardinality(Handlers(g, t)) + 1 <= todo[g][t]
  <1>1. /\ Cardinality(Handlers(g, t)) \in Nat /\ todo[g][t] \in Nat
        /\ Cardinality(Handlers(g, t)) < todo[g][t]
    BY HandlersFinite DEF Copied, TypeOK, Delivered
  <1>2. todo[g][t] > 0
    BY <1>1
  <1>3. t \in sent
    BY <1>2 DEF Copied, SentInv
  <1>4. QED
    BY <1>1, <1>2, <1>3 DEF Delivered, Copied, TypeOK

LEMMA ClaimStep ==
    ASSUME Copied, NEW c \in Consumers, NEW g \in Groups, NEW t \in Tasks,
           Claim(c, g, t)
    PROVE  Copied'
  <1>1. /\ keys' = keys \cup {KeyOf(g, t)}
        /\ pc' = [pc EXCEPT ![c] = "work"]
        /\ task' = [task EXCEPT ![c] = t]
        /\ UNCHANGED <<mark, sent, todo, stale, taskCount, effects, excuses, orphaned,
                       cut, budget>>
    BY DEF Claim, Goto
  <1>2. /\ t \in sent /\ task[c] = NoTask /\ GroupOf(c) = g
        /\ Cardinality(Handlers(g, t)) + 1 <= todo[g][t]
    BY DeliveredFacts DEF Claim
  <1>3. TypeOK'
    BY <1>1, KeyType, PipelineAssumption DEF Copied, TypeOK
  <1>4. SentInv'
    BY <1>1, <1>2 DEF Copied, SentInv, TypeOK
  <1>5. ASSUME NEW h \in Groups, NEW s \in Tasks
        PROVE  Cardinality(Handlers(h, s)') <= todo'[h][s]
    <2>1. /\ Cardinality(Handlers(h, s)) <= todo[h][s]
          /\ todo[h][s] \in Nat /\ Cardinality(Handlers(h, s)) \in Nat
          /\ Cardinality(Handlers(h, s)') \in Nat
      BY HandlersFinite, HandlersFinitePrime DEF Copied, CopiesInv, TypeOK
    <2>2. Cardinality(Handlers(h, s)') <=
              Cardinality(Handlers(h, s)) + (IF h = GroupOf(c) /\ s = t THEN 1 ELSE 0)
      BY <1>1, <1>2, HandlersStart DEF Copied
    <2>3. QED
      BY <1>1, <1>2, <2>1, <2>2
  <1>6. QED
    BY <1>3, <1>4, <1>5 DEF Copied, CopiesInv

LEMMA ResolvedType ==
    ASSUME TypeOK, NEW g \in Groups, NEW t \in Tasks, todo[g][t] > 0, Resolved(g, t)
    PROVE  /\ todo' \in [Groups -> [Tasks -> Nat]]
           /\ \A h \in Groups, s \in Tasks :
                  todo'[h][s] = todo[h][s] - (IF h = g /\ s = t THEN 1 ELSE 0)
  <1>1. todo[g][t] - 1 \in Nat
    BY DEF TypeOK
  <1>2. QED
    BY <1>1 DEF TypeOK, Resolved

\* A duplicate, or what a handler takes for one.
LEMMA SkipStep ==
    ASSUME Copied, NEW c \in Consumers, NEW g \in Groups, NEW t \in Tasks,
           Skip(c, g, t) \/ ClaimReplyLost(c, g, t)
    PROVE  Copied'
  <1>1. /\ Delivered(c, g, t) /\ Resolved(g, t)
        /\ keys' \subseteq keys \cup {KeyOf(g, t)}
        /\ orphaned' \subseteq orphaned \cup {<<g, t>>}
        /\ UNCHANGED <<mark, sent, pc, task, stale, taskCount, effects, excuses, cut>>
    BY DEF Skip, ClaimReplyLost
  <1>2. /\ todo[g][t] > 0
        /\ Cardinality(Handlers(g, t)) + 1 <= todo[g][t]
    BY <1>1, DeliveredFacts
  <1>3. /\ todo' \in [Groups -> [Tasks -> Nat]]
        /\ \A h \in Groups, s \in Tasks :
               todo'[h][s] = todo[h][s] - (IF h = g /\ s = t THEN 1 ELSE 0)
    BY <1>1, <1>2, ResolvedType DEF Copied
  <1>4. TypeOK'
    <2>1. budget' \in [FaultKinds -> Nat]
      BY SpendType DEF Skip, ClaimReplyLost, FaultKinds, Copied, TypeOK
    <2>2. /\ keys' \subseteq {"event:", "analytics:event:"} \X Tasks
          /\ orphaned' \subseteq Groups \X Tasks
      BY <1>1, KeyType DEF Copied, TypeOK
    <2>3. QED
      BY <1>1, <1>3, <2>1, <2>2 DEF Copied, TypeOK
  <1>5. SentInv'
    <2>1. ASSUME NEW h \in Groups, NEW s \in Tasks, todo'[h][s] > 0
          PROVE  s \in sent
      <3>1. todo[h][s] \in Nat
        BY DEF Copied, TypeOK
      <3>2. todo[h][s] > 0
        BY <1>2, <1>3, <2>1, <3>1
      <3>3. QED
        BY <3>2 DEF Copied, SentInv
    <2>2. QED
      BY <1>1, <2>1 DEF Copied, SentInv
  <1>6. ASSUME NEW h \in Groups, NEW s \in Tasks
        PROVE  Cardinality(Handlers(h, s)') <= todo'[h][s]
    <2>1. Handlers(h, s)' = Handlers(h, s)
      BY <1>1 DEF Handlers
    <2>2. /\ Cardinality(Handlers(h, s)) <= todo[h][s]
          /\ todo[h][s] \in Nat /\ Cardinality(Handlers(h, s)) \in Nat
      BY HandlersFinite DEF Copied, CopiesInv, TypeOK
    <2>3. QED
      BY <1>2, <1>3, <2>1, <2>2
  <1>7. QED
    BY <1>4, <1>5, <1>6 DEF Copied, CopiesInv

\* A handler returns for a copy that is its own.
LEMMA ResolveStep ==
    ASSUME Copied, NEW c \in Consumers, Return(c), c \notin stale
    PROVE  Copied'
  <1>1. /\ pc[c] = "return" /\ pc' = [pc EXCEPT ![c] = "idle"]
        /\ task' = [task EXCEPT ![c] = NoTask] /\ stale' = stale \ {c}
        /\ Resolved(GroupOf(c), task[c])
        /\ UNCHANGED <<mark, sent, keys, taskCount, effects, excuses, orphaned, cut,
                       budget>>
    BY DEF Return, Finish, Goto
  <1>2. task[c] # NoTask
    BY <1>1 DEF Copied, TypeOK
  <1>3. PICK g \in Groups, t \in Tasks : g = GroupOf(c) /\ t = task[c]
    BY <1>2, GroupType DEF Copied, TypeOK
  <1>4. todo[g][t] > 0 /\ todo[g][t] \in Nat
    <2>1. Cardinality(Handlers(g, t)) > 0
      BY <1>1, <1>2, <1>3, HandlersEnd DEF Copied
    <2>2. QED
      BY <2>1, HandlersFinite DEF Copied, CopiesInv, TypeOK
  <1>5. /\ todo' \in [Groups -> [Tasks -> Nat]]
        /\ \A h \in Groups, s \in Tasks :
               todo'[h][s] = todo[h][s] - (IF h = g /\ s = t THEN 1 ELSE 0)
    BY <1>1, <1>3, <1>4, ResolvedType DEF Copied
  <1>6. TypeOK'
    BY <1>1, <1>5, PipelineAssumption DEF Copied, TypeOK
  <1>7. SentInv'
    <2>1. ASSUME NEW h \in Groups, NEW s \in Tasks, todo'[h][s] > 0
          PROVE  s \in sent
      <3>1. todo[h][s] \in Nat
        BY DEF Copied, TypeOK
      <3>2. todo[h][s] > 0
        BY <1>4, <1>5, <2>1, <3>1
      <3>3. QED
        BY <3>2 DEF Copied, SentInv
    <2>2. \A d \in Consumers : task'[d] # NoTask => task'[d] \in sent
      BY <1>1 DEF Copied, SentInv, TypeOK
    <2>3. QED
      BY <1>1, <2>1, <2>2 DEF SentInv
  <1>8. ASSUME NEW h \in Groups, NEW s \in Tasks
        PROVE  Cardinality(Handlers(h, s)') <= todo'[h][s]
    <2>1. /\ Cardinality(Handlers(h, s)) <= todo[h][s]
          /\ todo[h][s] \in Nat /\ Cardinality(Handlers(h, s)) \in Nat
      BY HandlersFinite DEF Copied, CopiesInv, TypeOK
    <2>2. Cardinality(Handlers(h, s)') =
              Cardinality(Handlers(h, s)) - (IF h = g /\ s = t THEN 1 ELSE 0)
      BY <1>1, <1>2, <1>3, HandlersEnd DEF Copied
    <2>3. QED
      BY <1>5, <2>1, <2>2
  <1>9. QED
    BY <1>6, <1>7, <1>8 DEF Copied, CopiesInv

\* A consumer lets go of its copy without resolving it.
LEMMA EndStep ==
    ASSUME Copied, NEW c \in Consumers, NEW label \in {"idle", "down"},
           pc' = [pc EXCEPT ![c] = label], task' = [task EXCEPT ![c] = NoTask],
           stale \ {c} \subseteq stale',
           stale' \subseteq {d \in Consumers \ {c} : task[d] # NoTask},
           UNCHANGED <<mark, sent, todo, taskCount, effects, excuses>>,
           keys' \subseteq keys, orphaned' \subseteq Groups \X Tasks,
           cut' \subseteq Groups \X Tasks, budget' \in [FaultKinds -> Nat]
    PROVE  Copied'
  <1>1. TypeOK'
    BY PipelineAssumption DEF Copied, TypeOK
  <1>2. \A d \in Consumers : \/ task'[d] = NoTask
                             \/ task'[d] = task[d] /\ (d \in stale => d \in stale')
    BY DEF Copied, TypeOK
  <1>3. QED
    BY <1>1, <1>2, CopiedKept

LEMMA RegroupType ==
    ASSUME TypeOK, NEW g \in Groups, NEW members \in SUBSET Consumers,
           Regroup(g, members)
    PROVE  /\ stale \cap members \subseteq stale'
           /\ stale' \subseteq {d \in members : task[d] # NoTask}
           /\ cut \subseteq cut' /\ cut' \subseteq Groups \X Tasks
  BY DEF Regroup, TypeOK

\* What a step of a consumer that works does to effects and excuses.
LEMMA WorkCases ==
    ASSUME NEW c \in Consumers,
           Notify(c) \/ Increment(c) \/ NoCounterYet(c) \/ Insert(c) \/ WorkFails(c)
    PROVE  \/ /\ UNCHANGED <<effects, excuses>>
              /\ \E label \in {"insert", "evict"} :
                     /\ label = "insert" => c \in Counters
                     /\ pc' = [pc EXCEPT ![c] = label]
           \/ /\ effects' = Plus(effects, GroupOf(c), task[c])
              /\ excuses' = excuses
              /\ pc' = [pc EXCEPT ![c] = "return"]
           \/ /\ effects' = Plus(effects, GroupOf(c), task[c])
              /\ excuses' = Plus(excuses, GroupOf(c), task[c])
              /\ pc' = [pc EXCEPT ![c] = "evict"]
  <1>1. CASE Written(c)
    BY <1>1 DEF Written, Applied, AppliedInDoubt, Goto
  <1>2. CASE ~Written(c)
    BY <1>2 DEF Notify, Increment, NoCounterYet, Insert, WorkFails, Goto
  <1>3. QED
    BY <1>1, <1>2

\* The steps of a consumer that works.
LEMMA WorkStep ==
    ASSUME Copied, NEW c \in Consumers,
           Notify(c) \/ Increment(c) \/ NoCounterYet(c) \/ Insert(c) \/ WorkFails(c)
    PROVE  Copied'
  <1>1. PICK g \in Groups, t \in Tasks : g = GroupOf(c) /\ t = task[c]
    BY GroupType
    DEF Copied, TypeOK, Notify, Increment, NoCounterYet, Insert, WorkFails
  <1>2. /\ pc[c] \in {"work", "insert"}
        /\ UNCHANGED <<mark, sent, todo, task, stale, keys, orphaned, cut>>
    BY DEF Notify, Increment, NoCounterYet, Insert, WorkFails
  <1>3. \E label \in {"insert", "evict", "return"} :
            /\ label = "insert" => c \in Counters
            /\ pc' = [pc EXCEPT ![c] = label]
    BY WorkCases
  <1>4. /\ effects' \in [Groups -> [Tasks -> Nat]]
        /\ excuses' \in [Groups -> [Tasks -> Nat]]
    <2>1. /\ effects' \in {effects, Plus(effects, g, t)}
          /\ excuses' \in {excuses, Plus(excuses, g, t)}
      BY <1>1, WorkCases
    <2>2. /\ Plus(effects, g, t) \in [Groups -> [Tasks -> Nat]]
          /\ Plus(excuses, g, t) \in [Groups -> [Tasks -> Nat]]
      BY PlusType DEF Copied, TypeOK
    <2>3. QED
      BY <2>1, <2>2 DEF Copied, TypeOK
  <1>5. budget' \in [FaultKinds -> Nat]
    BY SpendType
    DEF Notify, Increment, NoCounterYet, Insert, WorkFails, Written, FaultKinds,
        Copied, TypeOK
  <1>6. taskCount' \in [Users -> Nat]
    <2>1. UserOf[t] \in Users
      BY PipelineAssumption
    <2>2. \/ taskCount' = taskCount
          \/ taskCount' = [taskCount EXCEPT ![UserOf[t]] = taskCount[UserOf[t]] + 1]
      BY <1>1 DEF Notify, Increment, NoCounterYet, Insert, WorkFails
    <2>3. QED
      BY <2>1, <2>2 DEF Copied, TypeOK
  <1>7. TypeOK'
    BY <1>1, <1>2, <1>3, <1>4, <1>5, <1>6 DEF Copied, TypeOK
  <1>8. QED
    BY <1>2, <1>7, CopiedKept

LEMMA FinishStep ==
    ASSUME Copied, NEW c \in Consumers,
           Evict(c) \/ EvictFails(c) \/ Return(c) \/ Crash(c)
    PROVE  Copied'
  <1>1. stale \ {c} \subseteq {d \in Consumers \ {c} : task[d] # NoTask}
    BY DEF Copied, TypeOK
  <1>2. CASE Evict(c)
    BY <1>1, <1>2, EndStep DEF Evict, Finish, Goto, Copied, TypeOK
  <1>3. CASE EvictFails(c)
    <2>1. budget' \in [FaultKinds -> Nat]
      BY <1>3, SpendType DEF EvictFails, FaultKinds, Copied
    <2>2. orphaned' \subseteq Groups \X Tasks
      BY <1>3 DEF EvictFails, LeaveKey, Copied, TypeOK
    <2>3. cut' \subseteq Groups \X Tasks
      BY <1>3 DEF EvictFails, Copied, TypeOK
    <2>4. QED
      BY <1>1, <1>3, <2>1, <2>2, <2>3, EndStep DEF EvictFails, Finish, Goto
  <1>4. CASE Return(c)
    <2>1. CASE c \in stale
      BY <1>1, <1>4, <2>1, EndStep DEF Return, Finish, Goto, Copied, TypeOK
    <2>2. CASE c \notin stale
      BY <1>4, <2>2, ResolveStep
    <2>3. QED
      BY <2>1, <2>2
  <1>5. CASE Crash(c)
    <2>1. budget' \in [FaultKinds -> Nat]
      BY <1>5, SpendType DEF Crash, FaultKinds, Copied
    <2>2. orphaned' \subseteq Groups \X Tasks
      BY <1>5 DEF Crash, LeaveKey, Copied, TypeOK
    <2>3. /\ stale \ {c} \subseteq stale'
          /\ stale' \subseteq {d \in Consumers \ {c} : task[d] # NoTask}
          /\ cut' \subseteq Groups \X Tasks
      <3>1. Regroup(GroupOf(c), Consumers \ {c}) /\ GroupOf(c) \in Groups
        BY <1>5, GroupType DEF Crash
      <3>2. stale \ {c} = stale \cap (Consumers \ {c})
        BY DEF Copied, TypeOK
      <3>3. QED
        BY <3>1, <3>2, RegroupType DEF Copied
    <2>4. QED
      BY <1>5, <2>1, <2>2, <2>3, EndStep DEF Crash, Goto
  <1>6. QED
    BY <1>2, <1>3, <1>4, <1>5

\* A group rebalances, by itself or because a member has come.
LEMMA RegroupStep ==
    ASSUME Copied,
           \/ \E g \in Groups : Rebalance(g)
           \/ \E c \in Consumers : Restart(c)
    PROVE  Copied'
  <1>1. \E g \in Groups : Regroup(g, Consumers)
    BY GroupType DEF Rebalance, Restart
  <1>2. stale \subseteq stale' /\ stale' \subseteq {d \in Consumers : task[d] # NoTask}
    BY <1>1, RegroupType DEF Copied, TypeOK
  <1>3. cut' \subseteq Groups \X Tasks
    BY <1>1, RegroupType DEF Copied
  <1>4. UNCHANGED <<mark, sent, todo, task, keys, taskCount, effects, excuses, orphaned>>
    BY DEF Rebalance, Restart
  <1>5. budget' \in [FaultKinds -> Nat]
    BY SpendType DEF Rebalance, Restart, FaultKinds, Copied, TypeOK
  <1>6. /\ pc' \in [Consumers -> {"idle", "work", "insert", "evict", "return", "down"}]
        /\ \A c \in Consumers : /\ pc'[c] \in {"idle", "down"} <=> pc[c] \in {"idle", "down"}
                                /\ pc'[c] = "insert" => pc[c] = "insert"
    BY DEF Rebalance, Restart, Goto, Copied, TypeOK
  <1>7. TypeOK'
    BY <1>2, <1>3, <1>4, <1>5, <1>6 DEF Copied, TypeOK
  <1>8. QED
    BY <1>2, <1>4, <1>7, CopiedKept

LEMMA ExpireStep ==
    ASSUME Copied, NEW g \in Groups, NEW t \in Tasks, Expire(g, t)
    PROVE  Copied'
  <1>1. /\ keys' \subseteq keys
        /\ excuses' = Plus(excuses, g, t)
        /\ UNCHANGED <<mark, sent, todo, pc, task, stale, taskCount, effects, orphaned,
                       cut>>
    BY DEF Expire
  <1>2. budget' \in [FaultKinds -> Nat]
    BY SpendType DEF Expire, FaultKinds, Copied
  <1>3. TypeOK'
    BY <1>1, <1>2, PlusType DEF Copied, TypeOK
  <1>4. QED
    BY <1>1, <1>3, CopiedKept

LEMMA CopiedStep == Copied /\ [Next]_vars => Copied'
  <1> SUFFICES ASSUME Copied, [Next]_vars
               PROVE  Copied'
    OBVIOUS
  <1>1. CASE UNCHANGED vars
    <2>1. TypeOK'
      BY <1>1 DEF vars, consumerVars, Copied, TypeOK
    <2>2. QED
      BY <1>1, <2>1, CopiedKept DEF vars, consumerVars
  <1>2. CASE Next
    BY <1>2, GroupType, RelayStep, SendStep, ClaimStep, SkipStep, WorkStep,
       FinishStep, RegroupStep, ExpireStep
    DEF Next, ConsumerStep, FaultStep
  <1>3. QED
    BY <1>1, <1>2

\* The variables keep their types; a group's unresolved copies are never less
\* than none, although handlers return, throw and die in any order.
THEOREM TypeCorrect == Spec => []TypeOK
  <1>1. Copied => TypeOK
    BY DEF Copied
  <1>2. QED
    BY <1>1, InitCopied, CopiedStep, PTL DEF Spec

-----------------------------------------------------------------------------
(* Keys and effects                                                        *)

LEMMA InitHold == Init => HoldInv
  BY DEF Init, NoneYet, HoldInv, KeyHeld, OneHolder, EffectsExcused, Holding

\* Nobody begins to hold a key, and no key or effect changes.
LEMMA FewerHolders ==
    ASSUME HoldInv, UNCHANGED <<keys, effects, excuses>>,
           \A d \in Consumers, g \in Groups, t \in Tasks :
               Holding(d, g, t)' => Holding(d, g, t)
    PROVE  HoldInv'
  <1>1. KeyHeld'
    BY DEF HoldInv, KeyHeld
  <1>2. OneHolder'
    BY DEF HoldInv, OneHolder
  <1>3. EffectsExcused'
    BY DEF HoldInv, EffectsExcused
  <1>4. QED
    BY <1>1, <1>2, <1>3 DEF HoldInv

\* A key is set whose handler does not know that it is its own.
LEMMA LostClaimHolds ==
    ASSUME HoldInv, NEW c \in Consumers, NEW g \in Groups, NEW t \in Tasks,
           ClaimReplyLost(c, g, t)
    PROVE  HoldInv'
  <1>1. keys \subseteq keys' /\ UNCHANGED <<pc, task, effects, excuses>>
    BY DEF ClaimReplyLost
  <1>2. \A d, h, s : Holding(d, h, s)' <=> Holding(d, h, s)
    BY <1>1 DEF Holding
  <1>3. KeyHeld' /\ OneHolder'
    BY <1>1, <1>2 DEF HoldInv, KeyHeld, OneHolder
  <1>4. EffectsExcused'
    BY <1>1, <1>2 DEF HoldInv, EffectsExcused
  <1>5. QED
    BY <1>3, <1>4 DEF HoldInv

LEMMA ClaimHolds ==
    ASSUME TypeOK, HoldInv, NEW c \in Consumers, NEW g \in Groups, NEW t \in Tasks,
           Claim(c, g, t)
    PROVE  HoldInv'
  <1>1. /\ KeyOf(g, t) \notin keys /\ keys' = keys \cup {KeyOf(g, t)}
        /\ pc' = [pc EXCEPT ![c] = "work"]
        /\ task' = [task EXCEPT ![c] = t]
        /\ GroupOf(c) = g
        /\ UNCHANGED <<effects, excuses>>
    BY DEF Claim, Delivered, Goto
  <1>2. \A d \in Consumers, h \in Groups, s \in Tasks :
            Holding(d, h, s)' => \/ Holding(d, h, s)
                                 \/ d = c /\ h = g /\ s = t
    BY <1>1 DEF Holding, TypeOK
  <1>3. \A d \in Consumers : ~Holding(d, g, t)
    BY <1>1 DEF HoldInv, KeyHeld
  <1>4. KeyHeld'
    BY <1>1, <1>2 DEF HoldInv, KeyHeld
  <1>5. OneHolder'
    BY <1>2, <1>3 DEF HoldInv, OneHolder
  <1>6. EffectsExcused'
    BY <1>1, <1>2 DEF HoldInv, EffectsExcused
  <1>7. QED
    BY <1>4, <1>5, <1>6 DEF HoldInv

\* A consumer that works holds its key, so its effect is due.
LEMMA WorkIsDue ==
    ASSUME Copied, HoldInv, NEW c \in Consumers, pc[c] \in {"work", "insert"}
    PROVE  \E g \in Groups, t \in Tasks :
               /\ g = GroupOf(c) /\ t = task[c] /\ Holding(c, g, t)
               /\ KeyOf(g, t) \in keys /\ t \in sent
               /\ effects[g][t] <= excuses[g][t]
  <1>1. PICK g \in Groups, t \in Tasks : g = GroupOf(c) /\ t = task[c]
    BY GroupType DEF Copied, TypeOK
  <1>2. Holding(c, g, t)
    BY <1>1 DEF Holding
  <1>3. t \in sent
    BY <1>1, PipelineAssumption DEF Copied, SentInv
  <1>4. QED
    BY <1>1, <1>2, <1>3 DEF HoldInv, KeyHeld, EffectsExcused

\* An effect, confirmed or in doubt.
LEMMA EffectHolds ==
    ASSUME Copied, HoldInv, NEW c \in Consumers, NEW g \in Groups, NEW t \in Tasks,
           g = GroupOf(c), t = task[c], pc[c] \in {"work", "insert"},
           effects' = Plus(effects, g, t), UNCHANGED <<keys, task>>,
           \/ excuses' = excuses /\ pc' = [pc EXCEPT ![c] = "return"]
           \/ excuses' = Plus(excuses, g, t) /\ pc' = [pc EXCEPT ![c] = "evict"]
    PROVE  HoldInv'
  <1>1. Holding(c, g, t) /\ KeyOf(g, t) \in keys /\ effects[g][t] <= excuses[g][t]
    BY WorkIsDue
  <1>2. \A d \in Consumers, h \in Groups, s \in Tasks :
            Holding(d, h, s)' => Holding(d, h, s)
    BY DEF Holding, Copied, TypeOK
  <1>3. /\ effects[g][t] \in Nat /\ excuses[g][t] \in Nat
        /\ effects'[g][t] = effects[g][t] + 1
        /\ \A h \in Groups, s \in Tasks :
               h # g \/ s # t => effects'[h][s] = effects[h][s]
    <2>1. /\ effects \in [Groups -> [Tasks -> Nat]]
          /\ excuses \in [Groups -> [Tasks -> Nat]]
      BY DEF Copied, TypeOK
    <2>2. effects[g][t] \in Nat /\ excuses[g][t] \in Nat
      BY <2>1
    <2>3. effects'[g][t] = effects[g][t] + 1
      BY <2>1 DEF Plus
    <2>4. ASSUME NEW h \in Groups, NEW s \in Tasks, h # g \/ s # t
          PROVE  effects'[h][s] = effects[h][s]
      BY <2>1, <2>4 DEF Plus
    <2>5. QED
      BY <2>2, <2>3, <2>4
  <1>4. KeyHeld'
    BY <1>2 DEF HoldInv, KeyHeld
  <1>5. OneHolder'
    BY <1>2 DEF HoldInv, OneHolder
  <1>6. EffectsExcused'
    <2>1. CASE excuses' = excuses /\ pc' = [pc EXCEPT ![c] = "return"]
      <3>1. \A d \in Consumers : ~Holding(d, g, t)'
        <4>1. ~Holding(c, g, t)'
          BY <2>1 DEF Holding, Copied, TypeOK
        <4>2. QED
          BY <1>1, <1>2, <4>1 DEF HoldInv, OneHolder
      <3>2. QED
        BY <1>1, <1>2, <1>3, <2>1, <3>1 DEF HoldInv, EffectsExcused
    <2>2. CASE excuses' = Plus(excuses, g, t)
      <3>1. /\ excuses'[g][t] = excuses[g][t] + 1
            /\ \A h \in Groups, s \in Tasks :
                   h # g \/ s # t => excuses'[h][s] = excuses[h][s]
        <4>1. excuses \in [Groups -> [Tasks -> Nat]]
          BY DEF Copied, TypeOK
        <4>2. QED
          BY <2>2, <4>1, PlusType
      <3>2. QED
        BY <1>1, <1>2, <1>3, <3>1 DEF HoldInv, EffectsExcused
    <2>3. QED
      BY <2>1, <2>2
  <1>7. QED
    BY <1>4, <1>5, <1>6 DEF HoldInv

LEMMA WorkHolds ==
    ASSUME Copied, HoldInv, NEW c \in Consumers,
           Notify(c) \/ Increment(c) \/ NoCounterYet(c) \/ Insert(c) \/ WorkFails(c)
    PROVE  HoldInv'
  <1>1. /\ pc[c] \in {"work", "insert"}
        /\ UNCHANGED <<task, keys>>
    BY DEF Notify, Increment, NoCounterYet, Insert, WorkFails
  <1>2. PICK g \in Groups, t \in Tasks : g = GroupOf(c) /\ t = task[c]
    BY <1>1, WorkIsDue
  <1>3. CASE effects' = Plus(effects, g, t)
             /\ \/ excuses' = excuses /\ pc' = [pc EXCEPT ![c] = "return"]
                \/ excuses' = Plus(excuses, g, t) /\ pc' = [pc EXCEPT ![c] = "evict"]
    BY <1>1, <1>2, <1>3, EffectHolds
  <1>4. CASE /\ UNCHANGED <<effects, excuses>>
             /\ \E label \in {"insert", "evict"} : pc' = [pc EXCEPT ![c] = label]
    <2>1. \A d \in Consumers, h \in Groups, s \in Tasks :
              Holding(d, h, s)' => Holding(d, h, s)
      BY <1>1, <1>4 DEF Holding, Copied, TypeOK
    <2>2. QED
      BY <1>1, <1>4, <2>1, FewerHolders
  <1>5. QED
    BY <1>2, <1>3, <1>4, WorkCases

LEMMA EvictHolds ==
    ASSUME Copied, HoldInv, NEW c \in Consumers, Evict(c)
    PROVE  HoldInv'
  <1>1. PICK g \in Groups, t \in Tasks : g = GroupOf(c) /\ t = task[c]
    BY GroupType DEF Evict, Copied, TypeOK
  <1>2. /\ pc[c] = "evict" /\ pc' = [pc EXCEPT ![c] = "idle"]
        /\ task' = [task EXCEPT ![c] = NoTask]
        /\ keys' = keys \ {KeyOf(g, t)}
        /\ UNCHANGED <<effects, excuses>>
    BY <1>1 DEF Evict, Key, Finish, Goto
  <1>3. Holding(c, g, t)
    BY <1>1, <1>2 DEF Holding
  <1>4. \A d \in Consumers, h \in Groups, s \in Tasks :
            Holding(d, h, s)' => Holding(d, h, s) /\ d # c
    BY <1>2 DEF Holding, Copied, TypeOK
  <1>5. KeyHeld'
    <2> SUFFICES ASSUME NEW d \in Consumers, NEW h \in Groups, NEW s \in Tasks,
                        Holding(d, h, s)'
                 PROVE  KeyOf(h, s) \in keys'
      BY DEF KeyHeld
    <2>1. Holding(d, h, s) /\ d # c
      BY <1>4
    <2>2. KeyOf(h, s) \in keys
      BY <2>1 DEF HoldInv, KeyHeld
    <2>3. h # g \/ s # t
      BY <1>3, <2>1 DEF HoldInv, OneHolder
    <2>4. KeyOf(h, s) # KeyOf(g, t)
      BY <2>3, KeyInjective
    <2>5. QED
      BY <1>2, <2>2, <2>4
  <1>6. OneHolder'
    BY <1>4 DEF HoldInv, OneHolder
  <1>7. EffectsExcused'
    <2> SUFFICES ASSUME NEW h \in Groups, NEW s \in Tasks
                 PROVE  /\ effects[h][s] <= 1 + excuses[h][s]
                        /\ KeyOf(h, s) \notin keys' => effects[h][s] <= excuses[h][s]
                        /\ \A d \in Consumers :
                               Holding(d, h, s)' => effects[h][s] <= excuses[h][s]
      BY <1>2 DEF EffectsExcused
    <2>1. CASE h = g /\ s = t
      BY <1>3, <2>1 DEF HoldInv, EffectsExcused
    <2>2. CASE ~(h = g /\ s = t)
      <3>1. KeyOf(h, s) # KeyOf(g, t)
        BY <2>2, KeyInjective
      <3>2. QED
        BY <1>2, <1>4, <3>1 DEF HoldInv, EffectsExcused
    <2>3. QED
      BY <2>1, <2>2
  <1>8. QED
    BY <1>5, <1>6, <1>7 DEF HoldInv

LEMMA ExpireHolds ==
    ASSUME Copied, HoldInv, NEW g \in Groups, NEW t \in Tasks, Expire(g, t)
    PROVE  HoldInv'
  <1>1. /\ keys' = keys \ {KeyOf(g, t)}
        /\ \A c \in Consumers : ~Holding(c, g, t)
        /\ excuses' = Plus(excuses, g, t)
        /\ UNCHANGED <<pc, task, effects>>
    BY DEF Expire
  <1>2. /\ effects[g][t] \in Nat /\ excuses[g][t] \in Nat
        /\ excuses'[g][t] = excuses[g][t] + 1
        /\ \A h \in Groups, s \in Tasks :
               h # g \/ s # t => excuses'[h][s] = excuses[h][s]
    <2>1. /\ effects \in [Groups -> [Tasks -> Nat]]
          /\ excuses \in [Groups -> [Tasks -> Nat]]
      BY DEF Copied, TypeOK
    <2>2. QED
      BY <1>1, <2>1, PlusType
  <1>3. \A d \in Consumers, h \in Groups, s \in Tasks :
            Holding(d, h, s)' <=> Holding(d, h, s)
    BY <1>1 DEF Holding
  <1>4. KeyHeld'
    <2> SUFFICES ASSUME NEW d \in Consumers, NEW h \in Groups, NEW s \in Tasks,
                        Holding(d, h, s)
                 PROVE  KeyOf(h, s) \in keys'
      BY <1>3 DEF KeyHeld
    <2>1. KeyOf(h, s) \in keys
      BY DEF HoldInv, KeyHeld
    <2>2. KeyOf(h, s) # KeyOf(g, t)
      BY <1>1, KeyInjective
    <2>3. QED
      BY <1>1, <2>1, <2>2
  <1>5. OneHolder'
    BY <1>3 DEF HoldInv, OneHolder
  <1>6. EffectsExcused'
    <2> SUFFICES ASSUME NEW h \in Groups, NEW s \in Tasks
                 PROVE  /\ effects[h][s] <= 1 + excuses'[h][s]
                        /\ KeyOf(h, s) \notin keys' => effects[h][s] <= excuses'[h][s]
                        /\ \A d \in Consumers :
                               Holding(d, h, s) => effects[h][s] <= excuses'[h][s]
      BY <1>1, <1>3 DEF EffectsExcused
    <2>1. CASE h = g /\ s = t
      BY <1>1, <1>2, <2>1 DEF HoldInv, EffectsExcused
    <2>2. CASE ~(h = g /\ s = t)
      <3>1. KeyOf(h, s) # KeyOf(g, t)
        BY <2>2, KeyInjective
      <3>2. excuses'[h][s] = excuses[h][s]
        BY <1>2, <2>2
      <3>3. QED
        BY <1>1, <3>1, <3>2 DEF HoldInv, EffectsExcused
    <2>3. QED
      BY <2>1, <2>2
  <1>7. QED
    BY <1>4, <1>5, <1>6 DEF HoldInv

LEMMA HoldStep == Copied /\ HoldInv /\ [Next]_vars => HoldInv'
  <1> SUFFICES ASSUME Copied, HoldInv, [Next]_vars
               PROVE  HoldInv'
    OBVIOUS
  <1>1. CASE UNCHANGED <<pc, task, keys, effects, excuses>>
    BY <1>1, FewerHolders DEF Holding
  <1>2. ASSUME NEW t \in Tasks, Create(t) \/ SettleOrRemark(t)
        PROVE  HoldInv'
    BY <1>1, <1>2, RelayStep DEF consumerVars
  <1>3. ASSUME NEW c \in Consumers,
               Return(c) \/ EvictFails(c) \/ Crash(c) \/ Restart(c)
        PROVE  HoldInv'
    <2>1. /\ pc'[c] \in {"idle", "down"}
          /\ \A d \in Consumers \ {c} : pc'[d] = pc[d] /\ task'[d] = task[d]
          /\ UNCHANGED <<keys, effects, excuses>>
      BY <1>3 DEF Return, EvictFails, Crash, Restart, Finish, Goto, Copied, TypeOK
    <2>2. \A d \in Consumers, h \in Groups, s \in Tasks :
              Holding(d, h, s)' => Holding(d, h, s)
      BY <2>1 DEF Holding, GroupOf
    <2>3. QED
      BY <2>1, <2>2, FewerHolders
  <1>4. ASSUME NEW c \in Consumers, NEW t \in Tasks,
               Claim(c, GroupOf(c), t) \/ ClaimReplyLost(c, GroupOf(c), t)
        PROVE  HoldInv'
    BY <1>4, GroupType, ClaimHolds, LostClaimHolds DEF Copied
  <1>5. QED
    BY <1>1, <1>2, <1>3, <1>4, WorkHolds, EvictHolds, ExpireHolds
    DEF Next, ConsumerStep, FaultStep, vars, consumerVars, Send, Skip, Rebalance

LEMMA Invariance == Spec => [](Copied /\ HoldInv)
  BY InitCopied, CopiedStep, InitHold, HoldStep, PTL DEF Spec

-----------------------------------------------------------------------------
(* The counters                                                            *)

\* Increments(u) as a function of the effects of analytics-service.
Pairs(f, u) == UNION {{t} \X (1 .. f[t]) : t \in TasksOf(u)}

\* The counter of a user counts its increments, which are finitely many.
CountInv ==
    \A u \in Users :
        IsFiniteSet(Increments(u)) /\ taskCount[u] = Cardinality(Increments(u))

LEMMA PairsElement ==
    ASSUME NEW f, NEW u, NEW p
    PROVE  p \in Pairs(f, u) <=>
               \E t \in TasksOf(u) : \E k \in 1 .. f[t] : p = <<t, k>>
  <1>1. p \in Pairs(f, u) <=> \E t \in TasksOf(u) : p \in {t} \X (1 .. f[t])
    BY Zenon DEF Pairs
  <1>2. \A t : p \in {t} \X (1 .. f[t]) <=> \E k \in 1 .. f[t] : p = <<t, k>>
    OBVIOUS
  <1>3. QED
    BY <1>1, <1>2, Zenon

\* One more effect of t is one more increment for its user.
LEMMA PairsGrow ==
    ASSUME NEW f, NEW g, NEW t \in Tasks, NEW u \in Users, f[t] \in Nat,
           g[t] = f[t] + 1, \A s \in Tasks \ {t} : g[s] = f[s],
           u = UserOf[t]
    PROVE  /\ Pairs(g, u) = Pairs(f, u) \cup {<<t, f[t] + 1>>}
           /\ <<t, f[t] + 1>> \notin Pairs(f, u)
  <1> DEFINE new == <<t, f[t] + 1>>
  <1>1. /\ g[t] = f[t] + 1 /\ f[t] \in Nat
        /\ \A s \in Tasks \ {t} : g[s] = f[s]
        /\ \A s : s \in TasksOf(u) <=> s \in Tasks /\ UserOf[s] = u
    BY DEF TasksOf
  <1>2. Pairs(g, u) = Pairs(f, u) \cup {new}
    <2>1. ASSUME NEW p, p \in Pairs(g, u)
          PROVE  p \in Pairs(f, u) \cup {new}
      <3>1. PICK s \in TasksOf(u) : \E k \in 1 .. g[s] : p = <<s, k>>
        <4>1. p \in Pairs(g, u) <=>
                  \E s \in TasksOf(u) : \E k \in 1 .. g[s] : p = <<s, k>>
          BY PairsElement
        <4>2. QED
          BY <2>1, <4>1
      <3>2. PICK k \in 1 .. g[s] : p = <<s, k>>
        BY <3>1
      <3>3. CASE s = t /\ k = f[t] + 1
        BY <3>2, <3>3
      <3>4. CASE ~(s = t /\ k = f[t] + 1)
        <4>1. k \in 1 .. f[s]
          <5>1. CASE s = t
            BY <1>1, <3>4, <5>1
          <5>2. CASE s # t
            BY <1>1, <5>2
          <5>3. QED
            BY <5>1, <5>2
        <4>2. p \in Pairs(f, u)
          BY <3>2, <4>1, PairsElement
        <4>3. QED
          BY <4>2
      <3>5. QED
        BY <3>3, <3>4
    <2>2. ASSUME NEW p, p \in Pairs(f, u)
          PROVE  p \in Pairs(g, u)
      <3>1. PICK s \in TasksOf(u) : \E k \in 1 .. f[s] : p = <<s, k>>
        BY <2>2, PairsElement
      <3>2. PICK k \in 1 .. f[s] : p = <<s, k>>
        BY <3>1
      <3>3. k \in 1 .. g[s]
        BY <1>1
      <3>4. QED
        BY <3>2, <3>3, PairsElement
    <2>3. new \in Pairs(g, u)
      <3>1. t \in TasksOf(u) /\ f[t] + 1 \in 1 .. g[t]
        BY <1>1
      <3>2. QED
        BY <3>1, PairsElement
    <2>4. QED
      BY <2>1, <2>2, <2>3
  <1>3. new \notin Pairs(f, u)
    <2>1. ~ \E s \in TasksOf(u) : \E k \in 1 .. f[s] : new = <<s, k>>
      BY <1>1
    <2>2. QED
      BY <2>1, PairsElement
  <1>4. QED
    BY <1>2, <1>3

LEMMA InitCount == Init => CountInv
  <1> SUFFICES ASSUME Init, NEW u \in Users
               PROVE  IsFiniteSet(Increments(u)) /\ taskCount[u] = Cardinality(Increments(u))
    BY DEF CountInv
  <1>1. \A t \in TasksOf(u) : effects["analytics-group"][t] = 0
    BY DEF Init, NoneYet, Groups, TasksOf
  <1>2. ASSUME NEW p PROVE p \notin Increments(u)
    BY <1>1, PairsElement DEF Increments, Pairs
  <1>3. Increments(u) = {}
    BY <1>2
  <1>4. QED
    BY <1>3, FS_EmptySet DEF Init

\* A write of a counter, confirmed or not, counts the task of its handler.
LEMMA CountedOnce ==
    ASSUME Copied, CountInv, NEW t \in Tasks,
           effects' = Plus(effects, "analytics-group", t),
           taskCount' = [taskCount EXCEPT ![UserOf[t]] = @ + 1]
    PROVE  CountInv'
  <1> PICK f : f = effects["analytics-group"]
    OBVIOUS
  <1> PICK g : g = effects'["analytics-group"]
    OBVIOUS
  <1>1. f[t] \in Nat /\ g[t] = f[t] + 1 /\ \A s \in Tasks \ {t} : g[s] = f[s]
    <2>1. effects \in [Groups -> [Tasks -> Nat]] /\ "analytics-group" \in Groups
      BY DEF Copied, TypeOK, Groups
    <2>2. QED
      BY <2>1 DEF Plus
  <1> SUFFICES ASSUME NEW u \in Users
               PROVE  IsFiniteSet(Increments(u))' /\ (taskCount[u] = Cardinality(Increments(u)))'
    BY DEF CountInv
  <1>2. Increments(u) = Pairs(f, u) /\ Increments(u)' = Pairs(g, u)
    BY DEF Increments, Pairs
  <1>3. IsFiniteSet(Pairs(f, u)) /\ taskCount[u] = Cardinality(Pairs(f, u))
    BY <1>2 DEF CountInv
  <1>4. /\ UserOf[t] \in Users
        /\ taskCount'[u] = IF u = UserOf[t] THEN taskCount[u] + 1 ELSE taskCount[u]
    BY PipelineAssumption DEF Copied, TypeOK
  <1>5. CASE u = UserOf[t]
    <2>1. /\ Increments(u)' = Pairs(f, u) \cup {<<t, f[t] + 1>>}
          /\ <<t, f[t] + 1>> \notin Pairs(f, u)
      BY <1>1, <1>2, <1>5, PairsGrow
    <2>2. /\ IsFiniteSet(Pairs(f, u) \cup {<<t, f[t] + 1>>})
          /\ Cardinality(Pairs(f, u) \cup {<<t, f[t] + 1>>}) = Cardinality(Pairs(f, u)) + 1
      BY <1>3, <2>1, FS_AddElement
    <2>3. QED
      BY <1>3, <1>4, <1>5, <2>1, <2>2
  <1>6. CASE u # UserOf[t]
    <2>1. Pairs(g, u) = Pairs(f, u)
      <3>1. \A s \in TasksOf(u) : g[s] = f[s]
        BY <1>1, <1>6 DEF TasksOf
      <3>2. QED
        BY <3>1 DEF Pairs
    <2>2. QED
      BY <1>2, <1>3, <1>4, <1>6, <2>1
  <1>7. QED
    BY <1>5, <1>6

\* A write of the other service counts nothing.
LEMMA CountedElsewhere ==
    ASSUME Copied, CountInv, UNCHANGED <<effects, taskCount>>
    PROVE  CountInv'
  BY DEF CountInv, Increments

LEMMA NotifyCount ==
    ASSUME Copied, CountInv, NEW c \in Consumers, Notify(c)
    PROVE  CountInv'
  <1>1. /\ effects' = Plus(effects, "notification-group", task[c])
        /\ UNCHANGED taskCount
    BY DEF Notify, Written, Applied, AppliedInDoubt, GroupOf
  <1>2. effects'["analytics-group"] = effects["analytics-group"]
    <2>1. effects \in [Groups -> [Tasks -> Nat]] /\ "analytics-group" \in Groups
      BY DEF Copied, TypeOK, Groups
    <2>2. QED
      BY <1>1, <2>1 DEF Plus
  <1>3. QED
    BY <1>1, <1>2 DEF CountInv, Increments

LEMMA CountStep == Copied /\ CountInv /\ [Next]_vars => CountInv'
  <1> SUFFICES ASSUME Copied, CountInv, [Next]_vars
               PROVE  CountInv'
    OBVIOUS
  <1>1. CASE UNCHANGED <<effects, taskCount>>
    BY <1>1, CountedElsewhere
  <1>2. ASSUME NEW c \in Consumers, Increment(c) \/ Insert(c)
        PROVE  CountInv'
    <2>1. c \in Counters /\ task[c] \in Tasks
      BY <1>2 DEF Increment, Insert, Copied, TypeOK
    <2>2. GroupOf(c) = "analytics-group"
      BY <2>1, PipelineAssumption DEF GroupOf
    <2>3. \/ UNCHANGED <<effects, taskCount>>
          \/ /\ effects' = Plus(effects, "analytics-group", task[c])
             /\ taskCount' = [taskCount EXCEPT ![UserOf[task[c]]] = taskCount[UserOf[task[c]]] + 1]
      BY <1>2, <2>2 DEF Increment, Insert, Written, Applied, AppliedInDoubt
    <2>4. QED
      BY <1>1, <2>1, <2>3, CountedOnce
  <1>3. ASSUME NEW t \in Tasks, Create(t) \/ SettleOrRemark(t)
        PROVE  CountInv'
    BY <1>1, <1>3, RelayStep DEF consumerVars
  <1>4. QED
    BY <1>1, <1>2, <1>3, NotifyCount
    DEF Next, ConsumerStep, FaultStep, vars, consumerVars, Send, Claim, Skip,
        ClaimReplyLost, NoCounterYet, WorkFails, Evict, EvictFails, Return,
        Rebalance, Crash, Restart, Expire

LEMMA CountInvariance == Spec => [](Copied /\ HoldInv /\ CountInv)
  BY InitCount, CountStep, Invariance, PTL DEF Spec

\* incrementUserCounter: whatever upserts of one user meet, each increment that
\* was applied is in the counter that getUserCounter reads.
THEOREM CountersAreExact == Spec => []NoIncrementLost
  <1>1. CountInv => NoIncrementLost
    BY DEF CountInv, NoIncrementLost, UserCounter
  <1>2. QED
    BY <1>1, CountInvariance, PTL

-----------------------------------------------------------------------------
(* What failures cost                                                      *)

Settled(g, t) == effects[g][t] > 0 \/ Spoilt(g, t)

\* A failure may have left the effects of g on t wrong.
Damaged(g, t) == excuses[g][t] > 0 \/ <<g, t>> \in orphaned

Damage == {p \in Groups \X Tasks : Damaged(p[1], p[2])}

DamageInv ==
    /\ IsFiniteSet(Damage)
    /\ Cardinality(Damage) + budget["failure"] <= Budget["failure"]

\* A handler whose copy is delivered again has been marked.
StaleInv ==
    \A c \in Consumers, g \in Groups, t \in Tasks :
        c \in stale /\ Holding(c, g, t) => <<g, t>> \in cut

\* A copy of a task is resolved only when its effect is there; a key means that
\* it is, or that somebody works on it.
ServedInv ==
    /\ \A g \in Groups, t \in Tasks : t \in sent => todo[g][t] > 0 \/ Settled(g, t)
    /\ \A g \in Groups, t \in Tasks : effects[g][t] > 0 => t \in sent
    /\ \A g \in Groups, t \in Tasks : KeyOf(g, t) \in keys =>
           Settled(g, t) \/ \E c \in Consumers : Holding(c, g, t)
    /\ \A c \in Consumers, g \in Groups, t \in Tasks :
           pc[c] = "return" /\ GroupOf(c) = g /\ task[c] = t => Settled(g, t)

\* No pair is taken back from the records of what went wrong.
LEMMA RecordsGrow ==
    ASSUME Copied, [Next]_vars
    PROVE  orphaned \subseteq orphaned' /\ cut \subseteq cut'
  <1>1. ASSUME NEW c \in Consumers,
               Notify(c) \/ Increment(c) \/ NoCounterYet(c) \/ Insert(c) \/ WorkFails(c)
        PROVE  UNCHANGED <<orphaned, cut>>
    BY <1>1 DEF Notify, Increment, NoCounterYet, Insert, WorkFails
  <1>2. ASSUME NEW t \in Tasks, Create(t) \/ SettleOrRemark(t)
        PROVE  UNCHANGED <<orphaned, cut>>
    BY <1>2, RelayStep DEF consumerVars
  <1>3. QED
    BY <1>1, <1>2
    DEF Next, ConsumerStep, FaultStep, vars, consumerVars, Send, Claim, Skip,
        ClaimReplyLost, Evict, EvictFails, Return, Rebalance, Crash, Restart, Expire,
        LeaveKey, Regroup

\* Effects and excuses are never taken back.
LEMMA SettledStays ==
    ASSUME Copied, [Next]_vars, NEW g \in Groups, NEW t \in Tasks, Settled(g, t)
    PROVE  Settled(g, t)'
  <1>0. orphaned \subseteq orphaned' /\ cut \subseteq cut'
    BY RecordsGrow
  <1>1. CASE UNCHANGED <<effects, excuses>>
    BY <1>0, <1>1 DEF Settled, Spoilt
  <1>2. ASSUME NEW h \in Groups, NEW s \in Tasks,
               /\ effects' \in {effects, Plus(effects, h, s)}
               /\ excuses' \in {excuses, Plus(excuses, h, s)}
        PROVE  Settled(g, t)'
    <2>1. /\ effects[g][t] \in Nat /\ excuses[g][t] \in Nat
          /\ Plus(effects, h, s)[g][t] \in {effects[g][t], effects[g][t] + 1}
          /\ Plus(excuses, h, s)[g][t] \in {excuses[g][t], excuses[g][t] + 1}
      <3>1. /\ effects \in [Groups -> [Tasks -> Nat]]
            /\ excuses \in [Groups -> [Tasks -> Nat]]
        BY DEF Copied, TypeOK
      <3>2. \A f \in [Groups -> [Tasks -> Nat]] :
                /\ f[g][t] \in Nat
                /\ Plus(f, h, s)[g][t] \in {f[g][t], f[g][t] + 1}
        BY DEF Plus
      <3>3. QED
        BY <3>1, <3>2
    <2>2. effects'[g][t] >= effects[g][t] /\ excuses'[g][t] >= excuses[g][t]
          /\ effects'[g][t] \in Nat /\ excuses'[g][t] \in Nat
      BY <1>2, <2>1
    <2>3. QED
      BY <1>0, <2>1, <2>2 DEF Settled, Spoilt
  <1>3. ASSUME NEW c \in Consumers,
               Notify(c) \/ Increment(c) \/ NoCounterYet(c) \/ Insert(c) \/ WorkFails(c)
        PROVE  Settled(g, t)'
    <2>1. /\ GroupOf(c) \in Groups /\ task[c] \in Tasks
      BY <1>3, GroupType DEF Notify, Increment, NoCounterYet, Insert, WorkFails,
                             Copied, TypeOK
    <2>2. /\ effects' \in {effects, Plus(effects, GroupOf(c), task[c])}
          /\ excuses' \in {excuses, Plus(excuses, GroupOf(c), task[c])}
      BY <1>3, WorkCases
    <2>3. QED
      BY <1>2, <2>1, <2>2
  <1>4. ASSUME NEW h \in Groups, NEW s \in Tasks, Expire(h, s)
        PROVE  Settled(g, t)'
    BY <1>2, <1>4 DEF Expire
  <1>5. ASSUME NEW s \in Tasks, Create(s) \/ SettleOrRemark(s)
        PROVE  Settled(g, t)'
    BY <1>1, <1>5, RelayStep DEF consumerVars
  <1>6. QED
    BY <1>1, <1>3, <1>4, <1>5
    DEF Next, ConsumerStep, FaultStep, vars, consumerVars, Send, Claim, Skip,
        ClaimReplyLost, Evict, EvictFails, Return, Rebalance, Crash, Restart

LEMMA InitStale == Init => StaleInv
  BY DEF Init, StaleInv

\* Nobody that is stale begins to work, and nobody that works becomes stale.
LEMMA StaleKept ==
    ASSUME Copied, StaleInv, [Next]_vars,
           \A c \in Consumers, g \in Groups, t \in Tasks :
               c \in stale' /\ Holding(c, g, t)' => c \in stale /\ Holding(c, g, t)
    PROVE  StaleInv'
  BY RecordsGrow DEF StaleInv

LEMMA RegroupStale ==
    ASSUME Copied, StaleInv, [Next]_vars, NEW h \in Groups,
           NEW members \in SUBSET Consumers, Regroup(h, members),
           \A c \in members : task'[c] = task[c] /\ (pc'[c] = pc[c] \/ pc'[c] = "idle")
    PROVE  StaleInv'
  <1> SUFFICES ASSUME NEW c \in Consumers, NEW g \in Groups, NEW t \in Tasks,
                      c \in stale', Holding(c, g, t)'
               PROVE  <<g, t>> \in cut'
    BY DEF StaleInv
  <1>1. c \in members
    BY DEF Regroup
  <1>2. Holding(c, g, t)
    BY <1>1 DEF Holding, GroupOf
  <1>3. CASE c \in stale
    BY <1>2, <1>3, RecordsGrow DEF StaleInv
  <1>4. CASE c \notin stale
    <2>1. GroupOf(c) = h /\ g = h
      BY <1>2, <1>4 DEF Regroup, Holding
    <2>2. <<g, t>> \in {p \in {h} \X Tasks : \E d \in members : Holding(d, h, p[2])}
      BY <1>1, <1>2, <2>1
    <2>3. QED
      BY <2>2 DEF Regroup
  <1>5. QED
    BY <1>3, <1>4

LEMMA StaleStep == Copied /\ StaleInv /\ [Next]_vars => StaleInv'
  <1> SUFFICES ASSUME Copied, StaleInv, [Next]_vars
               PROVE  StaleInv'
    OBVIOUS
  <1>1. CASE UNCHANGED <<pc, task, stale>>
    BY <1>1, StaleKept DEF Holding
  <1>2. ASSUME NEW t \in Tasks, Create(t) \/ SettleOrRemark(t)
        PROVE  StaleInv'
    BY <1>1, <1>2, RelayStep DEF consumerVars
  <1>3. ASSUME NEW c \in Consumers, NEW g \in Groups, NEW t \in Tasks, Claim(c, g, t)
        PROVE  StaleInv'
    <2>1. /\ task[c] = NoTask /\ stale' = stale /\ c \notin stale
          /\ \A d \in Consumers \ {c} : pc'[d] = pc[d] /\ task'[d] = task[d]
      BY <1>3 DEF Claim, Delivered, Goto, Copied, TypeOK
    <2>2. QED
      BY <2>1, StaleKept DEF Holding, GroupOf
  <1>4. ASSUME NEW c \in Consumers,
               Notify(c) \/ Increment(c) \/ NoCounterYet(c) \/ Insert(c) \/ WorkFails(c)
        PROVE  StaleInv'
    <2>1. pc[c] \in {"work", "insert"} /\ UNCHANGED <<task, stale>>
      BY <1>4 DEF Notify, Increment, NoCounterYet, Insert, WorkFails
    <2>2. \A d \in Consumers \ {c} : pc'[d] = pc[d]
      BY <1>4, WorkCases DEF Copied, TypeOK
    <2>3. QED
      BY <2>1, <2>2, StaleKept DEF Holding, GroupOf
  <1>5. ASSUME NEW c \in Consumers, Evict(c) \/ EvictFails(c) \/ Return(c)
        PROVE  StaleInv'
    <2>1. /\ stale' = stale \ {c}
          /\ \A d \in Consumers \ {c} : pc'[d] = pc[d] /\ task'[d] = task[d]
      BY <1>5 DEF Evict, EvictFails, Return, Finish, Goto, Copied, TypeOK
    <2>2. QED
      BY <2>1, StaleKept DEF Holding, GroupOf
  <1>6. ASSUME NEW g \in Groups, Rebalance(g)
        PROVE  StaleInv'
    BY <1>6, RegroupStale DEF Rebalance
  <1>7. ASSUME NEW c \in Consumers, Crash(c)
        PROVE  StaleInv'
    <2>1. \A d \in Consumers \ {c} : task'[d] = task[d] /\ pc'[d] = pc[d]
      BY <1>7 DEF Crash, Goto, Copied, TypeOK
    <2>2. Regroup(GroupOf(c), Consumers \ {c}) /\ GroupOf(c) \in Groups
      BY <1>7, GroupType DEF Crash
    <2>3. QED
      BY <2>1, <2>2, RegroupStale
  <1>8. ASSUME NEW c \in Consumers, Restart(c)
        PROVE  StaleInv'
    <2>1. \A d \in Consumers : task'[d] = task[d] /\ (pc'[d] = pc[d] \/ pc'[d] = "idle")
      BY <1>8 DEF Restart, Goto, Copied, TypeOK
    <2>2. Regroup(GroupOf(c), Consumers) /\ GroupOf(c) \in Groups
      BY <1>8, GroupType DEF Restart
    <2>3. QED
      BY <2>1, <2>2, RegroupStale
  <1>9. QED
    BY <1>1, <1>2, <1>3, <1>4, <1>5, <1>6, <1>7, <1>8, GroupType
    DEF Next, ConsumerStep, FaultStep, vars, consumerVars, Send, Skip,
        ClaimReplyLost, Expire

\* What the copies, the keys and the handlers of a step must keep to.
LEMMA ServedKept ==
    ASSUME Copied, ServedInv, [Next]_vars,
           \A g \in Groups, t \in Tasks :
               t \in sent' => todo'[g][t] > 0 \/ Settled(g, t) \/ Settled(g, t)',
           \A g \in Groups, t \in Tasks : effects'[g][t] > 0 => t \in sent',
           \A g \in Groups, t \in Tasks : KeyOf(g, t) \in keys' =>
               \/ KeyOf(g, t) \in keys \/ Settled(g, t)'
               \/ \E c \in Consumers : Holding(c, g, t)',
           \A c \in Consumers, g \in Groups, t \in Tasks :
               Holding(c, g, t) /\ KeyOf(g, t) \in keys' =>
                   Holding(c, g, t)' \/ Settled(g, t)',
           \A c \in Consumers, g \in Groups, t \in Tasks :
               pc'[c] = "return" /\ GroupOf(c) = g /\ task'[c] = t =>
                   Settled(g, t)' \/ (pc[c] = "return" /\ task[c] = t)
    PROVE  ServedInv'
  <1>1. \A g \in Groups, t \in Tasks : Settled(g, t) => Settled(g, t)'
    BY SettledStays
  <1>2. \A g \in Groups, t \in Tasks : t \in sent' => todo'[g][t] > 0 \/ Settled(g, t)'
    BY <1>1
  <1>3. \A g \in Groups, t \in Tasks : KeyOf(g, t) \in keys' =>
            Settled(g, t)' \/ \E c \in Consumers : Holding(c, g, t)'
    BY <1>1 DEF ServedInv
  <1>4. \A c \in Consumers, g \in Groups, t \in Tasks :
            pc'[c] = "return" /\ GroupOf(c) = g /\ task'[c] = t => Settled(g, t)'
    BY <1>1 DEF ServedInv
  <1>5. QED
    BY <1>2, <1>3, <1>4 DEF ServedInv, GroupOf, KeyOf

LEMMA InitServed == Init => ServedInv
  BY DEF Init, Relay!Init, NoneYet, ServedInv, Settled, Spoilt

LEMMA SendServed ==
    ASSUME Copied, ServedInv, [Next]_vars, NEW s \in Tasks, Send(s)
    PROVE  ServedInv'
  <1>1. /\ sent' = sent \cup {s}
        /\ todo' = [g \in Groups |-> [todo[g] EXCEPT ![s] = todo[g][s] + 1]]
        /\ UNCHANGED <<pc, task, keys, effects, excuses, orphaned, cut>>
    BY DEF Send, Relay!Send
  <1>2. \A g \in Groups, t \in Tasks :
            IF t = s THEN todo'[g][t] > 0 ELSE todo'[g][t] = todo[g][t]
    <2>1. todo \in [Groups -> [Tasks -> Nat]]
      BY DEF Copied, TypeOK
    <2>2. \A g \in Groups, t \in Tasks :
              todo'[g][t] = todo[g][t] + (IF t = s THEN 1 ELSE 0)
      BY <1>1, <2>1
    <2>3. QED
      BY <2>1, <2>2
  <1>3. \A g \in Groups, t \in Tasks : t \in sent' => todo'[g][t] > 0 \/ Settled(g, t)
    BY <1>1, <1>2 DEF ServedInv
  <1>4. \A g \in Groups, t \in Tasks : effects'[g][t] > 0 => t \in sent'
    BY <1>1 DEF ServedInv
  <1>5. \A c, g, t : Holding(c, g, t)' <=> Holding(c, g, t)
    BY <1>1 DEF Holding
  <1>6. QED
    BY <1>1, <1>3, <1>4, <1>5, ServedKept

LEMMA ClaimServed ==
    ASSUME Copied, ServedInv, [Next]_vars,
           NEW c \in Consumers, NEW h \in Groups, NEW s \in Tasks, Claim(c, h, s)
    PROVE  ServedInv'
  <1>1. /\ pc[c] = "idle" /\ GroupOf(c) = h
        /\ keys' = keys \cup {KeyOf(h, s)}
        /\ pc' = [pc EXCEPT ![c] = "work"]
        /\ task' = [task EXCEPT ![c] = s]
        /\ UNCHANGED <<sent, todo, effects>>
    BY DEF Claim, Delivered, Goto
  <1>2. pc'[c] = "work" /\ task'[c] = s
    BY <1>1 DEF Copied, TypeOK
  <1>3. \A d \in Consumers \ {c} : pc'[d] = pc[d] /\ task'[d] = task[d]
    BY <1>1 DEF Copied, TypeOK
  <1>4. Holding(c, h, s)'
    BY <1>1, <1>2 DEF Holding, GroupOf
  <1>5. \A g \in Groups, t \in Tasks : KeyOf(g, t) \in keys' =>
            KeyOf(g, t) \in keys \/ \E d \in Consumers : Holding(d, g, t)'
    BY <1>1, <1>4, KeyInjective
  <1>6. \A d \in Consumers, g \in Groups, t \in Tasks :
            Holding(d, g, t) => Holding(d, g, t)'
    BY <1>1, <1>3 DEF Holding, GroupOf
  <1>7. \A d \in Consumers, t \in Tasks :
            pc'[d] = "return" /\ task'[d] = t => pc[d] = "return" /\ task[d] = t
    BY <1>2, <1>3
  <1>8. /\ \A g \in Groups, t \in Tasks : t \in sent' => todo'[g][t] > 0 \/ Settled(g, t)
        /\ \A g \in Groups, t \in Tasks : effects'[g][t] > 0 => t \in sent'
    BY <1>1 DEF ServedInv
  <1>9. QED
    BY <1>5, <1>6, <1>7, <1>8, ServedKept

\* A copy is passed because the effect is there, because its handler was cut, or
\* because a handler has a copy of its own, which stays.
LEMMA SkipServed ==
    ASSUME Copied, StaleInv, ServedInv, [Next]_vars,
           NEW c \in Consumers, NEW h \in Groups, NEW s \in Tasks, Skip(c, h, s)
    PROVE  ServedInv'
  <1>1. /\ KeyOf(h, s) \in keys
        /\ Cardinality(Handlers(h, s)) < todo[h][s]
        /\ todo' = [todo EXCEPT ![h][s] = todo[h][s] - 1]
        /\ UNCHANGED <<sent, pc, task, keys, effects, excuses, orphaned, cut>>
    BY DEF Skip, Delivered, Resolved
  <1>2. /\ todo[h][s] \in Nat /\ todo'[h][s] = todo[h][s] - 1
        /\ \A g \in Groups, t \in Tasks :
               g # h \/ t # s => todo'[g][t] = todo[g][t]
    BY <1>1 DEF Copied, TypeOK
  <1>3. ASSUME NEW d \in Consumers, Holding(d, h, s)
        PROVE  todo'[h][s] > 0 \/ Settled(h, s)
    <2>1. CASE d \in stale
      BY <1>3, <2>1 DEF StaleInv, Settled, Spoilt
    <2>2. CASE d \notin stale
      <3>1. Handlers(h, s) # {}
        BY <1>3, <2>2 DEF Holding, Handlers
      <3>2. Cardinality(Handlers(h, s)) # 0 /\ Cardinality(Handlers(h, s)) \in Nat
        BY <3>1, HandlersFinite, FS_EmptySet
      <3>3. QED
        BY <1>1, <1>2, <3>2
    <2>3. QED
      BY <2>1, <2>2
  <1>4. \A g \in Groups, t \in Tasks : t \in sent' => todo'[g][t] > 0 \/ Settled(g, t)
    <2> SUFFICES ASSUME NEW g \in Groups, NEW t \in Tasks, t \in sent
                 PROVE  todo'[g][t] > 0 \/ Settled(g, t)
      BY <1>1
    <2>1. CASE g = h /\ t = s
      BY <1>1, <1>3, <2>1 DEF ServedInv
    <2>2. CASE g # h \/ t # s
      BY <1>2, <2>2 DEF ServedInv
    <2>3. QED
      BY <2>1, <2>2
  <1>5. \A g \in Groups, t \in Tasks : effects'[g][t] > 0 => t \in sent'
    BY <1>1 DEF ServedInv
  <1>6. \A d, g, t : Holding(d, g, t)' <=> Holding(d, g, t)
    BY <1>1 DEF Holding
  <1>7. QED
    BY <1>1, <1>4, <1>5, <1>6, ServedKept

\* A copy is passed although its effect is missing, and its key is left behind.
LEMMA LostClaimServed ==
    ASSUME Copied, ServedInv, [Next]_vars, NEW c \in Consumers, NEW h \in Groups,
           NEW s \in Tasks, ClaimReplyLost(c, h, s)
    PROVE  ServedInv'
  <1>1. /\ keys' = keys \cup {KeyOf(h, s)}
        /\ orphaned' = orphaned \cup {<<h, s>>}
        /\ todo' = [todo EXCEPT ![h][s] = todo[h][s] - 1]
        /\ UNCHANGED <<sent, pc, task, effects, excuses, cut>>
    BY DEF ClaimReplyLost, Resolved
  <1>2. \A g \in Groups, t \in Tasks :
            g # h \/ t # s => todo'[g][t] = todo[g][t]
    BY <1>1 DEF Copied, TypeOK
  <1>3. Settled(h, s)'
    BY <1>1 DEF Settled, Spoilt
  <1>4. \A g \in Groups, t \in Tasks :
            t \in sent' => todo'[g][t] > 0 \/ Settled(g, t) \/ Settled(g, t)'
    BY <1>1, <1>2, <1>3 DEF ServedInv
  <1>5. \A g \in Groups, t \in Tasks : KeyOf(g, t) \in keys' =>
            KeyOf(g, t) \in keys \/ Settled(g, t)'
    BY <1>1, <1>3, KeyInjective
  <1>6. \A g \in Groups, t \in Tasks : effects'[g][t] > 0 => t \in sent'
    BY <1>1 DEF ServedInv
  <1>7. \A d, g, t : Holding(d, g, t)' <=> Holding(d, g, t)
    BY <1>1 DEF Holding
  <1>8. QED
    BY <1>1, <1>4, <1>5, <1>6, <1>7, ServedKept

LEMMA WorkServed ==
    ASSUME Copied, HoldInv, ServedInv, [Next]_vars, NEW c \in Consumers,
           Notify(c) \/ Increment(c) \/ NoCounterYet(c) \/ Insert(c) \/ WorkFails(c)
    PROVE  ServedInv'
  <1>1. /\ pc[c] \in {"work", "insert"}
        /\ UNCHANGED <<sent, todo, task, keys>>
    BY DEF Notify, Increment, NoCounterYet, Insert, WorkFails
  <1>2. PICK h \in Groups, s \in Tasks : h = GroupOf(c) /\ s = task[c] /\ s \in sent
    BY <1>1, WorkIsDue
  <1>3. effects \in [Groups -> [Tasks -> Nat]]
    BY DEF Copied, TypeOK
  <1>4. /\ \A d \in Consumers \ {c} : pc'[d] = pc[d]
        /\ \/ pc'[c] \in {"insert", "evict"}
           \/ pc'[c] = "return" /\ effects' = Plus(effects, h, s)
    BY <1>2, WorkCases DEF Copied, TypeOK
  <1>5. effects' = effects \/ effects' = Plus(effects, h, s)
    BY <1>2, WorkCases
  <1>6. /\ Plus(effects, h, s)[h][s] = effects[h][s] + 1 /\ effects[h][s] \in Nat
        /\ \A g \in Groups, t \in Tasks :
               g # h \/ t # s => Plus(effects, h, s)[g][t] = effects[g][t]
    BY <1>3 DEF Plus
  <1>7. pc'[c] = "return" => Settled(h, s)'
    BY <1>4, <1>6 DEF Settled
  <1>8. \A g \in Groups, t \in Tasks : effects'[g][t] > 0 => t \in sent'
    BY <1>1, <1>2, <1>5, <1>6 DEF ServedInv
  <1>9. \A d \in Consumers, g \in Groups, t \in Tasks :
            Holding(d, g, t) => Holding(d, g, t)' \/ Settled(g, t)'
    <2> SUFFICES ASSUME NEW d \in Consumers, NEW g \in Groups, NEW t \in Tasks,
                        Holding(d, g, t)
                 PROVE  Holding(d, g, t)' \/ Settled(g, t)'
      OBVIOUS
    <2>1. CASE d = c
      <3>1. g = h /\ t = s
        BY <1>2, <2>1 DEF Holding
      <3>2. QED
        BY <1>1, <1>4, <1>7, <2>1, <3>1 DEF Holding, GroupOf
    <2>2. CASE d # c
      BY <1>1, <1>4, <2>2 DEF Holding, GroupOf
    <2>3. QED
      BY <2>1, <2>2
  <1>10. \A d \in Consumers, g \in Groups, t \in Tasks :
             pc'[d] = "return" /\ GroupOf(d) = g /\ task'[d] = t =>
                 Settled(g, t)' \/ (pc[d] = "return" /\ task[d] = t)
    <2> SUFFICES ASSUME NEW d \in Consumers, NEW g \in Groups, NEW t \in Tasks,
                        pc'[d] = "return", GroupOf(d) = g, task'[d] = t
                 PROVE  Settled(g, t)' \/ (pc[d] = "return" /\ task[d] = t)
      OBVIOUS
    <2>1. CASE d = c
      BY <1>1, <1>2, <1>7, <2>1
    <2>2. CASE d # c
      BY <1>1, <1>4, <2>2
    <2>3. QED
      BY <2>1, <2>2
  <1>11. \A g \in Groups, t \in Tasks : t \in sent' => todo'[g][t] > 0 \/ Settled(g, t)
    BY <1>1 DEF ServedInv
  <1>12. QED
    BY <1>1, <1>8, <1>9, <1>10, <1>11, ServedKept

\* A consumer lets go of its message: with its key, with its copy once the
\* effect is there, or by leaving the key behind.
LEMMA FinishServed ==
    ASSUME Copied, ServedInv, [Next]_vars, NEW c \in Consumers,
           Evict(c) \/ EvictFails(c) \/ Return(c) \/ Crash(c)
    PROVE  ServedInv'
  <1>0. PICK s : s = task[c]
    OBVIOUS
  <1>1. PICK h \in Groups : h = GroupOf(c) /\ s = task[c]
    BY <1>0, GroupType
  <1>2. /\ pc'[c] \in {"idle", "down"} /\ task' = [task EXCEPT ![c] = NoTask]
        /\ keys' \subseteq keys
        /\ UNCHANGED <<sent, effects, excuses>>
    BY DEF Evict, EvictFails, Return, Crash, Finish, Goto, Copied, TypeOK
  <1>3. \A d \in Consumers \ {c} : pc'[d] = pc[d] /\ task'[d] = task[d]
    BY DEF Evict, EvictFails, Return, Crash, Finish, Goto, Copied, TypeOK
  <1>4. \A g \in Groups, t \in Tasks : t \in sent' => todo'[g][t] > 0 \/ Settled(g, t)
    <2>1. CASE UNCHANGED todo
      BY <1>2, <2>1 DEF ServedInv
    <2>2. CASE Return(c) /\ c \notin stale
      <3>1. pc[c] = "return" /\ todo' = [todo EXCEPT ![h][s] = todo[h][s] - 1]
        BY <1>1, <2>2 DEF Return, Resolved
      <3>2. s \in Tasks /\ Settled(h, s)
        BY <1>1, <3>1 DEF ServedInv, Copied, TypeOK
      <3>3. \A g \in Groups, t \in Tasks :
                g # h \/ t # s => todo'[g][t] = todo[g][t]
        BY <3>1 DEF Copied, TypeOK
      <3>4. QED
        BY <1>2, <3>2, <3>3 DEF ServedInv
    <2>3. QED
      BY <2>1, <2>2 DEF Evict, EvictFails, Return, Crash
  <1>5. \A d \in Consumers, g \in Groups, t \in Tasks :
            Holding(d, g, t) /\ KeyOf(g, t) \in keys' =>
                Holding(d, g, t)' \/ Settled(g, t)'
    <2> SUFFICES ASSUME NEW d \in Consumers, NEW g \in Groups, NEW t \in Tasks,
                        Holding(d, g, t), KeyOf(g, t) \in keys'
                 PROVE  Holding(d, g, t)' \/ Settled(g, t)'
      OBVIOUS
    <2>1. CASE d # c
      BY <1>3, <2>1 DEF Holding, GroupOf
    <2>2. CASE d = c
      <3>1. g = h /\ t = s /\ pc[c] \in {"work", "insert", "evict"}
        BY <1>1, <2>2 DEF Holding
      <3>2. CASE Evict(c)
        BY <1>1, <3>1, <3>2 DEF Evict, Key
      <3>3. CASE EvictFails(c) \/ Crash(c)
        <4>1. <<g, t>> \in {p \in Groups \X Tasks : Holding(c, p[1], p[2])}
          BY <2>2
        <4>2. <<g, t>> \in orphaned'
          BY <3>3, <4>1 DEF EvictFails, Crash, LeaveKey
        <4>3. QED
          BY <4>2 DEF Settled, Spoilt
      <3>4. CASE Return(c)
        BY <3>1, <3>4 DEF Return
      <3>5. QED
        BY <3>2, <3>3, <3>4
    <2>3. QED
      BY <2>1, <2>2
  <1>6. \A d \in Consumers, t \in Tasks :
            pc'[d] = "return" /\ task'[d] = t => pc[d] = "return" /\ task[d] = t
    BY <1>2, <1>3
  <1>7. \A g \in Groups, t \in Tasks : effects'[g][t] > 0 => t \in sent'
    BY <1>2 DEF ServedInv
  <1>8. \A g \in Groups, t \in Tasks : KeyOf(g, t) \in keys' => KeyOf(g, t) \in keys
    BY <1>2
  <1>9. QED
    BY <1>4, <1>5, <1>6, <1>7, <1>8, ServedKept

LEMMA ServedStep ==
    Copied /\ HoldInv /\ StaleInv /\ ServedInv /\ [Next]_vars => ServedInv'
  <1> SUFFICES ASSUME Copied, HoldInv, StaleInv, ServedInv, [Next]_vars
               PROVE  ServedInv'
    OBVIOUS
  <1>1. ASSUME UNCHANGED <<sent, todo, task, effects>>, keys' \subseteq keys,
               \A c \in Consumers : \/ pc'[c] = pc[c]
                                    \/ pc[c] = "down" /\ pc'[c] = "idle"
        PROVE  ServedInv'
    <2>1. \A d \in Consumers : \A g, t : Holding(d, g, t)' <=> Holding(d, g, t)
      BY <1>1 DEF Holding, GroupOf
    <2>2. /\ \A g \in Groups, t \in Tasks : t \in sent' => todo'[g][t] > 0 \/ Settled(g, t)
          /\ \A g \in Groups, t \in Tasks : effects'[g][t] > 0 => t \in sent'
      BY <1>1 DEF ServedInv
    <2>3. QED
      BY <1>1, <2>1, <2>2, ServedKept
  <1>2. ASSUME NEW t \in Tasks, Create(t) \/ SettleOrRemark(t)
        PROVE  ServedInv'
    BY <1>1, <1>2, RelayStep DEF consumerVars
  <1>3. ASSUME NEW g \in Groups, NEW t \in Tasks, Expire(g, t)
        PROVE  ServedInv'
    BY <1>1, <1>3 DEF Expire
  <1>4. CASE UNCHANGED vars
    BY <1>1, <1>4 DEF vars, consumerVars
  <1>5. ASSUME NEW g \in Groups, Rebalance(g)
        PROVE  ServedInv'
    BY <1>1, <1>5 DEF Rebalance
  <1>6. ASSUME NEW c \in Consumers, Restart(c)
        PROVE  ServedInv'
    <2>1. \A d \in Consumers : \/ pc'[d] = pc[d]
                               \/ pc[d] = "down" /\ pc'[d] = "idle"
      BY <1>6 DEF Restart, Goto, Copied, TypeOK
    <2>2. QED
      BY <1>1, <1>6, <2>1 DEF Restart
  <1>7. QED
    BY <1>2, <1>3, <1>4, <1>5, <1>6, GroupType, SendServed, ClaimServed, SkipServed,
       LostClaimServed, WorkServed, FinishServed
    DEF Next, ConsumerStep, FaultStep

LEMMA ServedInvariance == Spec => [](Copied /\ HoldInv /\ CountInv /\ ServedInv)
  BY InitStale, StaleStep, InitServed, ServedStep, CountInvariance, PTL DEF Spec

LEMMA InitDamage == Init => DamageInv
  <1> SUFFICES ASSUME Init
               PROVE  DamageInv
    OBVIOUS
  <1>1. Damage = {}
    BY DEF Init, NoneYet, Damage, Damaged
  <1>2. budget["failure"] = Budget["failure"] /\ Budget["failure"] \in Nat
    BY PipelineAssumption DEF Init, FaultKinds
  <1>3. QED
    BY <1>1, <1>2, FS_EmptySet DEF DamageInv

\* What a step does to the pairs that may be wrong, and what it costs.
LEMMA DamageCases ==
    ASSUME Copied, [Next]_vars
    PROVE  \/ Damage' \subseteq Damage /\ budget'["failure"] = budget["failure"]
           \/ Damage' \subseteq Damage /\ Spend("failure")
           \/ Spend("failure") /\ \E p : Damage' \subseteq Damage \cup {p}
  <1>1. ASSUME UNCHANGED <<excuses, orphaned>>
        PROVE  Damage' \subseteq Damage
    BY <1>1 DEF Damage, Damaged
  <1>2. ASSUME NEW g \in Groups, NEW t \in Tasks,
               excuses' = Plus(excuses, g, t), UNCHANGED orphaned
        PROVE  \E p : Damage' \subseteq Damage \cup {p}
    <2>1. \A h \in Groups, s \in Tasks :
              <<h, s>> # <<g, t>> => excuses'[h][s] = excuses[h][s]
      <3>1. excuses \in [Groups -> [Tasks -> Nat]]
        BY DEF Copied, TypeOK
      <3>2. QED
        BY <1>2, <3>1 DEF Plus
    <2>2. \A h \in Groups, s \in Tasks :
              <<h, s>> # <<g, t>> /\ Damaged(h, s)' => Damaged(h, s)
      BY <1>2, <2>1 DEF Damaged
    <2>3. Damage' \subseteq Damage \cup {<<g, t>>}
      BY <2>2 DEF Damage
    <2>4. QED
      BY <2>3
  <1>3. ASSUME NEW q, orphaned' \subseteq orphaned \cup {q}, UNCHANGED excuses
        PROVE  \E p : Damage' \subseteq Damage \cup {p}
    <2>1. Damage' \subseteq Damage \cup {q}
      BY <1>3 DEF Damage, Damaged
    <2>2. QED
      BY <2>1
  <1>4. ASSUME NEW c \in Consumers,
               Notify(c) \/ Increment(c) \/ NoCounterYet(c) \/ Insert(c) \/ WorkFails(c)
        PROVE  \/ Damage' \subseteq Damage /\ budget'["failure"] = budget["failure"]
               \/ Damage' \subseteq Damage /\ Spend("failure")
               \/ Spend("failure") /\ \E p : Damage' \subseteq Damage \cup {p}
    <2>1. /\ GroupOf(c) \in Groups /\ task[c] \in Tasks /\ UNCHANGED orphaned
      BY <1>4, GroupType DEF Notify, Increment, NoCounterYet, Insert, WorkFails,
                             Copied, TypeOK
    <2>2. \/ UNCHANGED <<excuses, budget>>
          \/ UNCHANGED excuses /\ Spend("failure")
          \/ excuses' = Plus(excuses, GroupOf(c), task[c]) /\ Spend("failure")
      BY <1>4 DEF Notify, Increment, NoCounterYet, Insert, WorkFails, Written,
                  Applied, AppliedInDoubt
    <2>3. QED
      BY <1>1, <1>2, <2>1, <2>2
  <1>5. ASSUME NEW t \in Tasks, Create(t) \/ SettleOrRemark(t)
        PROVE  Damage' \subseteq Damage /\ budget'["failure"] = budget["failure"]
    BY <1>1, <1>5, RelayStep DEF consumerVars, Create, SettleOrRemark
  <1>6. ASSUME NEW t \in Tasks, Send(t)
        PROVE  Damage' \subseteq Damage /\ budget'["failure"] = budget["failure"]
    <2>1. UNCHANGED budget \/ budget' = [budget EXCEPT !["copy"] = budget["copy"] - 1]
      BY <1>6 DEF Send, Spend
    <2>2. budget'["failure"] = budget["failure"]
      BY <2>1 DEF Copied, TypeOK, FaultKinds
    <2>3. QED
      BY <1>1, <1>6, <2>2 DEF Send
  <1>7. ASSUME NEW g \in Groups, NEW t \in Tasks, Expire(g, t)
        PROVE  Spend("failure") /\ \E p : Damage' \subseteq Damage \cup {p}
    BY <1>2, <1>7 DEF Expire
  <1>8. ASSUME NEW c \in Consumers, EvictFails(c) \/ Crash(c)
        PROVE  Spend("failure") /\ \E p : Damage' \subseteq Damage \cup {p}
    <2>1. \A p \in Groups \X Tasks :
              Holding(c, p[1], p[2]) => p = <<GroupOf(c), task[c]>>
      BY DEF Holding
    <2>2. orphaned' \subseteq orphaned \cup {<<GroupOf(c), task[c]>>} /\ UNCHANGED excuses
      BY <1>8, <2>1 DEF EvictFails, Crash, LeaveKey
    <2>3. QED
      BY <1>3, <1>8, <2>2 DEF EvictFails, Crash
  <1>9. ASSUME NEW c \in Consumers, NEW g \in Groups, NEW t \in Tasks,
               ClaimReplyLost(c, g, t)
        PROVE  Spend("failure") /\ \E p : Damage' \subseteq Damage \cup {p}
    <2>1. orphaned' \subseteq orphaned \cup {<<g, t>>} /\ UNCHANGED excuses
      BY <1>9 DEF ClaimReplyLost
    <2>2. QED
      BY <1>3, <1>9, <2>1 DEF ClaimReplyLost
  <1>10. ASSUME NEW g \in Groups, Rebalance(g)
         PROVE  Damage' \subseteq Damage /\ budget'["failure"] = budget["failure"]
    <2>1. budget' = [budget EXCEPT !["rebalance"] = budget["rebalance"] - 1]
      BY <1>10 DEF Rebalance, Spend
    <2>2. budget'["failure"] = budget["failure"]
      BY <2>1 DEF Copied, TypeOK, FaultKinds
    <2>3. QED
      BY <1>1, <1>10, <2>2 DEF Rebalance
  <1>11. CASE UNCHANGED <<excuses, orphaned, budget>>
    BY <1>1, <1>11
  <1>12. QED
    BY <1>4, <1>5, <1>6, <1>7, <1>8, <1>9, <1>10, <1>11, GroupType
    DEF Next, ConsumerStep, FaultStep, vars, consumerVars, Claim, Skip, Evict, Return,
        Restart

LEMMA DamageStep == Copied /\ DamageInv /\ [Next]_vars => DamageInv'
  <1> SUFFICES ASSUME Copied, DamageInv, [Next]_vars
               PROVE  IsFiniteSet(Damage') /\
                      Cardinality(Damage') + budget'["failure"] <= Budget["failure"]
    BY DEF DamageInv
  <1>1. /\ IsFiniteSet(Damage) /\ Cardinality(Damage) \in Nat
        /\ Cardinality(Damage) + budget["failure"] <= Budget["failure"]
        /\ budget["failure"] \in Nat /\ Budget["failure"] \in Nat
    BY FS_CardinalityType, PipelineAssumption DEF DamageInv, Copied, TypeOK, FaultKinds
  <1>2. Spend("failure") => budget'["failure"] = budget["failure"] - 1
    BY DEF Spend, Copied, TypeOK, FaultKinds
  <1>3. CASE Damage' \subseteq Damage
    <2>1. /\ IsFiniteSet(Damage')
          /\ Cardinality(Damage') <= Cardinality(Damage)
      BY <1>1, <1>3, FS_Subset
    <2>2. Cardinality(Damage') \in Nat
      BY <2>1, FS_CardinalityType
    <2>3. budget'["failure"] \in {budget["failure"], budget["failure"] - 1}
      <3>1. /\ \/ budget'["failure"] = budget["failure"]
               \/ Spend("failure")
        BY DamageCases
      <3>2. QED
        BY <1>2, <3>1
    <2>4. QED
      BY <1>1, <2>1, <2>2, <2>3
  <1>4. CASE Spend("failure") /\ \E p : Damage' \subseteq Damage \cup {p}
    <2>1. PICK p : Damage' \subseteq Damage \cup {p}
      BY <1>4
    <2>2. /\ IsFiniteSet(Damage \cup {p})
          /\ Cardinality(Damage \cup {p}) \in {Cardinality(Damage), Cardinality(Damage) + 1}
      BY <1>1, FS_AddElement
    <2>3. /\ IsFiniteSet(Damage')
          /\ Cardinality(Damage') <= Cardinality(Damage \cup {p})
      BY <2>1, <2>2, FS_Subset
    <2>4. Cardinality(Damage') \in Nat
      BY <2>3, FS_CardinalityType
    <2>5. QED
      BY <1>1, <1>2, <1>4, <2>2, <2>3, <2>4
  <1>5. QED
    BY <1>3, <1>4, DamageCases

LEMMA DamageInvariance == Spec => [](Copied /\ HoldInv /\ CountInv /\ ServedInv /\ DamageInv)
  BY InitDamage, DamageStep, ServedInvariance, PTL DEF Spec

\* Where nothing is spoilt, an effect of a resolved task is there exactly once.
LEMMA OnceUnlessSpoilt ==
    ASSUME Copied, HoldInv, ServedInv, NEW g \in Groups, NEW t \in Tasks,
           todo[g][t] = 0, ~Spoilt(g, t)
    PROVE  effects[g][t] = IF t \in sent THEN 1 ELSE 0
  <1>1. effects[g][t] \in Nat /\ excuses[g][t] = 0
    BY DEF Copied, TypeOK, Spoilt
  <1>2. effects[g][t] <= 1
    BY <1>1 DEF HoldInv, EffectsExcused
  <1>3. t \in sent => effects[g][t] > 0
    BY DEF ServedInv, Settled
  <1>4. t \notin sent => effects[g][t] = 0
    BY <1>1 DEF ServedInv
  <1>5. QED
    BY <1>1, <1>2, <1>3, <1>4

\* The key, the redelivered copy and the atomic upsert together: a failed or lost
\* call, a crash or an expiry costs one service one task; only a rebalance can
\* cost more, and only tasks that were being handled.
THEOREM FailuresDoNotSpread == Spec => []EachFailureHarmsOne
  <1>1. Copied /\ HoldInv /\ ServedInv /\ DamageInv => EachFailureHarmsOne
    <2> SUFFICES ASSUME Copied, HoldInv, ServedInv, DamageInv
                 PROVE  EachFailureHarmsOne
      OBVIOUS
    <2> DEFINE Harmed == {p \in Groups \X sent :
                              todo[p[1]][p[2]] = 0 /\ effects[p[1]][p[2]] # 1}
    <2>1. ASSUME NEW p \in Harmed \ cut
          PROVE  p \in Damage
      <3>1. PICK g \in Groups, t \in Tasks : p = <<g, t>> /\ t \in sent
        BY DEF Copied, TypeOK
      <3>2. Spoilt(g, t)
        BY <3>1, OnceUnlessSpoilt
      <3>3. QED
        BY <3>1, <3>2 DEF Damage, Damaged, Spoilt
    <2>2. Harmed \ cut \subseteq Damage
      BY <2>1
    <2>3. /\ IsFiniteSet(Harmed \ cut) /\ IsFiniteSet(Damage)
          /\ Cardinality(Harmed \ cut) <= Cardinality(Damage)
      BY <2>2, FS_Subset DEF DamageInv
    <2>4. Cardinality(Harmed \ cut) \in Nat /\ Cardinality(Damage) \in Nat
      BY <2>3, FS_CardinalityType
    <2>5. budget["failure"] \in Nat /\ Budget["failure"] \in Nat
      BY PipelineAssumption DEF Copied, TypeOK, FaultKinds
    <2>6. QED
      BY <2>3, <2>4, <2>5 DEF EachFailureHarmsOne, DamageInv
  <1>2. QED
    BY <1>1, DamageInvariance, PTL

\* getUserCounter, the notifications and the outbox agree about a user when both
\* services are through with the topic and none of the user's tasks was spoilt,
\* whatever failures and rebalances befell those of others.
THEOREM ServicesStayInStep == Spec => []ServicesAgree
  <1>1. Copied /\ HoldInv /\ CountInv /\ ServedInv => ServicesAgree
    <2> SUFFICES ASSUME Copied, HoldInv, CountInv, ServedInv, NEW u \in Users,
                        \A g \in Groups, t \in TasksOf(u) :
                            todo[g][t] = 0 /\ ~Spoilt(g, t)
                 PROVE  /\ taskCount[u] = Cardinality(TasksOf(u) \cap sent)
                        /\ \A t \in TasksOf(u) :
                               effects["notification-group"][t] =
                                   IF t \in sent THEN 1 ELSE 0
      BY DEF ServicesAgree, UserCounter
    <2>1. \A g \in Groups, t \in TasksOf(u) :
              effects[g][t] = IF t \in sent THEN 1 ELSE 0
      <3> SUFFICES ASSUME NEW g \in Groups, NEW t \in TasksOf(u)
                   PROVE  effects[g][t] = IF t \in sent THEN 1 ELSE 0
        OBVIOUS
      <3>1. t \in Tasks /\ todo[g][t] = 0 /\ ~Spoilt(g, t)
        BY DEF TasksOf
      <3>2. QED
        BY <3>1, OnceUnlessSpoilt
    <2> DEFINE Published == TasksOf(u) \cap sent
    <2>2. ASSUME NEW p
          PROVE  p \in Increments(u) <=> \E t \in Published : p = <<t, 1>>
      <3>1. p \in Increments(u) <=>
                \E t \in TasksOf(u) :
                    \E k \in 1 .. effects["analytics-group"][t] : p = <<t, k>>
        BY PairsElement DEF Increments, Pairs
      <3>2. "analytics-group" \in Groups /\ 1 .. 1 = {1} /\ 1 .. 0 = {}
        BY DEF Groups
      <3>3. \A t \in TasksOf(u) :
                effects["analytics-group"][t] = IF t \in sent THEN 1 ELSE 0
        BY <2>1, <3>2
      <3>4. \A t \in TasksOf(u) : 1 .. effects["analytics-group"][t] =
                                      IF t \in sent THEN {1} ELSE {}
        BY <3>2, <3>3
      <3>5. QED
        BY <3>1, <3>4
    <2> DEFINE TaskOf == [p \in Increments(u) |-> p[1]]
    <2>3. TaskOf \in Bijection(Increments(u), Published)
      <3>1. \A p \in Increments(u) : p[1] \in Published /\ p = <<p[1], 1>>
        BY <2>2
      <3>2. \A t \in Published : <<t, 1>> \in Increments(u)
        BY <2>2
      <3>3. TaskOf \in Injection(Increments(u), Published)
        <4>1. \A p, q \in Increments(u) : p[1] = q[1] => p = q
          BY <3>1
        <4>2. TaskOf \in [Increments(u) -> Published]
          BY <3>1
        <4>3. \A p \in Increments(u) : TaskOf[p] = p[1]
          OBVIOUS
        <4>4. \A p, q \in Increments(u) : TaskOf[p] = TaskOf[q] => p = q
          BY <4>1, <4>3
        <4> HIDE DEF TaskOf, Published
        <4>5. QED
          BY <4>2, <4>4, Zenon DEF Injection, IsInjective
      <3>4. \A t \in Published : \E p \in Increments(u) : TaskOf[p] = t
        <4> SUFFICES ASSUME NEW t \in Published
                     PROVE  \E p \in Increments(u) : TaskOf[p] = t
          OBVIOUS
        <4>1. <<t, 1>> \in Increments(u) /\ TaskOf[<<t, 1>>] = t
          BY <3>2
        <4>2. QED
          BY <4>1
      <3>5. QED
        BY <3>3, <3>4 DEF Bijection, Injection, Surjection
    <2>4. Cardinality(Published) = Cardinality(Increments(u))
      BY <2>3, FS_Bijection DEF ExistsBijection, CountInv
    <2>5. QED
      BY <2>1, <2>4 DEF CountInv, Groups
  <1>2. QED
    BY <1>1, ServedInvariance, PTL

-----------------------------------------------------------------------------
(* Implementation of EventDelivery                                         *)

LEMMA InitDelivers == Init => Delivery!Init
  BY DEF Init, Relay!Init, NoneYet, Delivery!Init, Delivery!None

LEMMA PlusIsPlus == \A f, g, t : Plus(f, g, t) = Delivery!Plus(f, g, t)
  BY DEF Plus, Delivery!Plus

LEMMA WorkDelivers ==
    ASSUME Copied, HoldInv, NEW c \in Consumers,
           Notify(c) \/ Increment(c) \/ NoCounterYet(c) \/ Insert(c) \/ WorkFails(c)
    PROVE  Delivery!Next \/ UNCHANGED Delivery!vars
  <1>1. pc[c] \in {"work", "insert"} /\ UNCHANGED sent
    BY DEF Notify, Increment, NoCounterYet, Insert, WorkFails
  <1>2. PICK g \in Groups, t \in Tasks :
            /\ g = GroupOf(c) /\ t = task[c]
            /\ t \in sent /\ effects[g][t] <= excuses[g][t]
    BY <1>1, WorkIsDue
  <1>3. Delivery!Due(g, t)
    BY <1>2 DEF Delivery!Due
  <1>4. CASE UNCHANGED <<effects, excuses>>
    BY <1>1, <1>4 DEF Delivery!vars
  <1>5. CASE effects' = Plus(effects, g, t) /\ excuses' = excuses
    <2>1. Delivery!Effect(g, t)
      BY <1>1, <1>3, <1>5, PlusIsPlus DEF Delivery!Effect
    <2>2. QED
      BY <2>1 DEF Delivery!Next
  <1>6. CASE effects' = Plus(effects, g, t) /\ excuses' = Plus(excuses, g, t)
    <2>1. Delivery!DoubtfulEffect(g, t)
      BY <1>1, <1>3, <1>6, PlusIsPlus DEF Delivery!DoubtfulEffect
    <2>2. QED
      BY <2>1 DEF Delivery!Next
  <1>7. QED
    BY <1>2, <1>4, <1>5, <1>6, WorkCases

LEMMA StepDelivers == Copied /\ HoldInv /\ [Next]_vars => [Delivery!Next]_(Delivery!vars)
  <1> SUFFICES ASSUME Copied, HoldInv, [Next]_vars
               PROVE  Delivery!Next \/ UNCHANGED Delivery!vars
    OBVIOUS
  <1>1. CASE UNCHANGED <<sent, effects, excuses>>
    BY <1>1 DEF Delivery!vars
  <1>2. ASSUME NEW t \in Tasks, Send(t)
        PROVE  Delivery!Next
    <2>1. Delivery!Send(t)
      BY <1>2 DEF Send, Relay!Send, Delivery!Send
    <2>2. QED
      BY <2>1 DEF Delivery!Next
  <1>3. ASSUME NEW g \in Groups, NEW t \in Tasks, Expire(g, t)
        PROVE  Delivery!Next
    <2>1. Delivery!Forget(g, t)
      BY <1>3, PlusIsPlus DEF Expire, Delivery!Forget
    <2>2. QED
      BY <2>1 DEF Delivery!Next
  <1>4. ASSUME NEW t \in Tasks, Create(t) \/ SettleOrRemark(t)
        PROVE  UNCHANGED <<sent, effects, excuses>>
    BY <1>4, RelayStep DEF consumerVars
  <1>5. QED
    BY <1>1, <1>2, <1>3, <1>4, WorkDelivers
    DEF Next, ConsumerStep, FaultStep, vars, consumerVars, Claim, Skip,
        ClaimReplyLost, Evict, EvictFails, Return, Rebalance, Crash, Restart

\* Behind any outbox that keeps EventRelay, and over one Redis, both services
\* deliver each task once, and again only when an effect was in doubt.
THEOREM PipelineImplementsDelivery == Spec => ImplementsDelivery
  <1>1. Copied /\ HoldInv /\ [Next]_vars => [Delivery!Next]_(Delivery!vars)
    BY StepDelivers
  <1>2. QED
    BY <1>1, InitDelivers, Invariance, PTL DEF Spec, ImplementsDelivery, Delivery!Spec

-----------------------------------------------------------------------------
(* Both promises together                                                  *)

LEMMA StepRelays == [Next]_vars => [Relay!Next]_(Relay!vars)
  <1> SUFFICES ASSUME Next PROVE Relay!Next \/ UNCHANGED <<mark, sent>>
    BY DEF vars, Relay!vars
  <1>1. ASSUME NEW t \in Tasks, Create(t) \/ Send(t) \/ SettleOrRemark(t)
        PROVE  Relay!Next
    BY <1>1 DEF Create, Send, SettleOrRemark, Relay!Next
  <1>2. QED
    BY <1>1 DEF Next, ConsumerStep, FaultStep, Claim, Skip, ClaimReplyLost, Notify,
                Increment, NoCounterYet, Insert, Evict, EvictFails, Return,
                WorkFails, Rebalance, Crash, Restart, Expire

\* Consumers leave mark and sent to the sender, whose actions are the relay's.
LEMMA PipelineRelays == Spec => Relay!Spec
  <1>1. Init => Relay!Init
    BY DEF Init
  <1>2. QED
    BY <1>1, StepRelays, PTL DEF Spec, Relay!Spec

Promises == INSTANCE PromisesProofs WITH Events <- Tasks

\* From outbox to notification and counter, no effect comes from nowhere.  The
\* proof uses nothing of the handlers but the two promises they keep.
THEOREM EffectsAreOfCreatedTasks == Spec => []NothingInvented
  <1>1. Relay!Spec => Promises!Relay!Spec
    <2>1. Relay!Init => Promises!Relay!Init
      BY DEF Relay!Init, Promises!Relay!Init
    <2>2. [Relay!Next]_(Relay!vars) => [Promises!Relay!Next]_(Promises!Relay!vars)
      BY DEF Relay!Next, Relay!vars, Relay!Accept, Relay!Send, Relay!Settle,
             Relay!Remark, Relay!MarkAs, Promises!Relay!Next, Promises!Relay!vars,
             Promises!Relay!Accept, Promises!Relay!Send, Promises!Relay!Settle,
             Promises!Relay!Remark, Promises!Relay!MarkAs
    <2>3. QED
      BY <2>1, <2>2, PTL DEF Relay!Spec, Promises!Relay!Spec
  <1>2. Delivery!Spec => Promises!Delivery!Spec
    <2>1. Delivery!Init => Promises!Delivery!Init
      BY DEF Delivery!Init, Delivery!None, Promises!Delivery!Init,
             Promises!Delivery!None
    <2>2. [Delivery!Next]_(Delivery!vars)
          => [Promises!Delivery!Next]_(Promises!Delivery!vars)
      BY DEF Delivery!Next, Delivery!vars, Delivery!Send, Delivery!Effect,
             Delivery!DoubtfulEffect, Delivery!Forget, Delivery!Due, Delivery!Plus,
             Promises!Delivery!Next, Promises!Delivery!vars, Promises!Delivery!Send,
             Promises!Delivery!Effect, Promises!Delivery!DoubtfulEffect,
             Promises!Delivery!Forget, Promises!Delivery!Due, Promises!Delivery!Plus
    <2>3. QED
      BY <2>1, <2>2, PTL DEF Delivery!Spec, Promises!Delivery!Spec
  <1>3. Promises!EndToEnd => NothingInvented
    BY DEF Promises!EndToEnd, NothingInvented
  <1>4. QED
    BY <1>1, <1>2, <1>3, Promises!PromisesCompose, PipelineRelays,
       PipelineImplementsDelivery, PTL DEF ImplementsDelivery
================================================================================
