-------------------------- MODULE EventConsumerProofs --------------------------
(***************************************************************************)
(* Proofs about EventConsumer for every group, log and fault budget.  The  *)
(* argument is about keys: while a handler works on an event its key is in *)
(* Redis, so no second handler gets past SET NX; an event whose key is     *)
(* absent has no effect that is not excused; and an event without effect   *)
(* has a copy that no handler can resolve, unless a handler of its own was *)
(* under way at a crash or rebalance, lost an answer or failed to evict.   *)
(***************************************************************************)
EXTENDS EventConsumer, FiniteSetTheorems, TLAPS

\* The key of an event outlives the handler that claimed it.
KeyHeld ==
    \A c \in Consumers : pc[c] \in {"work", "evict"} => EventOf(c) \in keys

\* Effects are excused unless the key is there and its claim is settled.
EffectsExcused ==
    \A e \in Events :
        /\ effects[e] <= 1 + excuses[e]
        /\ e \notin keys => effects[e] <= excuses[e]
        /\ \A c \in Consumers : Handling(c, e) => effects[e] <= excuses[e]

Inv == KeyHeld /\ OneHandlerPerEvent /\ EffectsExcused

-----------------------------------------------------------------------------
(* Type correctness                                                        *)

\* A message in flight is in the log, so it carries an event.
LEMMA EventOfType ==
    ASSUME TypeOK, NEW c \in Consumers,
           pc[c] \in {"claim", "work", "evict", "return"}
    PROVE  EventOf(c) \in Events
  <1>1. /\ msg[c].part \in Partitions
        /\ msg[c].offset \in Nat
        /\ msg[c].offset < Len(Log[msg[c].part])
    BY DEF TypeOK, Messages
  <1>2. Log[msg[c].part] \in Seq(Events)
    BY <1>1, ConsumerAssumption
  <1>3. msg[c].offset + 1 \in 1 .. Len(Log[msg[c].part])
    BY <1>1, <1>2
  <1>4. QED
    BY <1>2, <1>3 DEF EventOf

LEMMA SpendType ==
    ASSUME TypeOK, NEW kind \in FaultKinds, Spend(kind)
    PROVE  budget' \in [FaultKinds -> Nat]
  BY DEF Spend, TypeOK

\* The handlers under way are at work on events.
LEMMA RegroupType ==
    ASSUME TypeOK, Regroup
    PROVE  /\ owner' \in [Partitions -> Consumers \cup {Nobody}]
           /\ cut' \subseteq Events
  <1>1. \A c \in Consumers : InFlight(c) => EventOf(c) \in Events
    BY EventOfType DEF InFlight
  <1>2. QED
    BY <1>1 DEF Regroup, TypeOK

LEMMA InitTypeOK == Init => TypeOK
  <1> SUFFICES ASSUME Init PROVE TypeOK
    OBVIOUS
  <1>1. \A pt \in Partitions : Len(Log[pt]) \in Nat
    BY ConsumerAssumption
  <1>2. QED
    BY <1>1, ConsumerAssumption DEF Init, TypeOK, Offsets

LEMMA TypeStep == TypeOK /\ [Next]_vars => TypeOK'
  <1> SUFFICES ASSUME TypeOK, [Next]_vars PROVE TypeOK'
    OBVIOUS
  <1>0. \A pt \in Partitions : Len(Log[pt]) \in Nat
    BY ConsumerAssumption
  <1>1. ASSUME NEW c \in Consumers, NEW pt \in Partitions, Assign(c, pt)
        PROVE  TypeOK'
    BY <1>1 DEF Assign, TypeOK
  <1>2. ASSUME Rebalance PROVE TypeOK'
    <2>1. budget' \in [FaultKinds -> Nat]
      BY <1>2, SpendType DEF Rebalance, FaultKinds
    <2>2. QED
      BY <1>2, <2>1, RegroupType DEF Rebalance, TypeOK
  <1>3. ASSUME NEW c \in Consumers, NEW pt \in Partitions, Deliver(c, pt)
        PROVE  TypeOK'
    <2> DEFINE m == [part |-> pt, offset |-> position[pt]]
    <2>1. m \in Messages /\ m.part = pt /\ m.offset = position[pt]
      BY DEF Messages, TypeOK
    <2>2. /\ msg' = [msg EXCEPT ![c] = m]
          /\ position[pt] < Len(Log[pt])
      BY <1>3 DEF Deliver
    <2> HIDE DEF m
    <2>3. QED
      BY <1>3, <2>1, <2>2 DEF Deliver, Goto, TypeOK, kafkaVars
  <1>4. ASSUME NEW c \in Consumers, NEW pt \in Partitions, CommitOffset(c, pt)
        PROVE  TypeOK'
    BY <1>4 DEF CommitOffset, TypeOK
  <1>5. ASSUME NEW c \in Consumers, Claim(c) PROVE TypeOK'
    BY <1>5, EventOfType DEF Claim, Goto, TypeOK, kafkaVars
  <1>6. ASSUME NEW c \in Consumers, Skip(c) PROVE TypeOK'
    BY <1>6 DEF Skip, Goto, TypeOK, kafkaVars
  <1>7. ASSUME NEW c \in Consumers, ClaimReplyLost(c) PROVE TypeOK'
    <2>1. budget' \in [FaultKinds -> Nat]
      BY <1>7, SpendType DEF ClaimReplyLost, FaultKinds
    <2>2. QED
      BY <1>7, <2>1, EventOfType DEF ClaimReplyLost, Goto, TypeOK, kafkaVars
  <1>8. ASSUME NEW c \in Consumers, Work(c) PROVE TypeOK'
    BY <1>8, EventOfType DEF Work, Goto, TypeOK, kafkaVars
  <1>9. ASSUME NEW c \in Consumers, WorkFails(c) PROVE TypeOK'
    <2>1. budget' \in [FaultKinds -> Nat]
      BY <1>9, SpendType DEF WorkFails, FaultKinds
    <2>2. QED
      BY <1>9, <2>1 DEF WorkFails, Goto, TypeOK, kafkaVars
  <1>10. ASSUME NEW c \in Consumers, WriteUnknown(c) PROVE TypeOK'
    <2>1. budget' \in [FaultKinds -> Nat]
      BY <1>10, SpendType DEF WriteUnknown, FaultKinds
    <2>2. QED
      BY <1>10, <2>1, EventOfType DEF WriteUnknown, Goto, TypeOK, kafkaVars
  <1>11. ASSUME NEW c \in Consumers, Evict(c) PROVE TypeOK'
    BY <1>11 DEF Evict, Finish, Goto, TypeOK, kafkaVars
  <1>12. ASSUME NEW c \in Consumers, EvictFails(c) PROVE TypeOK'
    <2>1. budget' \in [FaultKinds -> Nat]
      BY <1>12, SpendType DEF EvictFails, FaultKinds
    <2>2. QED
      BY <1>12, <2>1, EventOfType DEF EvictFails, Finish, Goto, TypeOK, kafkaVars
  <1>13. ASSUME NEW c \in Consumers, Return(c) PROVE TypeOK'
    <2>1. /\ msg[c].part \in Partitions /\ msg[c].offset \in Nat
          /\ msg[c].offset < Len(Log[msg[c].part])
      BY <1>13 DEF Return, TypeOK, Messages
    <2>2. /\ position' \in [Partitions -> Nat]
          /\ \A pt \in Partitions : position'[pt] \in Offsets(pt)
      BY <1>0, <1>13, <2>1 DEF Return, TypeOK, Offsets
    <2>3. QED
      BY <1>13, <2>2 DEF Return, Finish, Goto, TypeOK
  <1>14. ASSUME NEW c \in Consumers, Crash(c) PROVE TypeOK'
    <2>1. budget' \in [FaultKinds -> Nat]
      BY <1>14, SpendType DEF Crash, FaultKinds
    <2>2. QED
      BY <1>14, <2>1, RegroupType DEF Crash, Goto, TypeOK
  <1>15. ASSUME NEW c \in Consumers, Restart(c) PROVE TypeOK'
    BY <1>15, RegroupType DEF Restart, Goto, TypeOK
  <1>16. ASSUME NEW e \in Events, Expire(e) PROVE TypeOK'
    <2>1. budget' \in [FaultKinds -> Nat]
      BY <1>16, SpendType DEF Expire, FaultKinds
    <2>2. QED
      BY <1>16, <2>1 DEF Expire, TypeOK, kafkaVars
  <1>17. CASE UNCHANGED vars
    BY <1>17 DEF vars, TypeOK
  <1>18. QED
    BY <1>1, <1>2, <1>3, <1>4, <1>5, <1>6, <1>7, <1>8, <1>9, <1>10, <1>11,
       <1>12, <1>13, <1>14, <1>15, <1>16, <1>17
    DEF Next, HandlerStep, FetchStep, FaultStep

\* Every variable keeps its type, and every message in flight and every
\* offset is in the log.
THEOREM TypeCorrect == Spec => []TypeOK
  BY InitTypeOK, TypeStep, PTL DEF Spec

-----------------------------------------------------------------------------
(* The inductive invariant                                                 *)

LEMMA InitInv == Init => Inv
  BY DEF Init, Inv, KeyHeld, OneHandlerPerEvent, EffectsExcused, Handling

\* A step that neither starts a handler nor touches keys or effects.
LEMMA FewerHandlers ==
    ASSUME TypeOK, Inv, UNCHANGED <<keys, effects, excuses>>,
           \A d \in Consumers :
               \/ pc'[d] \notin {"work", "evict"}
               \/ /\ pc[d] \in {"work", "evict"}
                  /\ UNCHANGED msg[d]
    PROVE  Inv'
  <1>1. \A d \in Consumers : pc'[d] \in {"work", "evict"} =>
            pc[d] \in {"work", "evict"} /\ EventOf(d)' = EventOf(d)
    BY DEF EventOf
  <1>2. \A d \in Consumers, e \in Events : Handling(d, e)' => Handling(d, e)
    BY <1>1 DEF Handling
  <1>3. KeyHeld'
    BY <1>1 DEF Inv, KeyHeld
  <1>4. OneHandlerPerEvent'
    BY <1>2 DEF Inv, OneHandlerPerEvent
  <1>5. EffectsExcused'
    BY <1>2 DEF Inv, EffectsExcused
  <1>6. QED
    BY <1>3, <1>4, <1>5 DEF Inv

LEMMA ClaimKeepsInv ==
    ASSUME TypeOK, Inv, NEW c \in Consumers, Claim(c)
    PROVE  Inv'
  <1>1. PICK e \in Events : e = EventOf(c)
    BY EventOfType DEF Claim
  <1>2. /\ e \notin keys /\ keys' = keys \cup {e}
        /\ pc' = [pc EXCEPT ![c] = "work"]
        /\ UNCHANGED <<msg, effects, excuses>>
    BY <1>1 DEF Claim, Goto
  <1>3. \A d \in Consumers : EventOf(d)' = EventOf(d)
    BY <1>2 DEF EventOf
  <1>4. \A d \in Consumers, f \in Events :
            Handling(d, f)' <=> Handling(d, f) \/ (d = c /\ f = e)
    BY <1>1, <1>2, <1>3 DEF Handling, TypeOK, Claim
  <1>5. \A d \in Consumers : ~Handling(d, e)
    BY <1>1, <1>2 DEF Inv, KeyHeld, Handling
  <1>6. KeyHeld'
    BY <1>1, <1>2, <1>3 DEF Inv, KeyHeld, TypeOK
  <1>7. OneHandlerPerEvent'
    BY <1>4, <1>5 DEF Inv, OneHandlerPerEvent
  <1>8. EffectsExcused'
    BY <1>2, <1>4 DEF Inv, EffectsExcused
  <1>9. QED
    BY <1>6, <1>7, <1>8 DEF Inv

\* The claim whose answer is lost sets the key and no handler follows.
LEMMA ClaimReplyLostKeepsInv ==
    ASSUME TypeOK, Inv, NEW c \in Consumers, ClaimReplyLost(c)
    PROVE  Inv'
  <1>1. /\ pc' = [pc EXCEPT ![c] = "return"]
        /\ keys \subseteq keys'
        /\ UNCHANGED <<msg, effects, excuses>>
    BY DEF ClaimReplyLost, Goto
  <1>2. \A d \in Consumers : EventOf(d)' = EventOf(d)
    BY <1>1 DEF EventOf
  <1>3. \A d \in Consumers, f \in Events : Handling(d, f)' => Handling(d, f)
    BY <1>1, <1>2 DEF Handling, TypeOK
  <1>4. KeyHeld'
    BY <1>1, <1>2 DEF Inv, KeyHeld, TypeOK
  <1>5. OneHandlerPerEvent'
    BY <1>3 DEF Inv, OneHandlerPerEvent
  <1>6. EffectsExcused'
    BY <1>1, <1>3 DEF Inv, EffectsExcused
  <1>7. QED
    BY <1>4, <1>5, <1>6 DEF Inv

LEMMA WorkKeepsInv ==
    ASSUME TypeOK, Inv, NEW c \in Consumers, Work(c)
    PROVE  Inv'
  <1>1. PICK e \in Events : e = EventOf(c)
    BY EventOfType DEF Work
  <1>2. /\ pc[c] = "work" /\ pc' = [pc EXCEPT ![c] = "return"]
        /\ effects' = [effects EXCEPT ![e] = @ + 1]
        /\ UNCHANGED <<msg, keys, excuses>>
    BY <1>1 DEF Work, Goto
  <1>3. \A d \in Consumers : EventOf(d)' = EventOf(d)
    BY <1>2 DEF EventOf
  <1>4. \A d \in Consumers, f \in Events :
            Handling(d, f)' => Handling(d, f) /\ d # c
    BY <1>2, <1>3 DEF Handling, TypeOK
  <1>5. Handling(c, e) /\ e \in keys
    BY <1>1, <1>2 DEF Handling, Inv, KeyHeld
  <1>6. effects[e] <= excuses[e] /\ effects[e] \in Nat /\ excuses[e] \in Nat
    BY <1>5 DEF Inv, EffectsExcused, TypeOK
  <1>7. \A d \in Consumers : ~Handling(d, e)'
    BY <1>4, <1>5 DEF Inv, OneHandlerPerEvent
  <1>8. effects'[e] = effects[e] + 1 /\ \A f \in Events \ {e} : effects'[f] = effects[f]
    BY <1>2 DEF TypeOK
  <1>9. KeyHeld'
    BY <1>2, <1>3 DEF Inv, KeyHeld, TypeOK
  <1>10. OneHandlerPerEvent'
    BY <1>4 DEF Inv, OneHandlerPerEvent
  <1>11. EffectsExcused'
    BY <1>2, <1>4, <1>5, <1>6, <1>7, <1>8 DEF Inv, EffectsExcused
  <1>12. QED
    BY <1>9, <1>10, <1>11 DEF Inv

LEMMA WriteUnknownKeepsInv ==
    ASSUME TypeOK, Inv, NEW c \in Consumers, WriteUnknown(c)
    PROVE  Inv'
  <1>1. PICK e \in Events : e = EventOf(c)
    BY EventOfType DEF WriteUnknown
  <1>2. /\ pc[c] = "work" /\ pc' = [pc EXCEPT ![c] = "evict"]
        /\ effects' = [effects EXCEPT ![e] = @ + 1]
        /\ excuses' = [excuses EXCEPT ![e] = @ + 1]
        /\ UNCHANGED <<msg, keys>>
    BY <1>1 DEF WriteUnknown, Goto
  <1>3. \A d \in Consumers : EventOf(d)' = EventOf(d)
    BY <1>2 DEF EventOf
  <1>4. \A d \in Consumers, f \in Events : Handling(d, f)' => Handling(d, f)
    BY <1>2, <1>3 DEF Handling, TypeOK
  <1>5. /\ effects'[e] = effects[e] + 1 /\ excuses'[e] = excuses[e] + 1
        /\ effects[e] \in Nat /\ excuses[e] \in Nat
        /\ \A f \in Events \ {e} : effects'[f] = effects[f] /\ excuses'[f] = excuses[f]
    BY <1>2 DEF TypeOK
  <1>6. KeyHeld'
    BY <1>2, <1>3 DEF Inv, KeyHeld, TypeOK
  <1>7. OneHandlerPerEvent'
    BY <1>4 DEF Inv, OneHandlerPerEvent
  <1>8. EffectsExcused'
    BY <1>2, <1>4, <1>5 DEF Inv, EffectsExcused
  <1>9. QED
    BY <1>6, <1>7, <1>8 DEF Inv

LEMMA EvictKeepsInv ==
    ASSUME TypeOK, Inv, NEW c \in Consumers, Evict(c)
    PROVE  Inv'
  <1>1. PICK e \in Events : e = EventOf(c)
    BY EventOfType DEF Evict
  <1>2. /\ pc[c] = "evict" /\ pc' = [pc EXCEPT ![c] = "idle"]
        /\ keys' = keys \ {e}
        /\ \A d \in Consumers \ {c} : msg'[d] = msg[d]
        /\ UNCHANGED <<effects, excuses>>
    BY <1>1 DEF Evict, Finish, Goto, TypeOK
  <1>3. \A d \in Consumers \ {c} : EventOf(d)' = EventOf(d)
    BY <1>2 DEF EventOf
  <1>4. \A d \in Consumers, f \in Events :
            Handling(d, f)' => Handling(d, f) /\ d # c
    BY <1>2, <1>3 DEF Handling, TypeOK
  <1>5. Handling(c, e)
    BY <1>1, <1>2 DEF Handling
  <1>6. ASSUME NEW d \in Consumers, pc'[d] \in {"work", "evict"}
        PROVE  EventOf(d)' \in keys'
    <2>1. d # c /\ pc[d] \in {"work", "evict"} /\ EventOf(d)' = EventOf(d)
      BY <1>2, <1>3, <1>6 DEF TypeOK
    <2>2. PICK f \in Events : f = EventOf(d)
      BY <2>1, EventOfType
    <2>3. f # e
      BY <1>5, <2>1, <2>2 DEF Inv, OneHandlerPerEvent, Handling
    <2>4. f \in keys
      BY <2>1, <2>2 DEF Inv, KeyHeld
    <2>5. QED
      BY <1>2, <2>1, <2>2, <2>3, <2>4
  <1>7. KeyHeld'
    BY <1>6 DEF KeyHeld
  <1>8. OneHandlerPerEvent'
    BY <1>4 DEF Inv, OneHandlerPerEvent
  <1>9. EffectsExcused'
    BY <1>2, <1>4, <1>5 DEF Inv, EffectsExcused
  <1>10. QED
    BY <1>7, <1>8, <1>9 DEF Inv

LEMMA ExpireKeepsInv ==
    ASSUME TypeOK, Inv, NEW e \in Events, Expire(e)
    PROVE  Inv'
  <1>1. /\ keys' = keys \ {e}
        /\ \A c \in Consumers : ~Handling(c, e)
        /\ UNCHANGED <<pc, msg, effects>>
        /\ excuses'[e] = excuses[e] + 1 /\ excuses[e] \in Nat /\ effects[e] \in Nat
        /\ \A f \in Events \ {e} : excuses'[f] = excuses[f]
    BY DEF Expire, TypeOK
  <1>2. \A d \in Consumers : EventOf(d)' = EventOf(d)
    BY <1>1 DEF EventOf
  <1>3. \A d \in Consumers, f \in Events : Handling(d, f)' <=> Handling(d, f)
    BY <1>1, <1>2 DEF Handling
  <1>4. KeyHeld'
    BY <1>1, <1>2 DEF Inv, KeyHeld, Handling
  <1>5. OneHandlerPerEvent'
    BY <1>3 DEF Inv, OneHandlerPerEvent
  <1>6. EffectsExcused'
    BY <1>1, <1>3 DEF Inv, EffectsExcused
  <1>7. QED
    BY <1>4, <1>5, <1>6 DEF Inv

LEMMA InvStep == TypeOK /\ Inv /\ [Next]_vars => Inv'
  <1> SUFFICES ASSUME TypeOK, Inv, [Next]_vars PROVE Inv'
    OBVIOUS
  <1>1. ASSUME NEW c \in Consumers, NEW pt \in Partitions,
               Assign(c, pt) \/ CommitOffset(c, pt)
        PROVE  Inv'
    BY <1>1, FewerHandlers DEF Assign, CommitOffset
  <1>2. ASSUME Rebalance PROVE Inv'
    BY <1>2, FewerHandlers DEF Rebalance
  <1>3. ASSUME NEW c \in Consumers, NEW pt \in Partitions, Deliver(c, pt)
        PROVE  Inv'
    BY <1>3, FewerHandlers DEF Deliver, Goto, TypeOK
  <1>4. ASSUME NEW c \in Consumers, Skip(c) \/ WorkFails(c) PROVE Inv'
    BY <1>4, FewerHandlers DEF Skip, WorkFails, Goto, TypeOK
  <1>5. ASSUME NEW c \in Consumers, EvictFails(c) \/ Return(c) PROVE Inv'
    BY <1>5, FewerHandlers DEF EvictFails, Return, Finish, Goto, TypeOK
  <1>6. ASSUME NEW c \in Consumers, Crash(c) \/ Restart(c) PROVE Inv'
    BY <1>6, FewerHandlers DEF Crash, Restart, Goto, TypeOK
  <1>7. CASE UNCHANGED vars
    BY <1>7, FewerHandlers DEF vars, TypeOK
  <1>8. QED
    BY <1>1, <1>2, <1>3, <1>4, <1>5, <1>6, <1>7, ClaimKeepsInv,
       ClaimReplyLostKeepsInv, WorkKeepsInv, WriteUnknownKeepsInv,
       EvictKeepsInv, ExpireKeepsInv
    DEF Next, HandlerStep, FetchStep, FaultStep

LEMMA Invariance == Spec => [](TypeOK /\ Inv)
  BY InitTypeOK, InitInv, TypeStep, InvStep, PTL DEF Spec

\* No crash, rebalance or lost answer lets two consumers work on one event.
THEOREM HandlersExclude == Spec => []OneHandlerPerEvent
  <1>1. Inv => OneHandlerPerEvent
    BY DEF Inv
  <1>2. QED
    BY <1>1, Invariance, PTL

\* An event has one effect, and one more for each excused lapse of its key.
THEOREM EffectsAreBounded == Spec => []EffectsBounded
  <1>1. Inv => EffectsBounded
    BY DEF Inv, EffectsExcused, EffectsBounded
  <1>2. QED
    BY <1>1, Invariance, PTL

-----------------------------------------------------------------------------
(* What faults lose                                                        *)

\* Who handles e still owns the partition, and the message is the one at its
\* position, so that one partition has one of them.
Fresh(e) ==
    \A c \in Consumers : InFlight(c) /\ EventOf(c) = e =>
        /\ owner[msg[c].part] = c
        /\ position[msg[c].part] = msg[c].offset

\* The key stands for a handler that is still at it.
KeySettled(e) == e \in keys => \E c \in Consumers : Handling(c, e)

\* The i-th message of pt has not been handled, and no handler that has it
\* will return.
Leaving(pt, i) ==
    \E c \in Consumers :
        pc[c] = "return" /\ msg[c].part = pt /\ msg[c].offset + 1 = i

Pending(pt, i) == position[pt] < i /\ ~Leaving(pt, i)

\* A copy of e will be handled again.
Kept(e) ==
    \E pt \in Partitions : \E i \in 1..Len(Log[pt]) :
        Log[pt][i] = e /\ Pending(pt, i)

\* The effect of e is there, or will be unless a risky fault happens.
Safe(e) == effects[e] > 0 \/ (Fresh(e) /\ KeySettled(e) /\ Kept(e))

Behind == \A pt \in Partitions : committed[pt] <= position[pt]

\* Only a risky fault cuts a handler short: a restart follows a crash.
CutHasFault ==
    OnlyWritesFailed => cut = {} /\ \A c \in Consumers : pc[c] # "down"

\* Whatever is in the log is safe unless a handler of its own was cut short.
RiskInv ==
    /\ \A e \in Events : InLog(e) /\ e \notin cut => Safe(e)
    /\ \A kind \in FaultKinds : budget[kind] <= Budget[kind]
    /\ CutHasFault

LEMMA BehindStep == TypeOK /\ Behind /\ [Next]_vars => Behind'
  <1> SUFFICES ASSUME TypeOK, Behind, [Next]_vars PROVE Behind'
    OBVIOUS
  <1>1. CASE UNCHANGED <<position, committed>>
    BY <1>1 DEF Behind
  <1>2. \A pt \in Partitions :
            /\ position[pt] \in Nat /\ committed[pt] \in Nat
            /\ committed[pt] <= position[pt]
    BY DEF TypeOK, Behind
  <1>3. ASSUME NEW c \in Consumers, NEW pt \in Partitions,
               Assign(c, pt) \/ CommitOffset(c, pt)
        PROVE  Behind'
    <2>1. CASE Assign(c, pt)
      BY <1>2, <2>1 DEF Assign, TypeOK, Behind
    <2>2. CASE CommitOffset(c, pt)
      <3>1. /\ position' = position
            /\ committed' = [committed EXCEPT ![pt] = position[pt]]
        BY <2>2 DEF CommitOffset
      <3>2. \A q \in Partitions : committed'[q] \in {committed[q], position[q]}
        BY <3>1 DEF TypeOK
      <3>3. QED
        BY <1>2, <3>1, <3>2 DEF Behind
    <2>3. QED
      BY <1>3, <2>1, <2>2
  <1>4. ASSUME NEW c \in Consumers, Return(c) PROVE Behind'
    <2>1. /\ committed' = committed
          /\ \/ position' = position
             \/ position' = [position EXCEPT ![msg[c].part] = position[msg[c].part] + 1]
      BY <1>4 DEF Return
    <2>2. \A pt \in Partitions : position'[pt] \in {position[pt], position[pt] + 1}
      BY <2>1 DEF TypeOK
    <2>3. QED
      BY <1>2, <2>1, <2>2 DEF Behind
  <1>5. QED
    BY <1>1, <1>3, <1>4
    DEF Next, HandlerStep, FetchStep, FaultStep, vars, kafkaVars, Claim, Skip, Work,
        Evict, Deliver, ClaimReplyLost, WorkFails, WriteUnknown, EvictFails, Crash,
        Restart, Rebalance, Expire

\* A step of handlers leaves their messages where they are.
LEMMA FreshStays ==
    ASSUME NEW e, Fresh(e), UNCHANGED <<owner, position>>,
           \A d \in Consumers : InFlight(d)' => InFlight(d) /\ UNCHANGED msg[d]
    PROVE  Fresh(e)'
  BY DEF Fresh, EventOf

\* A step that moves no position forward and lets nobody return for e.
LEMMA KeptStays ==
    ASSUME TypeOK, NEW e, Kept(e),
           \A pt \in Partitions :
               position'[pt] \in Nat /\ position'[pt] <= position[pt],
           \A d \in Consumers : pc'[d] = "return" =>
               \/ pc[d] = "return" /\ UNCHANGED msg[d]
               \/ EventOf(d)' # e
    PROVE  Kept(e)'
  <1>1. PICK pt \in Partitions : \E i \in 1..Len(Log[pt]) :
            Log[pt][i] = e /\ Pending(pt, i)
    BY DEF Kept
  <1>2. PICK i \in 1..Len(Log[pt]) : Log[pt][i] = e /\ Pending(pt, i)
    BY <1>1
  <1>3. position[pt] \in Nat /\ position[pt] < i /\ i \in Nat /\ ~Leaving(pt, i)
    BY <1>2 DEF Pending, TypeOK
  <1>4. position'[pt] < i
    BY <1>3
  <1>5. ~Leaving(pt, i)'
    BY <1>2, <1>3 DEF Leaving, EventOf
  <1>6. Pending(pt, i)'
    BY <1>4, <1>5 DEF Pending
  <1>7. QED
    BY <1>2, <1>6 DEF Kept

\* A duplicate may be returned while another handler has a copy of its own.
LEMMA DuplicateKept ==
    ASSUME TypeOK, NEW e, Fresh(e), NEW c \in Consumers, NEW d \in Consumers,
           InFlight(c), EventOf(c) = e, d # c, Handling(d, e),
           pc' = [pc EXCEPT ![c] = "return"], UNCHANGED <<msg, position>>
    PROVE  Kept(e)'
  <1>1. PICK pt \in Partitions : pt = msg[d].part
    BY DEF Handling, TypeOK, Messages
  <1>2. Log[pt] \in Seq(Events)
    BY ConsumerAssumption
  <1>3. PICK i \in 1..Len(Log[pt]) : i = msg[d].offset + 1
    <2>1. /\ msg[d].offset \in Nat /\ Len(Log[pt]) \in Nat
          /\ msg[d].offset < Len(Log[pt])
      BY <1>1, <1>2 DEF Handling, TypeOK, Messages
    <2>2. msg[d].offset + 1 \in 1..Len(Log[pt])
      BY <2>1
    <2>3. QED
      BY <2>2
  <1>4. /\ InFlight(d) /\ pc[d] # "return" /\ Log[pt][i] = e
        /\ msg[d].offset \in Nat
    BY <1>1, <1>3 DEF Handling, InFlight, TypeOK, Messages, EventOf
  <1>5. owner[pt] = d /\ position[pt] = msg[d].offset
    BY <1>1, <1>4 DEF Fresh, Handling
  <1>6. msg[c].part # pt
    BY <1>5 DEF Fresh
  <1>7. ASSUME NEW b \in Consumers, pc'[b] = "return", msg[b].part = pt,
               msg[b].offset + 1 = i
        PROVE  FALSE
    <2>1. b # c /\ pc[b] = "return"
      BY <1>6, <1>7 DEF TypeOK
    <2>2. InFlight(b) /\ EventOf(b) = e
      BY <1>4, <1>7, <2>1 DEF InFlight, EventOf
    <2>3. b = d
      BY <1>5, <1>7, <2>2 DEF Fresh
    <2>4. QED
      BY <1>4, <2>1, <2>3
  <1>8. ~Leaving(pt, i)'
    BY <1>7 DEF Leaving
  <1>9. position'[pt] < i
    BY <1>3, <1>4, <1>5
  <1>10. QED
    BY <1>4, <1>8, <1>9 DEF Kept, Pending

\* A claim, a refused write and an eviction: nobody returns, and the key of an
\* event has its handler.
LEMMA KeySafe ==
    ASSUME TypeOK, NEW e \in Events, Safe(e), NEW c \in Consumers,
           Claim(c) \/ WorkFails(c) \/ Evict(c)
    PROVE  Safe(e)'
  <1>1. UNCHANGED <<owner, position, effects>>
    BY DEF Claim, WorkFails, Evict, kafkaVars
  <1>2. /\ InFlight(c)
        /\ pc'[c] \in {"work", "evict", "idle"}
        /\ pc'[c] # "idle" => UNCHANGED msg[c]
        /\ \A d \in Consumers \ {c} : pc'[d] = pc[d] /\ msg'[d] = msg[d]
    BY DEF Claim, WorkFails, Evict, Finish, Goto, TypeOK, InFlight
  <1>3. ASSUME Fresh(e) PROVE Fresh(e)'
    BY <1>1, <1>2, <1>3, FreshStays DEF InFlight
  <1>4. ASSUME Kept(e) PROVE Kept(e)'
    <2>1. \A pt \in Partitions : position'[pt] \in Nat /\ position'[pt] <= position[pt]
      BY <1>1 DEF TypeOK
    <2>2. \A d \in Consumers :
              pc'[d] = "return" => pc[d] = "return" /\ UNCHANGED msg[d]
      BY <1>2
    <2>3. QED
      BY <1>4, <2>1, <2>2, KeptStays
  <1>5. \A d \in Consumers \ {c} : Handling(d, e) => Handling(d, e)'
    BY <1>2 DEF Handling, EventOf
  <1>6. ASSUME KeySettled(e) PROVE KeySettled(e)'
    <2>1. CASE Claim(c)
      <3>1. /\ ~Handling(c, e) /\ keys' = keys \cup {EventOf(c)}
            /\ pc'[c] = "work" /\ msg' = msg
        BY <2>1 DEF Claim, Goto, Handling, TypeOK
      <3>2. e = EventOf(c) => Handling(c, e)'
        BY <3>1 DEF Handling, EventOf
      <3>3. QED
        BY <1>5, <1>6, <3>1, <3>2 DEF KeySettled
    <2>2. CASE WorkFails(c)
      <3>1. keys' = keys /\ (Handling(c, e) => Handling(c, e)')
        BY <2>2 DEF WorkFails, Goto, Handling, EventOf, TypeOK
      <3>2. QED
        BY <1>5, <1>6, <3>1 DEF KeySettled
    <2>3. CASE Evict(c)
      <3>1. keys' = keys \ {EventOf(c)}
        BY <2>3 DEF Evict
      <3>2. CASE e = EventOf(c)
        BY <3>1, <3>2 DEF KeySettled
      <3>3. CASE e # EventOf(c)
        <4>1. ~Handling(c, e)
          BY <3>3 DEF Handling
        <4>2. QED
          BY <1>5, <1>6, <3>1, <4>1 DEF KeySettled
      <3>4. QED
        BY <3>2, <3>3
    <2>4. QED
      BY <2>1, <2>2, <2>3
  <1>7. QED
    BY <1>1, <1>3, <1>4, <1>6 DEF Safe

LEMMA SkipSafe ==
    ASSUME TypeOK, NEW e \in Events, Safe(e), NEW c \in Consumers, Skip(c)
    PROVE  Safe(e)'
  <1>1. /\ pc[c] = "claim" /\ pc' = [pc EXCEPT ![c] = "return"]
        /\ EventOf(c) \in keys
        /\ UNCHANGED <<owner, position, msg, keys, effects>>
    BY DEF Skip, Goto, kafkaVars
  <1>2. CASE effects[e] > 0
    BY <1>1, <1>2 DEF Safe
  <1>3. CASE Fresh(e) /\ KeySettled(e) /\ Kept(e)
    <2>1. Fresh(e)'
      BY <1>1, <1>3, FreshStays DEF InFlight, TypeOK
    <2>2. \A d \in Consumers : Handling(d, e) => Handling(d, e)'
      BY <1>1 DEF Handling, EventOf, TypeOK
    <2>3. KeySettled(e)'
      BY <1>1, <1>3, <2>2 DEF KeySettled
    <2>4. CASE EventOf(c) # e
      <3>1. \A d \in Consumers : pc'[d] = "return" =>
                (pc[d] = "return" /\ UNCHANGED msg[d]) \/ EventOf(d)' # e
        BY <1>1, <2>4 DEF TypeOK, EventOf
      <3>2. \A pt \in Partitions :
                position'[pt] \in Nat /\ position'[pt] <= position[pt]
        BY <1>1 DEF TypeOK
      <3>3. Kept(e)'
        BY <1>3, <3>1, <3>2, KeptStays
      <3>4. QED
        BY <2>1, <2>3, <3>3 DEF Safe
    <2>5. CASE EventOf(c) = e
      <3>1. PICK d \in Consumers : Handling(d, e)
        BY <1>1, <1>3, <2>5 DEF KeySettled
      <3>2. d # c /\ InFlight(c)
        BY <1>1, <3>1 DEF Handling, InFlight
      <3>3. Kept(e)'
        BY <1>1, <1>3, <2>5, <3>1, <3>2, DuplicateKept
      <3>4. QED
        BY <2>1, <2>3, <3>3 DEF Safe
    <2>6. QED
      BY <2>4, <2>5
  <1>4. QED
    BY <1>2, <1>3 DEF Safe

\* A write makes its own event safe and is nothing to the others.
LEMMA WorkSafe ==
    ASSUME TypeOK, NEW e \in Events, Safe(e), NEW c \in Consumers,
           Work(c) \/ WriteUnknown(c)
    PROVE  Safe(e)'
  <1>1. PICK f \in Events : f = EventOf(c)
    BY EventOfType DEF Work, WriteUnknown
  <1>2. /\ pc[c] = "work" /\ pc'[c] \in {"return", "evict"}
        /\ \A d \in Consumers \ {c} : pc'[d] = pc[d]
        /\ effects' = [effects EXCEPT ![f] = effects[f] + 1]
        /\ UNCHANGED <<owner, position, msg, keys>>
    BY <1>1 DEF Work, WriteUnknown, Goto, kafkaVars, TypeOK
  <1>3. CASE e = f \/ effects[e] > 0
    BY <1>2, <1>3 DEF Safe, TypeOK
  <1>4. CASE e # f /\ Fresh(e) /\ KeySettled(e) /\ Kept(e)
    <2>1. Fresh(e)'
      BY <1>2, <1>4, FreshStays DEF InFlight
    <2>2. \A d \in Consumers : Handling(d, e) => Handling(d, e)'
      BY <1>1, <1>2, <1>4 DEF Handling, EventOf
    <2>3. KeySettled(e)'
      BY <1>2, <1>4, <2>2 DEF KeySettled
    <2>4. \A d \in Consumers : pc'[d] = "return" =>
              (pc[d] = "return" /\ UNCHANGED msg[d]) \/ EventOf(d)' # e
      BY <1>1, <1>2, <1>4 DEF EventOf
    <2>5. \A pt \in Partitions : position'[pt] \in Nat /\ position'[pt] <= position[pt]
      BY <1>2 DEF TypeOK
    <2>6. Kept(e)'
      BY <1>4, <2>4, <2>5, KeptStays
    <2>7. QED
      BY <2>1, <2>3, <2>6 DEF Safe
  <1>5. QED
    BY <1>3, <1>4 DEF Safe

\* A returning handler moves its partition past its own message only.
LEMMA ReturnSafe ==
    ASSUME TypeOK, NEW e \in Events, Safe(e), NEW c \in Consumers, Return(c)
    PROVE  Safe(e)'
  <1>1. PICK p \in Partitions : p = msg[c].part
    BY DEF Return, TypeOK, Messages
  <1>2. /\ pc[c] = "return" /\ pc' = [pc EXCEPT ![c] = "idle"]
        /\ msg' = [msg EXCEPT ![c] = NoMsg]
        /\ UNCHANGED <<owner, keys, effects>>
        /\ msg[c].offset \in Nat
    BY DEF Return, Finish, Goto, TypeOK, Messages
  <1>3. /\ pc'[c] = "idle"
        /\ \A d \in Consumers \ {c} : pc'[d] = pc[d] /\ msg'[d] = msg[d]
    BY <1>2 DEF TypeOK
  <1>4. CASE effects[e] > 0
    BY <1>2, <1>4 DEF Safe
  <1>5. CASE Fresh(e) /\ KeySettled(e) /\ Kept(e)
    <2>1. KeySettled(e)'
      <3>1. \A d \in Consumers : Handling(d, e) => Handling(d, e)'
        BY <1>2, <1>3 DEF Handling, EventOf
      <3>2. QED
        BY <1>2, <1>5, <3>1 DEF KeySettled
    <2>2. CASE position' = position
      <3>1. Fresh(e)'
        BY <1>2, <1>3, <1>5, <2>2, FreshStays DEF InFlight
      <3>2. \A pt \in Partitions :
                position'[pt] \in Nat /\ position'[pt] <= position[pt]
        BY <2>2 DEF TypeOK
      <3>3. \A d \in Consumers :
                pc'[d] = "return" => pc[d] = "return" /\ UNCHANGED msg[d]
        BY <1>3
      <3>4. Kept(e)'
        BY <1>5, <3>2, <3>3, KeptStays
      <3>5. QED
        BY <2>1, <3>1, <3>4 DEF Safe
    <2>3. CASE position' # position
      <3>1. /\ owner[p] = c /\ position[p] = msg[c].offset
            /\ position' = [position EXCEPT ![p] = position[p] + 1]
        BY <1>1, <2>3 DEF Return
      <3>2. ASSUME NEW d \in Consumers, InFlight(d)', EventOf(d)' = e
            PROVE  /\ owner'[msg'[d].part] = d
                   /\ position'[msg'[d].part] = msg'[d].offset
        <4>1. d # c /\ InFlight(d) /\ msg'[d] = msg[d] /\ EventOf(d) = e
          BY <1>3, <3>2 DEF InFlight, EventOf
        <4>2. owner[msg[d].part] = d /\ position[msg[d].part] = msg[d].offset
          BY <1>5, <4>1 DEF Fresh
        <4>3. msg[d].part \in Partitions /\ msg[d].part # p
          BY <3>1, <4>1, <4>2 DEF InFlight, TypeOK, Messages
        <4>4. QED
          BY <1>2, <3>1, <4>1, <4>2, <4>3 DEF TypeOK
      <3>3. PICK q \in Partitions : \E i \in 1..Len(Log[q]) :
                Log[q][i] = e /\ Pending(q, i)
        BY <1>5 DEF Kept
      <3>4. PICK i \in 1..Len(Log[q]) : Log[q][i] = e /\ Pending(q, i)
        BY <3>3
      <3>5. position[q] \in Nat /\ position[q] < i /\ ~Leaving(q, i) /\ i \in Nat
        BY <3>4 DEF Pending, TypeOK
      <3>6. ~(q = p /\ msg[c].offset + 1 = i)
        BY <1>1, <1>2, <3>5 DEF Leaving
      <3>7. position'[q] < i
        BY <1>2, <3>1, <3>5, <3>6 DEF TypeOK
      <3>8. ~Leaving(q, i)'
        BY <1>3, <3>5 DEF Leaving
      <3>9. Fresh(e)' /\ Kept(e)'
        BY <3>2, <3>4, <3>7, <3>8 DEF Fresh, Kept, Pending
      <3>10. QED
        BY <2>1, <3>9 DEF Safe
    <2>4. QED
      BY <2>2, <2>3
  <1>6. QED
    BY <1>4, <1>5 DEF Safe

\* The group protocol never moves a position forward.
LEMMA FetchSafe ==
    ASSUME TypeOK, Behind, NEW e \in Events, Safe(e), NEW c \in Consumers, FetchStep(c)
    PROVE  Safe(e)'
  <1>1. PICK pt \in Partitions :
            Assign(c, pt) \/ Deliver(c, pt) \/ CommitOffset(c, pt)
    BY DEF FetchStep
  <1>2. UNCHANGED <<keys, effects>>
    BY <1>1 DEF Assign, Deliver, CommitOffset
  <1>3. CASE effects[e] > 0
    BY <1>2, <1>3 DEF Safe
  <1>4. CASE Fresh(e) /\ KeySettled(e) /\ Kept(e)
    <2>1. \A d \in Consumers : Handling(d, e) => Handling(d, e)'
      BY <1>1 DEF Assign, Deliver, CommitOffset, Goto, Handling, EventOf, TypeOK
    <2>2. KeySettled(e)'
      BY <1>2, <1>4, <2>1 DEF KeySettled
    <2>3. \A q \in Partitions : position'[q] \in Nat /\ position'[q] <= position[q]
      <3>1. \A q \in Partitions :
                /\ position[q] \in Nat /\ committed[q] \in Nat
                /\ committed[q] <= position[q]
        BY DEF Behind, TypeOK
      <3>2. QED
        BY <1>1, <3>1, SMTT(30) DEF Assign, Deliver, CommitOffset, kafkaVars, TypeOK
    <2>4. \A d \in Consumers :
              pc'[d] = "return" => pc[d] = "return" /\ UNCHANGED msg[d]
      BY <1>1 DEF Assign, Deliver, CommitOffset, Goto, TypeOK
    <2>5. Kept(e)'
      BY <1>4, <2>3, <2>4, KeptStays
    <2>6. Fresh(e)'
      <3>1. CASE Assign(c, pt)
        <4> SUFFICES ASSUME NEW d \in Consumers, InFlight(d)', EventOf(d)' = e
                     PROVE  /\ owner'[msg'[d].part] = d
                            /\ position'[msg'[d].part] = msg'[d].offset
          BY DEF Fresh
        <4>1. InFlight(d) /\ msg' = msg /\ EventOf(d) = e
          BY <3>1 DEF Assign, InFlight, EventOf
        <4>2. owner[msg[d].part] = d /\ position[msg[d].part] = msg[d].offset
          BY <1>4, <4>1 DEF Fresh
        <4>3. msg[d].part # pt /\ msg[d].part \in Partitions
          BY <3>1, <4>1, <4>2, ConsumerAssumption
          DEF Assign, InFlight, TypeOK, Messages
        <4>4. QED
          BY <3>1, <4>1, <4>2, <4>3 DEF Assign, TypeOK
      <3>2. CASE Deliver(c, pt)
        <4> DEFINE m == [part |-> pt, offset |-> position[pt]]
        <4>1. m.part = pt /\ m.offset = position[pt]
          OBVIOUS
        <4>2. /\ msg' = [msg EXCEPT ![c] = m] /\ owner[pt] = c
              /\ pc' = [pc EXCEPT ![c] = "claim"]
              /\ UNCHANGED <<owner, position>>
          BY <3>2 DEF Deliver, Goto, kafkaVars
        <4> HIDE DEF m
        <4>3. /\ msg'[c] = m
              /\ \A d \in Consumers \ {c} : pc'[d] = pc[d] /\ msg'[d] = msg[d]
          BY <4>2 DEF TypeOK
        <4>4. QED
          BY <1>4, <4>1, <4>2, <4>3 DEF Fresh, InFlight, EventOf
      <3>3. CASE CommitOffset(c, pt)
        BY <1>4, <3>3, FreshStays DEF CommitOffset, InFlight
      <3>4. QED
        BY <1>1, <3>1, <3>2, <3>3
    <2>7. QED
      BY <2>2, <2>5, <2>6 DEF Safe
  <1>5. QED
    BY <1>3, <1>4 DEF Safe

LEMMA QuietSafe ==
    ASSUME TypeOK, NEW e \in Events, Safe(e),
           (\E f \in Events : Expire(f)) \/ UNCHANGED vars
    PROVE  Safe(e)'
  <1>1. /\ keys' \subseteq keys
        /\ UNCHANGED <<owner, position, pc, msg, effects>>
    BY DEF Expire, vars, kafkaVars
  <1>2. KeySettled(e) => KeySettled(e)'
    BY <1>1 DEF KeySettled, Handling, EventOf
  <1>3. Fresh(e) => Fresh(e)'
    BY <1>1, FreshStays DEF InFlight
  <1>4. Kept(e) => Kept(e)'
    BY <1>1, KeptStays DEF TypeOK
  <1>5. QED
    BY <1>1, <1>2, <1>3, <1>4 DEF Safe

\* When the group rebalances, an event that nobody handles stays in the log.
LEMMA RegroupSafe ==
    ASSUME TypeOK, NEW e \in Events, Safe(e), e \notin cut',
           Rebalance \/ \E c \in Consumers : Crash(c) \/ Restart(c)
    PROVE  Safe(e)'
  <1>1. /\ Regroup
        /\ UNCHANGED <<position, keys, effects>>
    BY DEF Rebalance, Crash, Restart
  <1>2. \A d \in Consumers :
            \/ UNCHANGED <<pc[d], msg[d]>>
            \/ pc'[d] \in {"down", "idle"}
    BY DEF Rebalance, Crash, Restart, Goto, TypeOK
  <1>3. \A d \in Consumers : ~(InFlight(d) /\ EventOf(d) = e)
    BY <1>1 DEF Regroup
  <1>4. \A d \in Consumers : ~(InFlight(d)' /\ EventOf(d)' = e)
    BY <1>2, <1>3 DEF InFlight, EventOf
  <1>5. Fresh(e)'
    BY <1>4 DEF Fresh
  <1>6. KeySettled(e) => KeySettled(e)'
    BY <1>1, <1>3 DEF KeySettled, Handling, InFlight
  <1>7. ASSUME Kept(e) PROVE Kept(e)'
    <2>1. \A d \in Consumers :
              pc'[d] = "return" => pc[d] = "return" /\ UNCHANGED msg[d]
      BY <1>2
    <2>2. \A pt \in Partitions : position'[pt] \in Nat /\ position'[pt] <= position[pt]
      BY <1>1 DEF TypeOK
    <2>3. QED
      BY <1>7, <2>1, <2>2, KeptStays
  <1>8. QED
    BY <1>1, <1>5, <1>6, <1>7 DEF Safe

\* Who loses an answer or cannot evict leaves the events of others alone.
LEMMA CutShortSafe ==
    ASSUME TypeOK, NEW e \in Events, Safe(e), NEW c \in Consumers,
           ClaimReplyLost(c) \/ EvictFails(c), e \notin cut'
    PROVE  Safe(e)'
  <1>1. e # EventOf(c)
    BY DEF ClaimReplyLost, EvictFails
  <1>2. /\ UNCHANGED <<owner, position, effects>>
        /\ InFlight(c)
        /\ \A d \in Consumers \ {c} : pc'[d] = pc[d] /\ msg'[d] = msg[d]
        /\ keys' \subseteq keys \cup {EventOf(c)}
    BY DEF ClaimReplyLost, EvictFails, Finish, Goto, kafkaVars, TypeOK, InFlight
  <1>3. \/ pc'[c] = "idle"
        \/ pc'[c] = "return" /\ UNCHANGED msg[c]
    BY DEF ClaimReplyLost, EvictFails, Finish, Goto, TypeOK
  <1>4. \A d \in Consumers : Handling(d, e) => Handling(d, e)'
    BY <1>1, <1>2 DEF Handling, EventOf
  <1>5. KeySettled(e) => KeySettled(e)'
    BY <1>1, <1>2, <1>4 DEF KeySettled
  <1>6. Fresh(e) => Fresh(e)'
    BY <1>2, <1>3, FreshStays DEF InFlight
  <1>7. ASSUME Kept(e) PROVE Kept(e)'
    <2>1. \A d \in Consumers : pc'[d] = "return" =>
              (pc[d] = "return" /\ UNCHANGED msg[d]) \/ EventOf(d)' # e
      BY <1>1, <1>2, <1>3 DEF EventOf
    <2>2. \A pt \in Partitions : position'[pt] \in Nat /\ position'[pt] <= position[pt]
      BY <1>2 DEF TypeOK
    <2>3. QED
      BY <1>7, <2>1, <2>2, KeptStays
  <1>8. QED
    BY <1>2, <1>5, <1>6, <1>7 DEF Safe

LEMMA CutGrows == [Next]_vars => cut \subseteq cut'
  BY DEF Next, HandlerStep, FetchStep, FaultStep, vars, kafkaVars, Claim, Skip, Work,
         Evict, Return, Assign, Deliver, CommitOffset, ClaimReplyLost, WorkFails,
         WriteUnknown, EvictFails, Crash, Restart, Rebalance, Regroup, Expire

\* No step takes the safety of an event that it does not cut short.
LEMMA SafeStep ==
    ASSUME TypeOK, Behind, [Next]_vars, NEW e \in Events, Safe(e), e \notin cut'
    PROVE  Safe(e)'
  BY KeySafe, SkipSafe, WorkSafe, ReturnSafe, FetchSafe, QuietSafe, RegroupSafe,
     CutShortSafe
  DEF Next, HandlerStep, FaultStep

LEMMA BudgetStep ==
    ASSUME TypeOK, RiskInv, [Next]_vars
    PROVE  /\ \A kind \in FaultKinds : budget'[kind] <= budget[kind]
           /\ \A kind \in FaultKinds : budget'[kind] <= Budget[kind]
  <1>1. \A kind \in FaultKinds :
            /\ budget[kind] \in Nat /\ Budget[kind] \in Nat
            /\ budget[kind] <= Budget[kind]
    BY ConsumerAssumption DEF TypeOK, RiskInv
  <1>2. CASE UNCHANGED budget
    BY <1>1, <1>2
  <1>3. CASE \E kind \in FaultKinds : Spend(kind)
    BY <1>1, <1>3 DEF Spend, TypeOK
  <1>4. QED
    BY <1>2, <1>3
    DEF Next, HandlerStep, FetchStep, FaultStep, vars, Claim, Skip, Work, Evict,
        Return, Assign, Deliver, CommitOffset, ClaimReplyLost, WorkFails,
        WriteUnknown, EvictFails, Crash, Restart, Rebalance, Expire, FaultKinds

LEMMA CutHasFaultStep ==
    ASSUME TypeOK, RiskInv, [Next]_vars
    PROVE  CutHasFault'
  <1> SUFFICES ASSUME OnlyWritesFailed'
               PROVE  cut' = {} /\ \A c \in Consumers : pc'[c] # "down"
    BY DEF CutHasFault
  <1>1. \A kind \in RiskyFaults :
            /\ budget[kind] \in Nat /\ Budget[kind] \in Nat
            /\ budget[kind] <= Budget[kind] /\ budget'[kind] <= budget[kind]
            /\ budget'[kind] = Budget[kind]
    BY ConsumerAssumption, BudgetStep
    DEF TypeOK, RiskInv, OnlyWritesFailed, RiskyFaults, FaultKinds
  <1>2. OnlyWritesFailed
    BY <1>1 DEF OnlyWritesFailed
  <1>3. cut = {} /\ \A c \in Consumers : pc[c] # "down"
    BY <1>2 DEF RiskInv, CutHasFault
  <1>4. \A kind \in RiskyFaults : ~Spend(kind)
    BY <1>1 DEF Spend, TypeOK, RiskyFaults, FaultKinds
  <1>5. ~Rebalance /\ \A c \in Consumers :
            ~ClaimReplyLost(c) /\ ~EvictFails(c) /\ ~Crash(c) /\ ~Restart(c)
    BY <1>3, <1>4 DEF Rebalance, ClaimReplyLost, EvictFails, Crash, Restart, RiskyFaults
  <1>6. ASSUME NEW c \in Consumers,
               HandlerStep(c) \/ FetchStep(c) \/ WorkFails(c) \/ WriteUnknown(c)
        PROVE  cut' = cut /\ \A d \in Consumers : pc'[d] \in {pc[d], "claim", "work",
                   "evict", "return", "idle"}
    BY <1>6
    DEF HandlerStep, FetchStep, Claim, Skip, Work, Evict, Return, Assign, Deliver,
        CommitOffset, WorkFails, WriteUnknown, Finish, Goto, kafkaVars, TypeOK
  <1>7. CASE (\E e \in Events : Expire(e)) \/ UNCHANGED vars
    BY <1>3, <1>7 DEF Expire, vars
  <1>8. CASE \E c \in Consumers :
                 HandlerStep(c) \/ FetchStep(c) \/ WorkFails(c) \/ WriteUnknown(c)
    BY <1>3, <1>6, <1>8
  <1>9. QED
    BY <1>5, <1>7, <1>8 DEF Next, FaultStep

LEMMA InitRisk == Init => Behind /\ RiskInv
  <1> SUFFICES ASSUME Init PROVE Behind /\ RiskInv
    OBVIOUS
  <1>1. Behind
    BY DEF Init, Behind
  <1>2. ASSUME NEW e \in Events, InLog(e) PROVE Safe(e)
    <2>1. \A pt \in Partitions : \A i \in 1..Len(Log[pt]) : Pending(pt, i)
      BY DEF Init, Pending, Leaving
    <2>2. Kept(e)
      BY <1>2, <2>1 DEF Kept, InLog
    <2>3. Fresh(e) /\ KeySettled(e)
      BY DEF Init, Fresh, InFlight, KeySettled
    <2>4. QED
      BY <2>2, <2>3 DEF Safe
  <1>3. \A kind \in FaultKinds : budget[kind] <= Budget[kind]
    BY ConsumerAssumption DEF Init
  <1>4. CutHasFault
    BY DEF Init, CutHasFault
  <1>5. QED
    BY <1>1, <1>2, <1>3, <1>4 DEF RiskInv

LEMMA RiskStep == TypeOK /\ Behind /\ RiskInv /\ [Next]_vars => RiskInv'
  <1> SUFFICES ASSUME TypeOK, Behind, RiskInv, [Next]_vars PROVE RiskInv'
    OBVIOUS
  <1>1. ASSUME NEW e \in Events, InLog(e)', e \notin cut' PROVE Safe(e)'
    BY <1>1, CutGrows, SafeStep DEF RiskInv, InLog
  <1>2. QED
    BY <1>1, BudgetStep, CutHasFaultStep DEF RiskInv

LEMMA RiskInvariance == Spec => [](TypeOK /\ Behind /\ RiskInv)
  BY InitRisk, BehindStep, RiskStep, Invariance, PTL DEF Spec

\* An event is lost only if a handler of its own was under way when a process
\* died or the group rebalanced, or lost the answer to its claim, or could not
\* evict its key; everything else in the log is handled.
THEOREM OnlyCutShortIsLost == Spec => []LossesBounded
  <1>1. TypeOK /\ Behind /\ RiskInv => LossesBounded
    <2> SUFFICES ASSUME TypeOK, Behind, RiskInv, NEW e \in Events, Lost(e), e \notin cut
                 PROVE  FALSE
      BY DEF LossesBounded
    <2>1. Safe(e) /\ ~(effects[e] > 0)
      BY DEF RiskInv, Lost
    <2>2. PICK pt \in Partitions : \E i \in 1..Len(Log[pt]) :
              Log[pt][i] = e /\ Pending(pt, i)
      BY <2>1 DEF Safe, Kept
    <2>3. PICK i \in 1..Len(Log[pt]) : Log[pt][i] = e /\ Pending(pt, i)
      BY <2>2
    <2>4. i <= committed[pt] /\ committed[pt] <= position[pt] /\ i \in Nat
      BY <2>3 DEF Lost, Passed, Behind
    <2>5. committed[pt] \in Nat /\ position[pt] \in Nat
      BY DEF TypeOK
    <2>6. QED
      BY <2>3, <2>4, <2>5 DEF Pending
  <1>2. QED
    BY <1>1, RiskInvariance, PTL

\* As long as only MongoDB fails and keys expire, an event the group has passed
\* has had its effect: the eviction and the thrown error keep a copy of it
\* unresolved, whichever other copies were skipped because of its key.
THEOREM FailedWritesAreRetried == Spec => []FailedWritesLoseNothing
  <1>1. RiskInv /\ LossesBounded => FailedWritesLoseNothing
    BY DEF RiskInv, CutHasFault, LossesBounded, FailedWritesLoseNothing, NoEventLost
  <1>2. QED
    BY <1>1, RiskInvariance, OnlyCutShortIsLost, PTL

\* The claim keeps effects from being more than one, the eviction from being
\* none: together, exactly one for every event whose effect was never in doubt.
THEOREM HandledExactlyOnce == Spec => []ExactlyOnceWithoutDoubt
  <1>1. TypeOK /\ EffectsBounded /\ FailedWritesLoseNothing => ExactlyOnceWithoutDoubt
    <2> SUFFICES ASSUME TypeOK, EffectsBounded, FailedWritesLoseNothing,
                        OnlyWritesFailed, NEW e \in Events,
                        InLog(e), Passed(e), excuses[e] = 0,
                        \A c \in Consumers : ~Handling(c, e)
                 PROVE  effects[e] = 1
      BY DEF ExactlyOnceWithoutDoubt
    <2>1. effects[e] \in Nat /\ effects[e] <= 1
      BY DEF TypeOK, EffectsBounded
    <2>2. effects[e] # 0
      BY DEF FailedWritesLoseNothing, NoEventLost, Lost
    <2>3. QED
      BY <2>1, <2>2
  <1>2. QED
    BY <1>1, TypeCorrect, EffectsAreBounded, FailedWritesAreRetried, PTL

-----------------------------------------------------------------------------
(* Implementation of EventDelivery                                         *)

Mapped(f) == [g \in {"group"} |-> f]

\* One more effect (excuse) of e in the consumer is one more in the abstraction.
LEMMA MappedPlus ==
    ASSUME NEW f \in [Events -> Nat], NEW e \in Events
    PROVE  Delivery!Plus(Mapped(f), "group", e) = Mapped([f EXCEPT ![e] = @ + 1])
  BY DEF Delivery!Plus, Mapped

LEMMA EventIsInLog ==
    ASSUME TypeOK, NEW c \in Consumers, pc[c] = "work"
    PROVE  EventOf(c) \in {e \in Events : InLog(e)}
  <1>1. /\ msg[c].part \in Partitions
        /\ msg[c].offset \in Nat
        /\ msg[c].offset < Len(Log[msg[c].part])
    BY DEF TypeOK, Messages
  <1>2. Log[msg[c].part] \in Seq(Events)
    BY <1>1, ConsumerAssumption
  <1>3. msg[c].offset + 1 \in 1 .. Len(Log[msg[c].part])
    BY <1>1, <1>2
  <1>4. QED
    BY <1>1, <1>3, EventOfType DEF EventOf, InLog

LEMMA InitDelivers == Init => Delivery!Init
  BY DEF Init, Delivery!Init, Delivery!None

\* Work, and the write whose answer is lost, find the event due.
LEMMA WorkDelivers ==
    ASSUME TypeOK, Inv, NEW c \in Consumers, Work(c) \/ WriteUnknown(c)
    PROVE  Delivery!Next
  <1>1. PICK e \in Events : e = EventOf(c) /\ InLog(e)
    BY EventIsInLog DEF Work, WriteUnknown
  <1>2. Handling(c, e)
    BY <1>1 DEF Handling, Work, WriteUnknown
  <1>3. Delivery!Due("group", e)
    BY <1>1, <1>2 DEF Delivery!Due, Inv, EffectsExcused
  <1>4. effects' = [effects EXCEPT ![e] = @ + 1]
    BY <1>1 DEF Work, WriteUnknown
  <1>5. Mapped(effects') = Delivery!Plus(Mapped(effects), "group", e)
    BY <1>4, MappedPlus DEF TypeOK
  <1>6. CASE Work(c)
    <2>1. Delivery!Effect("group", e)
      BY <1>3, <1>5, <1>6 DEF Delivery!Effect, Mapped, Work
    <2>2. QED
      BY <2>1 DEF Delivery!Next
  <1>7. CASE WriteUnknown(c)
    <2>1. excuses' = [excuses EXCEPT ![e] = @ + 1]
      BY <1>1, <1>7 DEF WriteUnknown
    <2>2. Mapped(excuses') = Delivery!Plus(Mapped(excuses), "group", e)
      BY <2>1, MappedPlus DEF TypeOK
    <2>3. Delivery!DoubtfulEffect("group", e)
      BY <1>3, <1>5, <2>2 DEF Delivery!DoubtfulEffect, Mapped
    <2>4. QED
      BY <2>3 DEF Delivery!Next
  <1>8. QED
    BY <1>6, <1>7

LEMMA ExpireDelivers ==
    ASSUME TypeOK, NEW e \in Events, Expire(e)
    PROVE  Delivery!Next
  <1>1. excuses' = [excuses EXCEPT ![e] = @ + 1] /\ UNCHANGED effects
    BY DEF Expire
  <1>2. Mapped(excuses') = Delivery!Plus(Mapped(excuses), "group", e)
    BY <1>1, MappedPlus DEF TypeOK
  <1>3. Delivery!Forget("group", e)
    BY <1>1, <1>2 DEF Delivery!Forget, Mapped
  <1>4. QED
    BY <1>3 DEF Delivery!Next

\* Every other step is none of the abstraction's business.
LEMMA StepDelivers == TypeOK /\ Inv /\ [Next]_vars => [Delivery!Next]_(Delivery!vars)
  <1> SUFFICES ASSUME TypeOK, Inv, [Next]_vars
               PROVE  Delivery!Next \/ UNCHANGED Delivery!vars
    OBVIOUS
  <1>1. CASE UNCHANGED <<effects, excuses>>
    BY <1>1 DEF Delivery!vars
  <1>2. CASE \E c \in Consumers : Work(c) \/ WriteUnknown(c)
    BY <1>2, WorkDelivers
  <1>3. CASE \E e \in Events : Expire(e)
    BY <1>3, ExpireDelivers
  <1>4. QED
    BY <1>1, <1>2, <1>3
    DEF Next, vars, HandlerStep, FetchStep, FaultStep, Claim, Skip, Evict, Return,
        Assign, Deliver, CommitOffset, ClaimReplyLost, WorkFails, EvictFails,
        Crash, Restart, Rebalance

\* The consumer group implements bounded, excused delivery: the refinement that
\* lets TaskPipeline forget partitions, offsets and rebalances.
THEOREM ConsumerImplementsDelivery == Spec => ImplementsDelivery
  <1>1. TypeOK /\ Inv /\ [Next]_vars => [Delivery!Next]_(Delivery!vars)
    BY StepDelivers
  <1>2. QED
    BY <1>1, InitDelivers, Invariance, PTL DEF Spec, ImplementsDelivery, Delivery!Spec
=============================================================================
