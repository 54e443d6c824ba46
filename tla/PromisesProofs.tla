---------------------------- MODULE PromisesProofs ----------------------------
(***************************************************************************)
(* What follows from the two abstract specifications alone, over one topic:*)
(* EventRelay, the promise of the outbox, and EventDelivery, the promise of*)
(* the consumer groups.  TaskOutbox implements the first, EventConsumer and*)
(* TaskPipeline the second, so a replacement of the outbox or of a handler *)
(* that keeps its promise keeps what is proved here.                       *)
(***************************************************************************)
EXTENDS Naturals, TLAPS

CONSTANTS Groups, Events

VARIABLES
    mark,       \* EventRelay
    sent,       \* shared: events that have a copy in the topic
    effects,    \* EventDelivery
    excuses     \* EventDelivery

Relay == INSTANCE EventRelay
Delivery == INSTANCE EventDelivery

-----------------------------------------------------------------------------
(* The sender                                                              *)

\* The mark "sent" never precedes the first copy, and nothing is sent that was
\* not accepted.
MarksAreTrue ==
    \A e \in Events : /\ mark[e] = "sent" => e \in sent
                      /\ e \in sent => mark[e] # "absent"

RelayInv == mark \in [Events -> {"absent", "waiting", "sent", "gaveUp"}] /\ MarksAreTrue

LEMMA RelayInvariance == Relay!Spec => []RelayInv
  <1>1. Relay!Init => RelayInv
    BY DEF Relay!Init, RelayInv, MarksAreTrue
  <1>2. RelayInv /\ [Relay!Next]_(Relay!vars) => RelayInv'
    <2> SUFFICES ASSUME RelayInv, Relay!Next PROVE RelayInv'
      BY DEF Relay!vars, RelayInv, MarksAreTrue
    <2> PICK e \in Events : Relay!Accept(e) \/ Relay!Send(e) \/ Relay!Settle(e)
                            \/ Relay!Remark(e)
      BY DEF Relay!Next
    <2>1. CASE Relay!Accept(e)
      BY <2>1 DEF Relay!Accept, RelayInv, MarksAreTrue
    <2>2. CASE Relay!Send(e)
      BY <2>2 DEF Relay!Send, RelayInv, MarksAreTrue
    <2>3. CASE Relay!Settle(e) \/ Relay!Remark(e)
      BY <2>3 DEF Relay!Settle, Relay!Remark, Relay!MarkAs, RelayInv, MarksAreTrue
    <2>4. QED
      BY <2>1, <2>2, <2>3
  <1>3. QED
    BY <1>1, <1>2, PTL DEF Relay!Spec

\* An event marked as sent is in the topic: what a reader of the outbox
\* collection may rely on.
THEOREM SentMarksAreTrue == Relay!Spec => []MarksAreTrue
  <1>1. RelayInv => MarksAreTrue
    BY DEF RelayInv
  <1>2. QED
    BY <1>1, RelayInvariance, PTL

\* What the sender has settled never waits again, and a copy is never unsent.
MovesOn ==
    /\ sent \subseteq sent'
    /\ \A e \in Events :
           mark[e] \in {"sent", "gaveUp"} => mark'[e] \in {"sent", "gaveUp"}

\* A relay only moves on: the outbox has no way to send a settled event anew
\* except from a replica that still holds it.
THEOREM RelayMovesOn == Relay!Spec => [][MovesOn]_(Relay!vars)
  <1>1. RelayInv /\ [Relay!Next]_(Relay!vars) => [MovesOn]_(Relay!vars)
    <2> SUFFICES ASSUME RelayInv, Relay!Next PROVE MovesOn
      OBVIOUS
    <2> PICK e \in Events : Relay!Accept(e) \/ Relay!Send(e) \/ Relay!Settle(e)
                            \/ Relay!Remark(e)
      BY DEF Relay!Next
    <2>1. QED
      BY DEF Relay!Accept, Relay!Send, Relay!Settle, Relay!Remark, Relay!MarkAs,
             RelayInv, MovesOn
  <1>2. QED
    BY <1>1, RelayInvariance, PTL DEF Relay!Spec

-----------------------------------------------------------------------------
(* The groups                                                              *)

\* An event has one effect in a group, and another one for each excuse at most;
\* an event that was not sent has none.
EffectsAreDue ==
    \A g \in Groups, e \in Events :
        /\ effects[g][e] <= 1 + excuses[g][e]
        /\ effects[g][e] > 0 => e \in sent

DeliveryInv ==
    /\ effects \in [Groups -> [Events -> Nat]]
    /\ excuses \in [Groups -> [Events -> Nat]]
    /\ EffectsAreDue

\* f2 is f with one more for g and e.
Raised(f, f2, g, e) ==
    \A h \in Groups, d \in Events :
        f2[h][d] = IF h = g /\ d = e THEN f[h][d] + 1 ELSE f[h][d]

LEMMA PlusOne ==
    ASSUME NEW f \in [Groups -> [Events -> Nat]], NEW g \in Groups, NEW e \in Events
    PROVE  /\ Delivery!Plus(f, g, e) \in [Groups -> [Events -> Nat]]
           /\ Raised(f, Delivery!Plus(f, g, e), g, e)
  BY DEF Delivery!Plus, Raised

LEMMA DeliveryInvariance == Delivery!Spec => []DeliveryInv
  <1>1. Delivery!Init => DeliveryInv
    BY DEF Delivery!Init, Delivery!None, DeliveryInv, EffectsAreDue
  <1>2. DeliveryInv /\ [Delivery!Next]_(Delivery!vars) => DeliveryInv'
    <2> SUFFICES ASSUME DeliveryInv, Delivery!Next PROVE DeliveryInv'
      BY DEF Delivery!vars, DeliveryInv, EffectsAreDue
    <2> PICK e \in Events :
            \/ Delivery!Send(e)
            \/ \E g \in Groups : Delivery!Effect(g, e) \/ Delivery!DoubtfulEffect(g, e)
                                 \/ Delivery!Forget(g, e)
      BY DEF Delivery!Next
    <2>1. CASE Delivery!Send(e)
      BY <2>1 DEF Delivery!Send, DeliveryInv, EffectsAreDue
    <2>2. ASSUME NEW g \in Groups, Delivery!Effect(g, e) PROVE DeliveryInv'
      <3>1. Delivery!Due(g, e) /\ effects' = Delivery!Plus(effects, g, e)
            /\ UNCHANGED <<sent, excuses>>
        BY <2>2 DEF Delivery!Effect
      <3>2. QED
        <4>1. effects' \in [Groups -> [Events -> Nat]] /\ Raised(effects, effects', g, e)
          BY <3>1, PlusOne DEF DeliveryInv
        <4>2. QED
          BY <3>1, <4>1 DEF Delivery!Due, DeliveryInv, EffectsAreDue, Raised
    <2>3. ASSUME NEW g \in Groups, Delivery!DoubtfulEffect(g, e) PROVE DeliveryInv'
      <3>1. Delivery!Due(g, e) /\ effects' = Delivery!Plus(effects, g, e)
            /\ excuses' = Delivery!Plus(excuses, g, e) /\ UNCHANGED sent
        BY <2>3 DEF Delivery!DoubtfulEffect
      <3>2. QED
        <4>1. effects' \in [Groups -> [Events -> Nat]] /\ Raised(effects, effects', g, e)
          BY <3>1, PlusOne DEF DeliveryInv
        <4>2. excuses' \in [Groups -> [Events -> Nat]] /\ Raised(excuses, excuses', g, e)
          BY <3>1, PlusOne DEF DeliveryInv
        <4>3. QED
          BY <3>1, <4>1, <4>2 DEF Delivery!Due, DeliveryInv, EffectsAreDue, Raised
    <2>4. ASSUME NEW g \in Groups, Delivery!Forget(g, e) PROVE DeliveryInv'
      <3>1. excuses' = Delivery!Plus(excuses, g, e) /\ UNCHANGED <<sent, effects>>
        BY <2>4 DEF Delivery!Forget
      <3>2. QED
        <4>1. excuses' \in [Groups -> [Events -> Nat]] /\ Raised(excuses, excuses', g, e)
          BY <3>1, PlusOne DEF DeliveryInv
        <4>2. QED
          BY <3>1, <4>1 DEF DeliveryInv, EffectsAreDue, Raised
    <2>5. QED
      BY <2>1, <2>2, <2>3, <2>4
  <1>3. QED
    BY <1>1, <1>2, PTL DEF Delivery!Spec

\* The promise of the groups is the bound that EventConsumer checks for one.
THEOREM DeliveriesAreDue == Delivery!Spec => []EffectsAreDue
  <1>1. DeliveryInv => EffectsAreDue
    BY DEF DeliveryInv
  <1>2. QED
    BY <1>1, DeliveryInvariance, PTL

-----------------------------------------------------------------------------
(* Both over one topic                                                     *)

\* A group has stored, or counted, only what the sender accepted; and an event
\* of which a group has no effect yet although it is marked as sent is in the
\* topic, where the group will meet it.
EndToEnd ==
    \A g \in Groups, e \in Events :
        /\ effects[g][e] > 0 => mark[e] # "absent"
        /\ mark[e] = "sent" /\ effects[g][e] = 0 => Delivery!Due(g, e)

\* Any outbox that implements EventRelay and any groups that implement
\* EventDelivery, over the same topic, never notify or count a task that was
\* not created, and what is marked as sent stays due until it has its effect.
THEOREM PromisesCompose == Relay!Spec /\ Delivery!Spec => []EndToEnd
  <1>1. RelayInv /\ DeliveryInv => EndToEnd
    BY DEF RelayInv, MarksAreTrue, DeliveryInv, EffectsAreDue, EndToEnd, Delivery!Due
  <1>2. QED
    BY <1>1, RelayInvariance, DeliveryInvariance, PTL
===============================================================================
