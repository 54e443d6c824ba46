----------------------------- MODULE EventDelivery -----------------------------
(***************************************************************************)
(* What the consumers of task.created promise, without Kafka, Redis keys or*)
(* handlers: at-least-once delivery with bounded repetition.  Each group   *)
(* gives each event that was sent one effect, and another one only when it *)
(* has an excuse: an event of which the group could not know whether its   *)
(* effect was there.  EventConsumer implements this for one group,         *)
(* TaskPipeline for all of them behind the outbox.                         *)
(***************************************************************************)
EXTENDS Naturals

CONSTANTS Groups, Events

VARIABLES
    sent,       \* events that have a copy in the topic
    effects,    \* per group and event: how often it had its effect
    excuses     \* per group and event: how often that was in doubt

vars == <<sent, effects, excuses>>

None == [g \in Groups |-> [e \in Events |-> 0]]

Init ==
    /\ sent \subseteq Events
    /\ effects = None
    /\ excuses = None

Send(e) ==
    /\ sent' = sent \cup {e}
    /\ UNCHANGED <<effects, excuses>>

Plus(f, g, e) == [f EXCEPT ![g][e] = @ + 1]

Due(g, e) == e \in sent /\ effects[g][e] <= excuses[g][e]

Effect(g, e) ==
    /\ Due(g, e)
    /\ effects' = Plus(effects, g, e)
    /\ UNCHANGED <<sent, excuses>>

\* An effect whose confirmation is lost.
DoubtfulEffect(g, e) ==
    /\ Due(g, e)
    /\ effects' = Plus(effects, g, e)
    /\ excuses' = Plus(excuses, g, e)
    /\ UNCHANGED sent

\* The group forgets that it has handled e.
Forget(g, e) ==
    /\ excuses' = Plus(excuses, g, e)
    /\ UNCHANGED <<sent, effects>>

Next ==
    \E e \in Events :
        \/ Send(e)
        \/ \E g \in Groups : Effect(g, e) \/ DoubtfulEffect(g, e) \/ Forget(g, e)

Spec == Init /\ [][Next]_vars
================================================================================
