------------------------------ MODULE EventRelay ------------------------------
(***************************************************************************)
(* What the outbox of task-service promises to the rest of the system,     *)
(* without replicas, batches, documents or retries.  An event is accepted  *)
(* once; from then on any number of copies of it may be sent; sooner or    *)
(* later the sender stops waiting, because the event was sent or because   *)
(* it gave up.  An event marked "sent" was sent.  The sender may change    *)
(* its mind between "sent" and "gaveUp", never back to "waiting".          *)
(***************************************************************************)
CONSTANT Events

VARIABLES
    mark,   \* the sender's view of each event
    sent    \* the events that have a copy in the topic

vars == <<mark, sent>>

Init ==
    /\ mark = [e \in Events |-> "absent"]
    /\ sent = {}

Accept(e) ==
    /\ mark[e] = "absent"
    /\ mark' = [mark EXCEPT ![e] = "waiting"]
    /\ UNCHANGED sent

\* Copies may go out after the mark is settled: another replica is late.
Send(e) ==
    /\ mark[e] # "absent"
    /\ sent' = sent \cup {e}
    /\ UNCHANGED mark

MarkAs(e, m) ==
    /\ m = "sent" => e \in sent
    /\ mark' = [mark EXCEPT ![e] = m]
    /\ UNCHANGED sent

Settle(e) ==
    /\ mark[e] = "waiting"
    /\ \E m \in {"sent", "gaveUp"} : MarkAs(e, m)

Remark(e) ==
    /\ mark[e] \in {"sent", "gaveUp"}
    /\ \E m \in {"sent", "gaveUp"} : MarkAs(e, m)

Next == \E e \in Events : Accept(e) \/ Send(e) \/ Settle(e) \/ Remark(e)

Spec == Init /\ [][Next]_vars

FairSpec == Spec /\ \A e \in Events : WF_vars(Settle(e))
=============================================================================
