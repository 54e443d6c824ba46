---------------------------- MODULE MCEventConsumer ----------------------------
(* Instances of EventConsumer for TLC: two partitions, one of which holds a  *)
(* second copy of event a, and one fault budget per question.                *)
EXTENDS EventConsumer, TLC

CONSTANTS a, b, pt1, pt2

TwoPartitions == (pt1 :> <<a, b>>) @@ (pt2 :> <<a>>)

NoFaults == [k \in FaultKinds |-> 0]

EachFault == [k \in FaultKinds |-> 1]

OneCrash == [NoFaults EXCEPT !["crash"] = 1]

\* The behaviours with faults of two kinds at most, whichever they are.  Only
\* steps that spend a fault are left out, and fairness asks for none of them.
TwoKinds == Cardinality({k \in FaultKinds : budget[k] < Budget[k]}) <= 2

TwoKindsSpec == Init /\ [][Next /\ TwoKinds']_vars /\ Fairness
=============================================================================
