---------------------------- MODULE MCTaskPipeline ----------------------------
(* Instances of TaskPipeline for TLC: two tasks of one user, one notifier    *)
(* and two counters.                                                         *)
EXTENDS TaskPipeline, TLC

CONSTANTS user, t1, t2, n, a1, a2

SameUser == (t1 :> user) @@ (t2 :> user)

OneOfEach == [k \in FaultKinds |-> 1]

\* The behaviours with one fault: a repeated copy, a failure or a rebalance.
OneFault == Cardinality({k \in FaultKinds : budget[k] < Budget[k]}) <= 1

\* Those with one fault of every kind, as long as t1 is the only task.
OnlyT1 == mark[t2] = "absent"

\* Only t1 is given up although a copy of it was sent; consumers do not read
\* the marks.
SureOfT2 == mark[t2] = "gaveUp" => t2 \notin sent

\* Fairness asks for no step that is left out: where t2 may not be given up, it
\* may be marked as sent.
FewFaultsSpec ==
    Init /\ [][Next /\ (OneFault \/ OnlyT1)' /\ SureOfT2']_vars /\ Fairness
===============================================================================
