----------------------------- MODULE MCTaskOutbox -----------------------------
(* Instances of TaskOutbox for TLC.  Replicas are interchangeable when   *)
(* they suffer equal faults, and so are create requests: the safety run uses *)
(* both symmetries, the liveness run none.                                   *)
EXTENDS TaskOutbox, TLC

CONSTANTS p1, p2

OneFaultEach == [p \in Pollers |-> 1]

FaultyFirst == [p \in Pollers |-> IF p = p1 THEN 1 ELSE 0]

Symmetry == Permutations(Tasks) \cup Permutations(Pollers)
=============================================================================
