---------------------------- MODULE MCRabbitTopology ----------------------------
(* An instance of RabbitTopology for TLC: one gateway, two consumers.        *)
EXTENDS RabbitTopology, FiniteSets, TLC

CONSTANTS g, c1, c2, m1

EachFault == ("connect" :> 2) @@ ("connection" :> 1) @@ ("crash" :> 1)
             @@ ("channel" :> 1) @@ ("noHandler" :> 2)

\* The behaviours with faults of any three kinds.  Only steps that spend a fault
\* are left out, and fairness asks for none of them but ConnectFails and
\* DeclareFails, in whose place Connect and Declare may be taken as well.
ThreeKinds == Cardinality({k \in FaultKinds : budget[k] < Budget[k]}) <= 3

ThreeKindsSpec == Init /\ [][Next /\ ThreeKinds']_vars /\ Fairness
=================================================================================
