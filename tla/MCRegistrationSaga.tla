-------------------------- MODULE MCRegistrationSaga --------------------------
(* Instances of RegistrationSaga for TLC: two requests, for two addresses or *)
(* for the same one, and one fault budget per question.                      *)
EXTENDS RegistrationSaga, TLC

CONSTANTS r1, r2, e1, e2

TwoEmails == (r1 :> e1) @@ (r2 :> e2)
SameEmail == (r1 :> e1) @@ (r2 :> e1)

NoFaults == [k \in FaultKinds |-> 0]

AllFaults == [k \in FaultKinds |-> 1]

OneTimeout == [NoFaults EXCEPT !["timeout"] = 1]
=============================================================================
