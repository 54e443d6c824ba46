---------------------------- MODULE MCCircuitBreaker ----------------------------
(* An instance of CircuitBreaker for TLC: one method that two requests call  *)
(* at a time and one that is called rarely.                                  *)
EXTENDS CircuitBreaker, TLC

CONSTANTS c1, c2, c3, login, deleteUser

TwoMethods == (c1 :> login) @@ (c2 :> login) @@ (c3 :> deleteUser)

Failing == (login :> 3) @@ (deleteUser :> 1)
=================================================================================
