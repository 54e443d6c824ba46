--------------------------- MODULE MCRequestThrottle ---------------------------
(* Instances of RequestThrottle for TLC: three requests from one address,    *)
(* with and without tokens, and one event budget per question.               *)
EXTENDS RequestThrottle, TLC

CONSTANTS r1, r2, r3, ip, alice, bob

SameAddress == [r \in Requests |-> ip]

Mixed == (r1 :> alice) @@ (r2 :> bob) @@ (r3 :> Anonymous)

NoEvents == [k \in EventKinds |-> 0]
AllEvents == [NoEvents EXCEPT !["lapse"] = 2, !["resend"] = 1, !["crash"] = 1,
                              !["redisError"] = 1, !["outage"] = 1]
=============================================================================
