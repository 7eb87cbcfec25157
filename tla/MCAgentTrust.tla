----------------------------- MODULE MCAgentTrust -----------------------------
(* Instances of AgentTrust for TLC.                                          *)
EXTENDS AgentTrust, TLC

CONSTANTS p1, p2, u1, u2, t1, h1, h2

\* A rolling update on the hub's own cluster: two pods, one Secret, no token.
SameHome == p1 :> u1 @@ p2 :> u1
ServiceAccount == p1 :> SA @@ p2 :> SA

\* A remote cluster beside the hub's own.
TwoHomes == p1 :> u1 @@ p2 :> u2
MixedProof == p1 :> SA @@ p2 :> t1

HandlerSymmetry == Permutations({h1, h2})
=============================================================================
