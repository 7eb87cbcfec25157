-------------------------- MODULE MCClusterSessions --------------------------
(* Instances of ClusterSessions for TLC: who may run what. *)
EXTENDS ClusterSessions, TLC

CONSTANTS w1, w2, w3

\* Requests that reconnect, read and remove, in any order.
Consumers == [w \in Workers |-> {"reconnect", "lazy", "touch", "remove"}]

\* Everything at once.
Everyone == [w \in Workers |-> Ops]

Identities == Permutations(Clients) \cup Permutations(Managers)
=============================================================================
