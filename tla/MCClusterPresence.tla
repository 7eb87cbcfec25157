------------------------- MODULE MCClusterPresence -------------------------
(* Instances of ClusterPresence for TLC.                                   *)
EXTENDS ClusterPresence

=============================================================================
