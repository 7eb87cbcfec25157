--------------------------- MODULE MCGraphEngine ---------------------------
(* Instances of GraphEngine for TLC. *)
EXTENDS GraphEngine
=============================================================================
