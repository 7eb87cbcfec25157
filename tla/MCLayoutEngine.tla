--------------------------- MODULE MCLayoutEngine ---------------------------
(* Instances of LayoutEngine for TLC. *)
EXTENDS LayoutEngine
=============================================================================
