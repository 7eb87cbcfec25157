-------------------------- MODULE MCBackendStatus --------------------------
(* Instances of BackendStatus for TLC.                                     *)
EXTENDS BackendStatus

=============================================================================
