-------------------------- MODULE MCBackendManager --------------------------
(* TLC instances of BackendManager. *)
EXTENDS BackendManager
=============================================================================
