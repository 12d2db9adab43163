---------------------------- MODULE MCLifecycle ---------------------------
(* Lifecycle with the deadlines of the code, in seconds. *)
EXTENDS Lifecycle
=============================================================================
