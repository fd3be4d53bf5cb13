----------------------------- MODULE MCLifecycle -----------------------------
(* A small instance of Lifecycle: requests at every stage of a shutdown.     *)
EXTENDS Lifecycle
=============================================================================
