-------------------------- MODULE MCManagedRuntime --------------------------
(* ManagedRuntime on a small instance: the constants are in the config.    *)
EXTENDS ManagedRuntime
=============================================================================
