--------------------------- MODULE MCManagedRuntime ---------------------------
(* Small instances of ManagedRuntime for TLC.                              *)
EXTENDS ManagedRuntime
===============================================================================
