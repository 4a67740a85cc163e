-------------------------- MODULE MCEmbeddedRuntime --------------------------
(* Small instances of EmbeddedRuntime for TLC.                             *)
EXTENDS EmbeddedRuntime, TLC

Interchangeable ==
  Permutations(Session) \cup Permutations(Stream) \cup Permutations(Closer)
===============================================================================
