--------------------------- MODULE MCSessionManager ---------------------------
(* Small instances of SessionManager for TLC.                              *)
EXTENDS SessionManager, TLC

(* Ids, requests and lock objects are interchangeable.                     *)
Interchangeable ==
  Permutations(Session) \cup Permutations(Stream)
    \cup Permutations(Closer) \cup Permutations(Mutex)
===============================================================================
