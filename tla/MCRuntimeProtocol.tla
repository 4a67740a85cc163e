--------------------------- MODULE MCRuntimeProtocol ---------------------------
(* Small instances of RuntimeProtocol for TLC.  A line of length 1 is      *)
(* within every limit, one of length 2 is between the stream reader's and  *)
(* the protocol's, one of length 3 is beyond both.                         *)
EXTENDS RuntimeProtocol
===============================================================================
