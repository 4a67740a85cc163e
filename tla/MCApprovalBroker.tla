--------------------------- MODULE MCApprovalBroker ---------------------------
(* Small instances of ApprovalBroker for TLC.                              *)
EXTENDS ApprovalBroker
===============================================================================
