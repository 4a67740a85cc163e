----------------------------- MODULE EventChannel -----------------------------
(***************************************************************************)
(* What a streamed query promises its reader (README.md, Streaming): the   *)
(* events of the query, in order, none twice and none left out; if the     *)
(* stream ends as complete, every one of them.  A stream that breaks has   *)
(* delivered a prefix.                                                     *)
(***************************************************************************)
EXTENDS Naturals, Sequences

CONSTANT Event

VARIABLES
  sent,    \* the events the query has produced
  got,     \* the events its reader has been given
  outcome  \* whether the stream goes on, is complete or broke

vars == <<sent, got, outcome>>

Init == sent = <<>> /\ got = <<>> /\ outcome = "open"

(* The query of a broken stream may go on.                                 *)
Send ==
  /\ outcome # "complete"
  /\ \E e \in Event : sent' = Append(sent, e)
  /\ UNCHANGED <<got, outcome>>

Get ==
  /\ outcome = "open" /\ Len(got) < Len(sent)
  /\ got' = Append(got, sent[Len(got) + 1])
  /\ UNCHANGED <<sent, outcome>>

Complete ==
  /\ outcome = "open" /\ got = sent
  /\ outcome' = "complete"
  /\ UNCHANGED <<sent, got>>

Break ==
  /\ outcome = "open"
  /\ outcome' = "broken"
  /\ UNCHANGED <<sent, got>>

Next == Send \/ Get \/ Complete \/ Break

Spec == Init /\ [][Next]_vars
===============================================================================
