---------------------------- MODULE ApprovalLedger ----------------------------
(***************************************************************************)
(* What the approval broker promises: consent is given or refused at most  *)
(* once per tool call, and no tool runs without consent on record.         *)
(***************************************************************************)
CONSTANT Approval

VARIABLES
  consent,   \* consent[a]: "none", "open", "yes" or "no"
  verdict    \* verdict[a]: "unasked", "asked", "allowed" or "refused"

vars == <<consent, verdict>>

Init ==
  /\ consent = [a \in Approval |-> "none"]
  /\ verdict = [a \in Approval |-> "unasked"]

Ask(a) ==
  /\ consent[a] = "none" /\ verdict[a] = "unasked"
  /\ consent' = [consent EXCEPT ![a] = "open"]
  /\ verdict' = [verdict EXCEPT ![a] = "asked"]

(* The calls of a session are refused together when it closes.             *)
Settle(S, answer) ==
  /\ \A a \in S : consent[a] = "open"
  /\ consent' = [a \in Approval |-> IF a \in S THEN answer ELSE consent[a]]
  /\ UNCHANGED verdict

Allow(a) ==
  /\ consent[a] = "yes" /\ verdict[a] = "asked"
  /\ verdict' = [verdict EXCEPT ![a] = "allowed"]
  /\ UNCHANGED consent

(* A call may be given up whatever is on record, and a call given up while *)
(* consent is open may leave it open or refuse it.                         *)
Refuse(a) ==
  /\ verdict[a] = "asked"
  /\ verdict' = [verdict EXCEPT ![a] = "refused"]
  /\ \/ UNCHANGED consent
     \/ consent[a] = "open" /\ consent' = [consent EXCEPT ![a] = "no"]

Next ==
  \/ \E a \in Approval : Ask(a) \/ Allow(a) \/ Refuse(a)
  \/ \E S \in SUBSET Approval, answer \in {"yes", "no"} : Settle(S, answer)

Spec == Init /\ [][Next]_vars
===============================================================================
