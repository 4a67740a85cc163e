---------------------------- MODULE ApprovalBroker ----------------------------
(***************************************************************************)
(* The approval broker of Aviary (approvals.py): a tool call of the agent  *)
(* waits until the client of its session decides, the timeout strikes or   *)
(* the session is closed.                                                  *)
(*                                                                         *)
(* ApprovalBroker._lock is never held across a suspension point, so that   *)
(* decide, cancel_session and create_approval with the prelude of          *)
(* wait_for_decision are single steps.  The suspensions that matter are    *)
(* those of asyncio.wait_for: a waiter whose future is done is resumed     *)
(* later, and a waiter whose timer has fired first cancels the future,     *)
(* suspends, and only then records that the approval expired.              *)
(***************************************************************************)

CONSTANTS
  Approval,  \* approval ids, one per tool call that asks
  Session,   \* session ids
  Decider,   \* requests to POST .../approvals/{id}:decide
  None

VARIABLES
  status,    \* PendingApproval.response.status, "absent" before it exists
  owner,     \* PendingApproval.response.session_id
  future,    \* PendingApproval.future
  waiter,    \* where the tool callback that asked for the approval is
  answer,    \* what decide returned to the client
  decided    \* <<session, approval>> the decide request names

recordVars == <<status, owner, future>>
deciderVars == <<answer, decided>>
vars == <<recordVars, waiter, deciderVars>>

ASSUME NoneAssumption == None \notin Session

Terminal == {"approved", "denied", "expired", "cancelled"}
Status == {"absent", "pending"} \cup Terminal
FutureState == {"none", "pending", "true", "false", "cancelled"}

(* "expiring": the timer fired and wait_for has cancelled the future, but  *)
(* _mark_terminal has not run.  "aborted": the callback itself was         *)
(* cancelled, and the tool call with it.                                   *)
WaiterState == {"none", "waiting", "expiring", "allowed", "denied", "aborted"}

Init ==
  /\ status = [a \in Approval |-> "absent"]
  /\ owner = [a \in Approval |-> None]
  /\ future = [a \in Approval |-> "none"]
  /\ waiter = [a \in Approval |-> "none"]
  /\ answer = [d \in Decider |-> "none"]
  /\ decided = [d \in Decider |-> None]

-------------------------------------------------------------------------------
(* create_approval, then wait_for_decision up to its first suspension.     *)
RequestApproval(a, s) ==
  /\ status[a] = "absent"
  /\ status' = [status EXCEPT ![a] = "pending"]
  /\ owner' = [owner EXCEPT ![a] = s]
  /\ future' = [future EXCEPT ![a] = "pending"]
  /\ waiter' = [waiter EXCEPT ![a] = "waiting"]
  /\ UNCHANGED deciderVars

(* Variant to be rejected: the status is not tested again under the lock.  *)
MarkAgain(S, outcome, value) ==
  /\ status' = [a \in Approval |->
                  IF a \in S /\ status[a] # "absent" THEN outcome ELSE status[a]]
  /\ future' = [a \in Approval |->
                  IF a \in S /\ future[a] = "pending" THEN value ELSE future[a]]
  /\ UNCHANGED owner

(* _mark_terminal for a set of records: a record that is pending gets the  *)
(* status, a future that is not done the value.                            *)
MarkTerminal(S, outcome, value) ==
  LET open == {a \in S : status[a] = "pending"} IN
  /\ status' = [a \in Approval |-> IF a \in open THEN outcome ELSE status[a]]
  /\ future' = [a \in Approval |->
                  IF a \in open /\ future[a] = "pending" THEN value ELSE future[a]]
  /\ UNCHANGED owner

(* The id is unknown, or belongs to another session: KeyError.             *)
DecideNotFound(d, s, a) ==
  /\ answer[d] = "none"
  /\ status[a] = "absent" \/ owner[a] # s
  /\ answer' = [answer EXCEPT ![d] = "not_found"]
  /\ decided' = [decided EXCEPT ![d] = <<s, a>>]
  /\ UNCHANGED <<recordVars, waiter>>

(* Settled before: the record is returned as it is.                        *)
DecideLate(d, s, a) ==
  /\ answer[d] = "none"
  /\ status[a] \in Terminal /\ owner[a] = s
  /\ answer' = [answer EXCEPT ![d] = status[a]]
  /\ decided' = [decided EXCEPT ![d] = <<s, a>>]
  /\ UNCHANGED <<recordVars, waiter>>

(* Variant to be rejected: no comparison with the session of the record.   *)
DecideAnySession(d, s, a, approve) ==
  /\ answer[d] = "none"
  /\ status[a] = "pending"
  /\ MarkTerminal({a}, IF approve THEN "approved" ELSE "denied",
                       IF approve THEN "true" ELSE "false")
  /\ answer' = [answer EXCEPT ![d] = status'[a]]
  /\ decided' = [decided EXCEPT ![d] = <<s, a>>]
  /\ UNCHANGED waiter

Decide(d, s, a, approve) ==
  /\ answer[d] = "none"
  /\ status[a] = "pending" /\ owner[a] = s
  /\ MarkTerminal({a}, IF approve THEN "approved" ELSE "denied",
                       IF approve THEN "true" ELSE "false")
  /\ answer' = [answer EXCEPT ![d] = status'[a]]
  /\ decided' = [decided EXCEPT ![d] = <<s, a>>]
  /\ UNCHANGED waiter

(* cancel_session, run by the DELETE route once the session is closed.     *)
CancelSession(s) ==
  /\ MarkTerminal({a \in Approval : owner[a] = s}, "cancelled", "false")
  /\ UNCHANGED <<waiter, deciderVars>>

-------------------------------------------------------------------------------
(* Variant to be rejected: the result itself stands for the answer.        *)
DeliverRaw(a) ==
  /\ waiter[a] = "waiting"
  /\ future[a] \in {"true", "false"}
  /\ waiter' = [waiter EXCEPT ![a] = future[a]]
  /\ UNCHANGED <<recordVars, deciderVars>>

(* Variant to be rejected: any result that is there counts as consent.     *)
DeliverTruthy(a) ==
  /\ waiter[a] = "waiting"
  /\ future[a] \in {"true", "false"}
  /\ waiter' = [waiter EXCEPT ![a] = "allowed"]
  /\ UNCHANGED <<recordVars, deciderVars>>

(* wait_for finds the future done, at its wake-up or when the callback is  *)
(* cancelled after it was done: the result is returned.                    *)
Deliver(a) ==
  /\ waiter[a] = "waiting"
  /\ future[a] \in {"true", "false"}
  /\ waiter' = [waiter EXCEPT ![a] = IF future[a] = "true" THEN "allowed" ELSE "denied"]
  /\ UNCHANGED <<recordVars, deciderVars>>

(* Variant to be rejected: no timer for a call that nobody decides.        *)
TimeOutNever(a) ==
  /\ waiter[a] = "waiting"
  /\ future[a] = "cancelled"
  /\ waiter' = [waiter EXCEPT ![a] = "expiring"]
  /\ UNCHANGED <<recordVars, deciderVars>>

(* The timer resumes wait_for before anything else settled the future.     *)
TimeOut(a) ==
  /\ waiter[a] = "waiting"
  /\ future[a] = "pending"
  /\ future' = [future EXCEPT ![a] = "cancelled"]
  /\ waiter' = [waiter EXCEPT ![a] = "expiring"]
  /\ UNCHANGED <<status, owner, deciderVars>>

(* Variant to be rejected: the timeout denies the call and records nothing. *)
ExpireUnrecorded(a) ==
  /\ waiter[a] = "expiring"
  /\ waiter' = [waiter EXCEPT ![a] = "denied"]
  /\ UNCHANGED <<recordVars, deciderVars>>

(* The TimeoutError reaches wait_for_decision, which records the expiry if *)
(* the approval is still pending, and denies in any case.                  *)
Expire(a) ==
  /\ waiter[a] = "expiring"
  /\ MarkTerminal({a}, "expired", "false")
  /\ waiter' = [waiter EXCEPT ![a] = "denied"]
  /\ UNCHANGED deciderVars

(* The provider cancels the callback: the record is left pending.          *)
Abort(a) ==
  /\ waiter[a] \in {"waiting", "expiring"}
  /\ future[a] \in {"pending", "cancelled"}
  /\ future' = [future EXCEPT ![a] = "cancelled"]
  /\ waiter' = [waiter EXCEPT ![a] = "aborted"]
  /\ UNCHANGED <<status, owner, deciderVars>>

-------------------------------------------------------------------------------
Next ==
  \/ \E a \in Approval :
       \/ \E s \in Session : RequestApproval(a, s)
       \/ \E d \in Decider, s \in Session :
            \/ DecideNotFound(d, s, a) \/ DecideLate(d, s, a)
            \/ \E approve \in BOOLEAN : Decide(d, s, a, approve)
       \/ Deliver(a) \/ TimeOut(a) \/ Expire(a) \/ Abort(a)
  \/ \E s \in Session : CancelSession(s)

Spec == Init /\ [][Next]_vars

(* The event loop fires timers and resumes what is ready.                  *)
Fairness ==
  \A a \in Approval : WF_vars(Deliver(a)) /\ WF_vars(TimeOut(a)) /\ WF_vars(Expire(a))

FairSpec == Spec /\ Fairness

-------------------------------------------------------------------------------
(* Properties.                                                             *)

(* The types of the variables.                                             *)
TypeOK ==
  /\ status \in [Approval -> Status]
  /\ owner \in [Approval -> Session \cup {None}]
  /\ future \in [Approval -> FutureState]
  /\ waiter \in [Approval -> WaiterState]
  /\ answer \in [Decider -> {"none", "not_found"} \cup Terminal]
  /\ decided \in [Decider -> (Session \X Approval) \cup {None}]

(* A tool runs only if the record says approved, whatever order decisions, *)
(* timers and the closing of the session come in.                          *)
AllowedOnlyIfApproved ==
  \A a \in Approval : waiter[a] = "allowed" => status[a] = "approved"

(* What a denied tool call finds on record: an unsettled record is never   *)
(* left behind, and "approved" is there only if wait_for had given up on   *)
(* the future before the decision came.                                    *)
DenialOnRecord ==
  \A a \in Approval :
    waiter[a] = "denied" =>
      /\ status[a] \in Terminal
      /\ status[a] = "approved" => future[a] = "cancelled"

(* Records are settled once, and only by those who may: a decision by a    *)
(* decide request for the session that owns the approval, and what that    *)
(* request was told is what stays on record.                               *)
SettledOnceByOwner ==
  [][\A a \in Approval :
       /\ status[a] \in Terminal => status'[a] = status[a]
       /\ status[a] = "pending" /\ status'[a] \in {"approved", "denied"} =>
            \E d \in Decider :
              /\ answer[d] = "none" /\ answer'[d] = status'[a]
              /\ decided'[d] = <<owner[a], a>>]_vars

(* Every tool call that waits for a decision gets an answer, also when no  *)
(* client ever decides.                                                    *)
EveryCallAnswered ==
  \A a \in Approval :
    waiter[a] = "waiting" ~> waiter[a] \in {"allowed", "denied", "aborted"}

(* tests/test_approval_broker.py asserts both halves of this together: a   *)
(* decide that answers "approved" makes wait_for_decision return True.     *)
ApprovedCallRuns ==
  \A a \in Approval : status[a] = "approved" => waiter[a] # "denied"

(* The inductive invariant: how record, future and waiter hang together    *)
(* between the steps of wait_for and _mark_terminal.                       *)
IInv ==
  /\ TypeOK
  /\ \A a \in Approval :
       /\ status[a] = "absent" <=> waiter[a] = "none"
       /\ future[a] = "pending" => status[a] = "pending" /\ waiter[a] = "waiting"
       /\ future[a] = "true" => status[a] = "approved"
       /\ future[a] = "false" => status[a] \in {"denied", "cancelled"}
       /\ future[a] = "cancelled" => waiter[a] \in {"expiring", "denied", "aborted"}
       /\ waiter[a] = "waiting" => future[a] \in {"pending", "true", "false"}
       /\ waiter[a] = "expiring" => future[a] = "cancelled"
       /\ waiter[a] = "allowed" => future[a] = "true"
       /\ waiter[a] = "denied" =>
            /\ status[a] \in Terminal
            /\ future[a] \in {"false", "cancelled"}

-------------------------------------------------------------------------------
(* The broker implements ApprovalLedger.                                   *)

AbsConsent ==
  [a \in Approval |->
     CASE status[a] = "absent" -> "none"
       [] status[a] = "pending" -> "open"
       [] status[a] = "approved" -> "yes"
       [] OTHER -> "no"]

AbsVerdict ==
  [a \in Approval |->
     CASE waiter[a] = "none" -> "unasked"
       [] waiter[a] \in {"waiting", "expiring"} -> "asked"
       [] waiter[a] = "allowed" -> "allowed"
       [] OTHER -> "refused"]

Ledger == INSTANCE ApprovalLedger WITH consent <- AbsConsent, verdict <- AbsVerdict

(* decide, cancel_session, the timer and the delivery of the result        *)
(* implement ApprovalLedger: one consent per call, none assumed.           *)
ImplementsLedger == Ledger!Spec
===============================================================================
