------------------------- MODULE ApprovalBrokerProofs -------------------------
(***************************************************************************)
(* Theorems about the approval broker, for any number of approvals,        *)
(* sessions and decide requests.                                           *)
(***************************************************************************)
EXTENDS ApprovalBroker, TLAPS

USE DEF vars, recordVars, deciderVars

(* A new broker satisfies IInv.                                            *)
LEMMA InitIInv == Init => IInv
BY DEF Init, IInv, TypeOK, Status, Terminal, FutureState, WaiterState

(* Every step of the broker keeps record, future and waiter in agreement.  *)
LEMMA NextIInv == IInv /\ [Next]_vars => IInv'
<1> SUFFICES ASSUME IInv, [Next]_vars PROVE IInv'
  OBVIOUS
<1> USE DEF IInv, TypeOK, Status, Terminal, FutureState, WaiterState
<1>1. ASSUME NEW a \in Approval, NEW s \in Session, RequestApproval(a, s) PROVE IInv'
  BY <1>1 DEF RequestApproval
<1>2. ASSUME NEW d \in Decider, NEW s \in Session, NEW a \in Approval,
             DecideNotFound(d, s, a) \/ DecideLate(d, s, a)
      PROVE  IInv'
  BY <1>2 DEF DecideNotFound, DecideLate
<1>3. ASSUME NEW d \in Decider, NEW s \in Session, NEW a \in Approval, NEW approve \in BOOLEAN,
             Decide(d, s, a, approve)
      PROVE  IInv'
  BY <1>3 DEF Decide, MarkTerminal
<1>4. ASSUME NEW s \in Session, CancelSession(s) PROVE IInv'
  BY <1>4 DEF CancelSession, MarkTerminal
<1>5. ASSUME NEW a \in Approval, Deliver(a) PROVE IInv'
  BY <1>5 DEF Deliver
<1>6. ASSUME NEW a \in Approval, TimeOut(a) PROVE IInv'
  BY <1>6 DEF TimeOut
<1>7. ASSUME NEW a \in Approval, Expire(a) PROVE IInv'
  BY <1>7 DEF Expire, MarkTerminal
<1>8. ASSUME NEW a \in Approval, Abort(a) PROVE IInv'
  BY <1>8 DEF Abort
<1>9. CASE UNCHANGED vars
  BY <1>9
<1> QED
  BY <1>1, <1>2, <1>3, <1>4, <1>5, <1>6, <1>7, <1>8, <1>9 DEF Next

(* Record, future and waiter agree in every reachable state.               *)
THEOREM InductiveInvariant == Spec => []IInv
BY InitIInv, NextIInv, PTL DEF Spec

(* Every variable keeps its type.                                          *)
THEOREM TypeCorrect == Spec => []TypeOK
<1>1. IInv => TypeOK
  BY DEF IInv
<1> QED  BY <1>1, InductiveInvariant, PTL

(* No tool runs unless the record of its approval says approved.           *)
THEOREM NoToolWithoutApproval == Spec => []AllowedOnlyIfApproved
<1>1. IInv => AllowedOnlyIfApproved
  BY DEF IInv, AllowedOnlyIfApproved
<1> QED  BY <1>1, InductiveInvariant, PTL

(* A denied call leaves a settled record behind, and an approved one only  *)
(* if its future had been given up.                                        *)
THEOREM DenialAlwaysOnRecord == Spec => []DenialOnRecord
<1>1. IInv => DenialOnRecord
  BY DEF IInv, DenialOnRecord
<1> QED  BY <1>1, InductiveInvariant, PTL

(* Records are settled once, by the session that owns them.                *)
THEOREM SettledOnceByOwnerAlways == Spec => SettledOnceByOwner
<1> DEFINE Settling ==
      \A a \in Approval :
        /\ status[a] \in Terminal => status'[a] = status[a]
        /\ status[a] = "pending" /\ status'[a] \in {"approved", "denied"} =>
             \E d \in Decider :
               /\ answer[d] = "none" /\ answer'[d] = status'[a]
               /\ decided'[d] = <<owner[a], a>>
<1>1. IInv /\ [Next]_vars => [Settling]_vars
  <2> SUFFICES ASSUME IInv, Next PROVE Settling
    OBVIOUS
  <2> USE DEF IInv, TypeOK, Status, Terminal
  <2>1. ASSUME NEW a \in Approval, NEW s \in Session, RequestApproval(a, s) PROVE Settling
    BY <2>1 DEF RequestApproval
  <2>2. ASSUME NEW d \in Decider, NEW s \in Session, NEW a \in Approval,
               DecideNotFound(d, s, a) \/ DecideLate(d, s, a)
        PROVE  Settling
    BY <2>2 DEF DecideNotFound, DecideLate
  <2>3. ASSUME NEW d \in Decider, NEW s \in Session, NEW a \in Approval,
               NEW approve \in BOOLEAN, Decide(d, s, a, approve)
        PROVE  Settling
    BY <2>3 DEF Decide, MarkTerminal
  <2>4. ASSUME NEW s \in Session, CancelSession(s) PROVE Settling
    BY <2>4 DEF CancelSession, MarkTerminal
  <2>5. ASSUME NEW a \in Approval, Deliver(a) \/ TimeOut(a) \/ Abort(a) PROVE Settling
    BY <2>5 DEF Deliver, TimeOut, Abort
  <2>6. ASSUME NEW a \in Approval, Expire(a) PROVE Settling
    BY <2>6 DEF Expire, MarkTerminal
  <2> QED  BY <2>1, <2>2, <2>3, <2>4, <2>5, <2>6 DEF Next
<1> QED  BY <1>1, InductiveInvariant, PTL DEF Spec, SettledOnceByOwner

-------------------------------------------------------------------------------
(* Records that _mark_terminal settles are open consents it answers.       *)
LEMMA SettleRefines ==
  ASSUME IInv, NEW S \in SUBSET Approval, NEW value, NEW reply \in {"yes", "no"},
         NEW outcome \in Terminal, MarkTerminal(S, outcome, value),
         reply = "yes" <=> outcome = "approved",
         UNCHANGED AbsVerdict
  PROVE  Ledger!Next
<1> DEFINE open == {a \in S : status[a] = "pending"}
<1>1. open \in SUBSET Approval /\ \A a \in open : AbsConsent[a] = "open"
  BY DEF AbsConsent
<1>2. AbsConsent' = [a \in Approval |-> IF a \in open THEN reply ELSE AbsConsent[a]]
  BY DEF MarkTerminal, AbsConsent, IInv, TypeOK, Status, Terminal
<1> QED  BY <1>1, <1>2 DEF Ledger!Next, Ledger!Settle

(* decide, cancel_session, timers and deliveries implement ApprovalLedger. *)
THEOREM LedgerImplemented == Spec => ImplementsLedger
<1>1. Init => Ledger!Init
  BY DEF Init, Ledger!Init, AbsConsent, AbsVerdict
<1>2. IInv /\ [Next]_vars => [Ledger!Next]_(Ledger!vars)
  <2> SUFFICES ASSUME IInv, [Next]_vars PROVE [Ledger!Next]_(Ledger!vars)
    OBVIOUS
  <2>1. ASSUME NEW a \in Approval, NEW s \in Session, RequestApproval(a, s)
        PROVE  Ledger!Ask(a)
    <3>1. waiter[a] = "none"
      BY <2>1 DEF RequestApproval, IInv
    <3>2. AbsConsent[a] = "none" /\ AbsVerdict[a] = "unasked"
      BY <2>1, <3>1 DEF RequestApproval, AbsConsent, AbsVerdict
    <3>3. AbsConsent' = [AbsConsent EXCEPT ![a] = "open"]
      BY <2>1 DEF RequestApproval, AbsConsent, IInv, TypeOK
    <3>4. AbsVerdict' = [AbsVerdict EXCEPT ![a] = "asked"]
      BY <2>1 DEF RequestApproval, AbsVerdict, IInv, TypeOK
    <3> QED  BY <3>2, <3>3, <3>4 DEF Ledger!Ask
  <2>2. ASSUME NEW d \in Decider, NEW s \in Session, NEW a \in Approval,
               DecideNotFound(d, s, a) \/ DecideLate(d, s, a)
        PROVE  UNCHANGED Ledger!vars
    BY <2>2 DEF DecideNotFound, DecideLate, Ledger!vars, AbsConsent, AbsVerdict
  <2>3. ASSUME NEW d \in Decider, NEW s \in Session, NEW a \in Approval,
               NEW approve \in BOOLEAN, Decide(d, s, a, approve)
        PROVE  Ledger!Next
    <3>1. UNCHANGED AbsVerdict
      BY <2>3 DEF Decide, AbsVerdict
    <3>2. {a} \in SUBSET Approval
      OBVIOUS
    <3>3. CASE approve
      <4>1. MarkTerminal({a}, "approved", "true")
        BY <2>3, <3>3 DEF Decide
      <4> QED  BY <3>1, <3>2, <4>1, SettleRefines DEF Terminal
    <3>4. CASE ~approve
      <4>1. MarkTerminal({a}, "denied", "false")
        BY <2>3, <3>4 DEF Decide
      <4> QED  BY <3>1, <3>2, <4>1, SettleRefines DEF Terminal
    <3> QED  BY <3>3, <3>4
  <2>4. ASSUME NEW s \in Session, CancelSession(s)
        PROVE  Ledger!Next
    <3> DEFINE S == {a \in Approval : owner[a] = s}
    <3>1. UNCHANGED AbsVerdict
      BY <2>4 DEF CancelSession, AbsVerdict
    <3>2. MarkTerminal(S, "cancelled", "false") /\ S \in SUBSET Approval
      BY <2>4 DEF CancelSession
    <3> HIDE DEF S
    <3> QED  BY <3>1, <3>2, SettleRefines DEF Terminal
  <2>5. ASSUME NEW a \in Approval, Deliver(a)
        PROVE  Ledger!Next
    <3>1. AbsVerdict[a] = "asked" /\ UNCHANGED AbsConsent
      BY <2>5 DEF Deliver, AbsVerdict, AbsConsent
    <3>2. CASE future[a] = "true"
      <4>1. AbsConsent[a] = "yes"
        BY <3>2 DEF AbsConsent, IInv
      <4>2. AbsVerdict' = [AbsVerdict EXCEPT ![a] = "allowed"]
        BY <2>5, <3>2 DEF Deliver, AbsVerdict, IInv, TypeOK
      <4> QED  BY <3>1, <4>1, <4>2 DEF Ledger!Next, Ledger!Allow
    <3>3. CASE future[a] # "true"
      <4>1. AbsVerdict' = [AbsVerdict EXCEPT ![a] = "refused"]
        BY <2>5, <3>3 DEF Deliver, AbsVerdict, IInv, TypeOK
      <4> QED  BY <3>1, <4>1 DEF Ledger!Next, Ledger!Refuse
    <3> QED  BY <3>2, <3>3
  <2>6. ASSUME NEW a \in Approval, TimeOut(a)
        PROVE  UNCHANGED Ledger!vars
    <3>1. UNCHANGED AbsConsent
      BY <2>6 DEF TimeOut, AbsConsent
    <3>2. UNCHANGED AbsVerdict
      BY <2>6 DEF TimeOut, AbsVerdict, IInv, TypeOK
    <3> QED  BY <3>1, <3>2 DEF Ledger!vars
  <2>7. ASSUME NEW a \in Approval, Expire(a)
        PROVE  Ledger!Next
    <3>1. AbsVerdict[a] = "asked"
      BY <2>7 DEF Expire, AbsVerdict
    <3>2. AbsVerdict' = [AbsVerdict EXCEPT ![a] = "refused"]
      BY <2>7 DEF Expire, AbsVerdict, IInv, TypeOK
    <3>3. CASE status[a] = "pending"
      <4>1. AbsConsent[a] = "open"
        BY <3>3 DEF AbsConsent
      <4>2. AbsConsent' = [AbsConsent EXCEPT ![a] = "no"]
        BY <2>7, <3>3 DEF Expire, MarkTerminal, AbsConsent, IInv, TypeOK
      <4> QED  BY <3>1, <3>2, <4>1, <4>2 DEF Ledger!Next, Ledger!Refuse
    <3>4. CASE status[a] # "pending"
      <4>1. UNCHANGED AbsConsent
        BY <2>7, <3>4 DEF Expire, MarkTerminal, AbsConsent
      <4> QED  BY <3>1, <3>2, <4>1 DEF Ledger!Next, Ledger!Refuse
    <3> QED  BY <3>3, <3>4
  <2>8. ASSUME NEW a \in Approval, Abort(a)
        PROVE  Ledger!Next
    <3>1. AbsVerdict[a] = "asked" /\ UNCHANGED AbsConsent
      BY <2>8 DEF Abort, AbsVerdict, AbsConsent
    <3>2. AbsVerdict' = [AbsVerdict EXCEPT ![a] = "refused"]
      BY <2>8 DEF Abort, AbsVerdict, IInv, TypeOK
    <3> QED  BY <3>1, <3>2 DEF Ledger!Next, Ledger!Refuse
  <2>9. CASE UNCHANGED vars
    BY <2>9 DEF Ledger!vars, AbsConsent, AbsVerdict
  <2> QED
    BY <2>1, <2>2, <2>3, <2>4, <2>5, <2>6, <2>7, <2>8, <2>9 DEF Next, Ledger!Next
<1> QED  BY <1>1, <1>2, InductiveInvariant, PTL DEF Spec, ImplementsLedger, Ledger!Spec
===============================================================================
