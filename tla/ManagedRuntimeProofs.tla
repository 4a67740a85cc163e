------------------------- MODULE ManagedRuntimeProofs -------------------------
(***************************************************************************)
(* Theorems about managed-container mode, for any number of sessions,      *)
(* streams and close requests.                                             *)
(***************************************************************************)
EXTENDS ManagedRuntime, TLAPS

MP == INSTANCE SessionManagerRefinement

-------------------------------------------------------------------------------
(* The inductive invariant, part by part.                                  *)

(* Of the manager's variables only this much matters here.                 *)
ManagerTypes ==
  /\ DOMAIN sessions = Session
  /\ creation \in [Session -> SM!CreationState]
  /\ streamPc \in [Stream -> SM!StreamPc] /\ DOMAIN streamSession = Stream
  /\ closePc \in [Closer -> SM!ClosePc] /\ DOMAIN closeSession = Closer

(* What a session has in driver, client and daemon it got when it was      *)
(* created, once; a creation that failed may have left it a container.     *)
CreatedOnce ==
  \A s \in Session :
    /\ s \in driverSessions \cup containers \/ container[s] = "removed"
         => creation[s] = "returned"
    /\ container[s] = "running" => creation[s] \in {"returned", "failed"}
    /\ creation[s] = "creating" => HasWorkspace(s)

(* A stream has a step and a query only for a session, and only from when  *)
(* it entered the driver; its query runs only in a container that does.    *)
QueriesInContainers ==
  \A t \in Stream :
    /\ step[t] # "none" => SM!InDriver(t)
    /\ query[t] # "none" => streamPc[t] \notin {"idle", "waiting"}
    /\ step[t] # "none" \/ query[t] # "none" => streamSession[t] \in Session
    /\ query[t] = "running" => container[streamSession[t]] = "running"

(* A close is at work for a session that was created, and what it has      *)
(* removed stays so.                                                       *)
ClosesKnown ==
  \A c \in Closer :
    /\ closeStep[c] # "none" => closePc[c] = "closing"
    /\ closePc[c] \in {"closing", "closed"} =>
         closeSession[c] \in Session /\ creation[closeSession[c]] = "returned"
    /\ closeStep[c] = "removed" => container[closeSession[c]] = "removed"

IInv ==
  /\ TypeOK /\ ManagerTypes /\ CreatedOnce /\ QueriesInContainers /\ ClosesKnown
  /\ ServedSessionIntact /\ ClosedLeavesNothing /\ RunningIsRecorded

USE DEF vars, managerVars, registryVars, closeVars, SM!Present, SM!InDriver, SM!registryVars,
        SM!lockVars, SM!streamVars, SM!closeVars, HasWorkspace, Workspaces, Running,
        SM!CreationState, SM!StreamPc, SM!ClosePc, SM!Outcome, BeingRemoved

-------------------------------------------------------------------------------
(* Every step keeps the invariant.  Parts a step cannot disturb come first. *)

(* Creating a session, and containers that die.                            *)
LEMMA CreateIInv ==
  ASSUME IInv, NEW s \in Session,
         CreateRefused(s) \/ CreateStart(s) \/ CreateReturn(s) \/ CreateFail(s) \/
           ContainerDies(s)
  PROVE  IInv'
<1> USE DEF IInv
<1>1. CASE CreateRefused(s)
  <2>1. TypeOK' /\ ManagerTypes' /\ CreatedOnce' /\ QueriesInContainers' /\ ClosesKnown' /\
        ClosedLeavesNothing' /\ RunningIsRecorded'
    BY <1>1 DEF CreateRefused, SM!CreateRefused, TypeOK, ManagerTypes, CreatedOnce,
                QueriesInContainers, ClosesKnown, ClosedLeavesNothing, RunningIsRecorded
  <2>2. ServedSessionIntact'
    BY <1>1 DEF CreateRefused, SM!CreateRefused, CreatedOnce, ServedSessionIntact
  <2> QED  BY <2>1, <2>2
<1>2. CASE CreateStart(s)
  <2>1. TypeOK' /\ ManagerTypes' /\ QueriesInContainers' /\ ClosesKnown' /\ ServedSessionIntact'
        /\ RunningIsRecorded'
    BY <1>2 DEF CreateStart, SM!CreateStart, TypeOK, ManagerTypes, QueriesInContainers,
                ClosesKnown, ServedSessionIntact, RunningIsRecorded
  <2>2. CreatedOnce'
    BY <1>2 DEF CreateStart, SM!CreateStart, TypeOK, CreatedOnce
  <2>3. ClosedLeavesNothing'
    BY <1>2 DEF CreateStart, SM!CreateStart, CreatedOnce, ClosedLeavesNothing
  <2> QED  BY <2>1, <2>2, <2>3
<1>3. CASE CreateReturn(s)
  <2>1. TypeOK' /\ ManagerTypes' /\ QueriesInContainers' /\ ClosesKnown' /\ RunningIsRecorded'
    BY <1>3 DEF CreateReturn, SM!CreateReturn, TypeOK, ManagerTypes, QueriesInContainers,
                ClosesKnown, RunningIsRecorded
  <2>2. CreatedOnce'
    BY <1>3 DEF CreateReturn, SM!CreateReturn, ManagerTypes, CreatedOnce
  <2>3. ServedSessionIntact'
    BY <1>3 DEF CreateReturn, SM!CreateReturn, TypeOK, CreatedOnce, ServedSessionIntact
  <2>4. ClosedLeavesNothing'
    BY <1>3 DEF CreateReturn, SM!CreateReturn, CreatedOnce, ClosedLeavesNothing
  <2> QED  BY <2>1, <2>2, <2>3, <2>4
<1>4. CASE CreateFail(s)
  <2>1. TypeOK' /\ ManagerTypes' /\ ClosesKnown' /\ RunningIsRecorded'
    BY <1>4 DEF CreateFail, SM!CreateFail, SM!Without, Release, TypeOK, ManagerTypes,
                ClosesKnown, RunningIsRecorded
  <2>2. CreatedOnce'
    BY <1>4 DEF CreateFail, SM!CreateFail, SM!Without, Release, ManagerTypes, CreatedOnce
  <2>3. QueriesInContainers'
    BY <1>4 DEF CreateFail, SM!CreateFail, SM!Without, Release, CreatedOnce, QueriesInContainers
  <2>4. ServedSessionIntact'
    BY <1>4 DEF CreateFail, SM!CreateFail, SM!Without, Release, CreatedOnce, ServedSessionIntact
  <2>5. ClosedLeavesNothing'
    BY <1>4 DEF CreateFail, SM!CreateFail, SM!Without, Release, CreatedOnce, ClosedLeavesNothing
  <2> QED  BY <2>1, <2>2, <2>3, <2>4, <2>5
<1>5. CASE ContainerDies(s)
  BY <1>5 DEF ContainerDies, Killed, TypeOK, ManagerTypes, CreatedOnce, QueriesInContainers,
              ClosesKnown, ServedSessionIntact, ClosedLeavesNothing, RunningIsRecorded
<1> QED  BY <1>1, <1>2, <1>3, <1>4, <1>5

(* Streams and their queries.                                              *)
LEMMA StreamIInv ==
  ASSUME IInv, NEW t \in Stream,
         Outside(t) \/ ResumeNotFound(t) \/ Enter(t) \/ Refused(t) \/ QueryStart(t) \/
           ExecFail(t) \/ BadLine(t) \/ Eof(t) \/ QueryEnds(t) \/ CancelAtAwait(t) \/
           AbandonAtYield(t) \/ Finalize(t)
  PROVE  IInv'
<1> USE DEF IInv
<1>1. CASE Outside(t)
  <2>1. TypeOK' /\ ManagerTypes' /\ CreatedOnce' /\ ClosesKnown' /\ ServedSessionIntact' /\
        RunningIsRecorded'
    BY <1>1 DEF Outside, SM!StreamNotFound, SM!StreamWait, SM!StreamLeaveQueue, TypeOK,
                ManagerTypes, CreatedOnce, ClosesKnown, ServedSessionIntact, RunningIsRecorded
  <2>2. QueriesInContainers'
    BY <1>1 DEF Outside, SM!StreamNotFound, SM!StreamWait, SM!StreamLeaveQueue, ManagerTypes,
                QueriesInContainers
  <2>3. ClosedLeavesNothing'
    BY <1>1 DEF Outside, SM!StreamNotFound, SM!StreamWait, SM!StreamLeaveQueue, ManagerTypes,
                QueriesInContainers, ClosedLeavesNothing
  <2> QED  BY <2>1, <2>2, <2>3
<1>2. CASE ResumeNotFound(t)
  BY <1>2 DEF ResumeNotFound, SM!StreamResumeNotFound, TypeOK, ManagerTypes, CreatedOnce,
              QueriesInContainers, ClosesKnown, ServedSessionIntact, ClosedLeavesNothing,
              RunningIsRecorded
<1>3. CASE Enter(t)
  <2>1. TypeOK' /\ ManagerTypes' /\ CreatedOnce' /\ ClosesKnown' /\ ServedSessionIntact' /\
        RunningIsRecorded'
    BY <1>3 DEF Enter, SM!StreamResume, SM!StreamStart, SM!Replaced, TypeOK, ManagerTypes,
                CreatedOnce, ClosesKnown, ServedSessionIntact, RunningIsRecorded
  <2>2. QueriesInContainers'
    BY <1>3 DEF Enter, SM!StreamResume, SM!StreamStart, SM!Replaced, TypeOK, ManagerTypes,
                QueriesInContainers
  <2>3. ClosedLeavesNothing'
    BY <1>3 DEF Enter, SM!StreamResume, SM!StreamStart, SM!Replaced, ManagerTypes, ClosesKnown,
                ClosedLeavesNothing
  <2> QED  BY <2>1, <2>2, <2>3
<1>4. CASE Refused(t)
  <2>1. TypeOK' /\ ManagerTypes' /\ CreatedOnce' /\ ClosesKnown' /\ ServedSessionIntact' /\
        RunningIsRecorded'
    BY <1>4 DEF Refused, SM!StreamRefused, SM!StreamResumeRefused, TypeOK, ManagerTypes,
                CreatedOnce, ClosesKnown, ServedSessionIntact, RunningIsRecorded
  <2>2. QueriesInContainers'
    BY <1>4 DEF Refused, SM!StreamRefused, SM!StreamResumeRefused, ManagerTypes,
                QueriesInContainers
  <2>3. ClosedLeavesNothing'
    BY <1>4 DEF Refused, SM!StreamRefused, SM!StreamResumeRefused, ManagerTypes,
                ClosedLeavesNothing
  <2> QED  BY <2>1, <2>2, <2>3
<1>5. CASE QueryStart(t)
  BY <1>5 DEF QueryStart, TypeOK, ManagerTypes, CreatedOnce, QueriesInContainers, ClosesKnown,
              ServedSessionIntact, ClosedLeavesNothing, RunningIsRecorded
<1>6. CASE ExecFail(t)
  <2>1. TypeOK' /\ ManagerTypes' /\ CreatedOnce' /\ ClosesKnown' /\ ServedSessionIntact' /\
        ClosedLeavesNothing' /\ RunningIsRecorded'
    BY <1>6 DEF ExecFail, SM!StreamEnd, SM!Leave, SM!Replaced, TypeOK, ManagerTypes,
                CreatedOnce, ClosesKnown, ServedSessionIntact, ClosedLeavesNothing,
                RunningIsRecorded
  <2>2. QueriesInContainers'
    BY <1>6 DEF ExecFail, SM!StreamEnd, SM!Leave, SM!Replaced, TypeOK, QueriesInContainers
  <2> QED  BY <2>1, <2>2
<1>7. CASE BadLine(t)
  <2>1. TypeOK' /\ ManagerTypes' /\ CreatedOnce' /\ ClosesKnown' /\ ServedSessionIntact' /\
        ClosedLeavesNothing' /\ RunningIsRecorded'
    BY <1>7 DEF BadLine, SM!StreamEnd, SM!Leave, SM!Replaced, TypeOK, ManagerTypes,
                CreatedOnce, ClosesKnown, ServedSessionIntact, ClosedLeavesNothing,
                RunningIsRecorded
  <2>2. QueriesInContainers'
    BY <1>7 DEF BadLine, SM!StreamEnd, SM!Leave, SM!Replaced, TypeOK, QueriesInContainers
  <2> QED  BY <2>1, <2>2
<1>8. CASE Eof(t)
  <2>1. TypeOK' /\ ManagerTypes' /\ CreatedOnce' /\ ClosesKnown' /\ ServedSessionIntact' /\
        RunningIsRecorded'
    BY <1>8 DEF Eof, SM!StreamEnd, SM!Leave, SM!Replaced, TypeOK, ManagerTypes, CreatedOnce,
                ClosesKnown, ServedSessionIntact, RunningIsRecorded
  <2>2. QueriesInContainers'
    BY <1>8 DEF Eof, SM!StreamEnd, SM!Leave, SM!Replaced, TypeOK, ManagerTypes,
                QueriesInContainers
  <2>3. ClosedLeavesNothing'
    BY <1>8 DEF Eof, SM!StreamEnd, SM!Leave, SM!Replaced, ManagerTypes, ClosesKnown,
                ClosedLeavesNothing
  <2> QED  BY <2>1, <2>2, <2>3
<1>9. CASE QueryEnds(t)
  BY <1>9 DEF QueryEnds, TypeOK, ManagerTypes, CreatedOnce, QueriesInContainers, ClosesKnown,
              ServedSessionIntact, ClosedLeavesNothing, RunningIsRecorded
<1>10. CASE CancelAtAwait(t)
  <2>1. TypeOK' /\ ManagerTypes' /\ CreatedOnce' /\ ClosesKnown' /\ ServedSessionIntact' /\
        RunningIsRecorded'
    BY <1>10 DEF CancelAtAwait, SM!StreamEnd, SM!Leave, SM!Replaced, TypeOK, ManagerTypes,
                 CreatedOnce, ClosesKnown, ServedSessionIntact, RunningIsRecorded
  <2>2. QueriesInContainers'
    BY <1>10 DEF CancelAtAwait, SM!StreamEnd, SM!Leave, SM!Replaced, TypeOK, QueriesInContainers
  <2>3. ClosedLeavesNothing'
    BY <1>10 DEF CancelAtAwait, SM!StreamEnd, SM!Leave, SM!Replaced, TypeOK, ClosedLeavesNothing
  <2> QED  BY <2>1, <2>2, <2>3
<1>11. CASE AbandonAtYield(t)
  BY <1>11 DEF AbandonAtYield, SM!StreamAbandon, TypeOK, ManagerTypes, CreatedOnce,
               QueriesInContainers, ClosesKnown, ServedSessionIntact, ClosedLeavesNothing,
               RunningIsRecorded
<1>12. CASE Finalize(t)
  <2>1. TypeOK' /\ ManagerTypes' /\ CreatedOnce' /\ ClosesKnown' /\ ServedSessionIntact' /\
        ClosedLeavesNothing' /\ RunningIsRecorded'
    BY <1>12 DEF Finalize, SM!StreamFinalize, SM!Leave, SM!Replaced, TypeOK, ManagerTypes,
                 CreatedOnce, ClosesKnown, ServedSessionIntact, ClosedLeavesNothing,
                 RunningIsRecorded
  <2>2. QueriesInContainers'
    BY <1>12 DEF Finalize, SM!StreamFinalize, SM!Leave, SM!Replaced, TypeOK, QueriesInContainers
  <2> QED  BY <2>1, <2>2
<1> QED  BY <1>1, <1>2, <1>3, <1>4, <1>5, <1>6, <1>7, <1>8, <1>9, <1>10, <1>11, <1>12

(* Closes.                                                                 *)
LEMMA CloseIInv ==
  ASSUME IInv, NEW c \in Closer,
         CloseNotFound(c) \/ CloseStart(c) \/ CloseExecuted(c) \/ Removal(c) \/
           CloseReturn(c) \/ CloseFail(c)
  PROVE  IInv'
<1> USE DEF IInv
<1>1. CASE CloseNotFound(c)
  <2>1. TypeOK' /\ ManagerTypes' /\ CreatedOnce' /\ QueriesInContainers' /\ ClosesKnown' /\
        ClosedLeavesNothing' /\ RunningIsRecorded'
    BY <1>1 DEF CloseNotFound, SM!CloseStart, SM!CloseRefused, TypeOK, ManagerTypes,
                CreatedOnce, QueriesInContainers, ClosesKnown, ClosedLeavesNothing,
                RunningIsRecorded
  <2>2. /\ closePc[c] = "idle" /\ closeStep' = closeStep
        /\ \A d \in Closer : d # c => closeSession'[d] = closeSession[d]
        /\ UNCHANGED <<driverSessions, containers, workspace, container>>
    BY <1>1 DEF CloseNotFound, SM!CloseStart, SM!CloseRefused, ManagerTypes
  <2>3. ServedSessionIntact'
    BY <2>2 DEF ClosesKnown, ServedSessionIntact
  <2> QED  BY <2>1, <2>3
<1>2. CASE CloseStart(c)
  <2>1. TypeOK' /\ ManagerTypes' /\ CreatedOnce' /\ QueriesInContainers' /\ ClosedLeavesNothing'
        /\ RunningIsRecorded'
    BY <1>2 DEF CloseStart, SM!CloseStart, TypeOK, ManagerTypes, CreatedOnce,
                QueriesInContainers, ClosedLeavesNothing, RunningIsRecorded
  <2>2. ClosesKnown'
    BY <1>2 DEF CloseStart, SM!CloseStart, TypeOK, ManagerTypes, CreatedOnce, ClosesKnown
  <2>3. ServedSessionIntact'
    BY <1>2 DEF CloseStart, SM!CloseStart, ClosesKnown, ServedSessionIntact
  <2> QED  BY <2>1, <2>2, <2>3
<1>3. CASE CloseExecuted(c)
  BY <1>3 DEF CloseExecuted, TypeOK, ManagerTypes, CreatedOnce, QueriesInContainers,
              ClosesKnown, ServedSessionIntact, ClosedLeavesNothing, RunningIsRecorded
<1>4. CASE Removal(c)
  <2>1. ManagerTypes' /\ QueriesInContainers' /\ ClosedLeavesNothing' /\ RunningIsRecorded'
    BY <1>4 DEF Removal, Killed, ManagerTypes, QueriesInContainers, ClosedLeavesNothing,
                RunningIsRecorded
  <2>2. TypeOK'
    BY <1>4 DEF Removal, Killed, TypeOK, ClosesKnown
  <2>3. CreatedOnce'
    BY <1>4 DEF Removal, Killed, CreatedOnce, ClosesKnown
  <2>4. ClosesKnown'
    BY <1>4 DEF Removal, Killed, TypeOK, ClosesKnown
  <2>5. ServedSessionIntact'
    BY <1>4 DEF Removal, Killed, TypeOK, ServedSessionIntact
  <2> QED  BY <2>1, <2>2, <2>3, <2>4, <2>5
<1>5. CASE CloseReturn(c)
  <2>1. ManagerTypes' /\ QueriesInContainers' /\ ServedSessionIntact'
    BY <1>5 DEF CloseReturn, DriverForgets, Release, SM!CloseReturn, SM!CloseFail, SM!Without,
                ManagerTypes, QueriesInContainers, ServedSessionIntact
  <2>2. TypeOK'
    BY <1>5 DEF CloseReturn, DriverForgets, Release, SM!CloseReturn, SM!CloseFail, SM!Without,
                TypeOK, ClosesKnown
  <2>3. CreatedOnce'
    BY <1>5 DEF CloseReturn, DriverForgets, Release, SM!CloseReturn, SM!CloseFail, SM!Without,
                CreatedOnce, ClosesKnown
  <2>4. ClosesKnown'
    BY <1>5 DEF CloseReturn, DriverForgets, Release, SM!CloseReturn, SM!CloseFail, SM!Without,
                TypeOK, ManagerTypes, ClosesKnown
  <2>5. ClosedLeavesNothing'
    BY <1>5 DEF CloseReturn, DriverForgets, Release, SM!CloseReturn, SM!CloseFail, SM!Without,
                TypeOK, ManagerTypes, QueriesInContainers, ClosesKnown, ClosedLeavesNothing
  <2>6. RunningIsRecorded'
    BY <1>5 DEF CloseReturn, DriverForgets, Release, SM!CloseReturn, SM!CloseFail, SM!Without,
                ClosesKnown, RunningIsRecorded
  <2> QED  BY <2>1, <2>2, <2>3, <2>4, <2>5, <2>6
<1>6. CASE CloseFail(c)
  <2>1. ManagerTypes' /\ QueriesInContainers' /\ ServedSessionIntact' /\ ClosedLeavesNothing' /\
        RunningIsRecorded'
    BY <1>6 DEF CloseFail, DriverForgets, Release, SM!CloseFail, ManagerTypes,
                QueriesInContainers, ServedSessionIntact, ClosedLeavesNothing,
                RunningIsRecorded
  <2>2. TypeOK'
    BY <1>6 DEF CloseFail, DriverForgets, Release, SM!CloseFail, TypeOK, ClosesKnown
  <2>3. CreatedOnce'
    BY <1>6 DEF CloseFail, DriverForgets, Release, SM!CloseFail, CreatedOnce, ClosesKnown
  <2>4. ClosesKnown'
    BY <1>6 DEF CloseFail, DriverForgets, Release, SM!CloseFail, TypeOK, ClosesKnown
  <2> QED  BY <2>1, <2>2, <2>3, <2>4
<1> QED  BY <1>1, <1>2, <1>3, <1>4, <1>5, <1>6

(* The inductive invariant holds in every reachable state.                 *)
THEOREM InductiveInvariant == Spec => []IInv
<1>1. Init => IInv
  BY DEF Init, SM!Init, IInv, TypeOK, ManagerTypes, CreatedOnce, QueriesInContainers,
         ClosesKnown, ServedSessionIntact, ClosedLeavesNothing, RunningIsRecorded
<1>2. IInv /\ UNCHANGED vars => IInv'
  BY DEF IInv, TypeOK, ManagerTypes, CreatedOnce, QueriesInContainers, ClosesKnown,
         ServedSessionIntact, ClosedLeavesNothing, RunningIsRecorded
<1>3. IInv /\ [Next]_vars => IInv'
  BY <1>2, CreateIInv, StreamIInv, CloseIInv DEF Next
<1> QED  BY <1>1, <1>3, PTL DEF Spec

-------------------------------------------------------------------------------
(* The variables that driver and runtime client add keep their types.      *)
THEOREM TypeCorrect == Spec => []TypeOK
<1>1. IInv => TypeOK
  BY DEF IInv
<1> QED  BY <1>1, InductiveInvariant, PTL

(* While the driver serves a session its workspace is there, and so is its *)
(* container, except in the moment in which a close has removed it.        *)
THEOREM ServedSessionAlwaysIntact == Spec => []ServedSessionIntact
<1>1. IInv => ServedSessionIntact
  BY DEF IInv
<1> QED  BY <1>1, InductiveInvariant, PTL

(* A close that answers 200 has left nothing of the session, and nothing   *)
(* comes back.                                                             *)
THEOREM ClosedAlwaysLeavesNothing == Spec => []ClosedLeavesNothing
<1>1. IInv => ClosedLeavesNothing
  BY DEF IInv
<1> QED  BY <1>1, InductiveInvariant, PTL

(* A container that runs is on record in the runtime client, unless its    *)
(* docker run reported failure.                                            *)
THEOREM RunningAlwaysRecorded == Spec => []RunningIsRecorded
<1>1. IInv => RunningIsRecorded
  BY DEF IInv
<1> QED  BY <1>1, InductiveInvariant, PTL

-------------------------------------------------------------------------------
(* The session manager under this driver.                                  *)

(* Every step of the composition is one of SessionManager, or leaves the   *)
(* manager alone.                                                          *)
LEMMA ManagerStep == TypeOK /\ [Next]_vars => [SM!Next]_(SM!vars)
<1> SUFFICES ASSUME TypeOK, [Next]_vars PROVE [SM!Next]_(SM!vars)
  OBVIOUS
<1>1. ASSUME NEW s \in Session,
             CreateRefused(s) \/ CreateStart(s) \/ CreateReturn(s) \/ CreateFail(s)
      PROVE  SM!Next
  BY <1>1 DEF CreateRefused, CreateStart, CreateReturn, CreateFail, SM!Next
<1>2. ASSUME NEW t \in Stream, Outside(t) \/ ResumeNotFound(t) \/ Enter(t) PROVE SM!Next
  BY <1>2 DEF Outside, ResumeNotFound, Enter, SM!Next
<1>3. ASSUME NEW t \in Stream, Refused(t) PROVE SM!Next
  BY <1>3 DEF Refused, SM!Next
<1>4. ASSUME NEW t \in Stream,
             ExecFail(t) \/ BadLine(t) \/ Eof(t) \/ CancelAtAwait(t) \/ AbandonAtYield(t) \/
               Finalize(t)
      PROVE  SM!Next
  BY <1>4 DEF ExecFail, BadLine, Eof, CancelAtAwait, AbandonAtYield, Finalize, SM!Next
<1>5. ASSUME NEW c \in Closer,
             CloseNotFound(c) \/ CloseStart(c) \/ CloseReturn(c) \/ CloseFail(c)
      PROVE  SM!Next
  BY <1>5 DEF CloseNotFound, CloseStart, CloseReturn, CloseFail, SM!Next, TypeOK
<1>6. ASSUME NEW t \in Stream, QueryStart(t) \/ QueryEnds(t) PROVE UNCHANGED SM!vars
  BY <1>6 DEF QueryStart, QueryEnds, SM!vars
<1>7. ASSUME NEW s \in Session, ContainerDies(s) PROVE UNCHANGED SM!vars
  BY <1>7 DEF ContainerDies, SM!vars
<1>8. ASSUME NEW c \in Closer, CloseExecuted(c) \/ Removal(c) PROVE UNCHANGED SM!vars
  BY <1>8 DEF CloseExecuted, Removal, SM!vars
<1>9. CASE UNCHANGED vars
  BY <1>9 DEF SM!vars
<1> QED  BY <1>1, <1>2, <1>3, <1>4, <1>5, <1>6, <1>7, <1>8, <1>9 DEF Next

(* SM and MP are two instances of one module: what SessionManagerProofs    *)
(* and SessionManagerRefinement prove is said of MP.                       *)
LEMMA SameStep == [SM!Next]_(SM!vars) => [MP!Next]_(MP!vars)
BY DEF SM!Next, MP!Next, SM!vars, MP!vars, SM!registryVars, MP!registryVars, SM!lockVars,
       MP!lockVars, SM!streamVars, MP!streamVars, SM!closeVars, MP!closeVars, SM!CreateStart,
       MP!CreateStart, SM!CreateReturn, MP!CreateReturn, SM!CreateFail, MP!CreateFail,
       SM!CreateRefused, MP!CreateRefused, SM!StreamNotFound, MP!StreamNotFound,
       SM!StreamStart, MP!StreamStart, SM!StreamWait, MP!StreamWait, SM!StreamResume,
       MP!StreamResume, SM!StreamResumeNotFound, MP!StreamResumeNotFound, SM!StreamRefused,
       MP!StreamRefused, SM!StreamResumeRefused, MP!StreamResumeRefused, SM!StreamEnd,
       MP!StreamEnd, SM!StreamLeaveQueue, MP!StreamLeaveQueue, SM!StreamAbandon,
       MP!StreamAbandon, SM!StreamFinalize, MP!StreamFinalize, SM!Leave, MP!Leave,
       SM!CloseStart, MP!CloseStart, SM!CloseReturn, MP!CloseReturn, SM!CloseFail,
       MP!CloseFail, SM!CloseAtOnce, MP!CloseAtOnce, SM!CloseRefused, MP!CloseRefused,
       SM!Outcome, MP!Outcome, SM!Present, MP!Present, SM!KnownToClients, MP!KnownToClients,
       SM!FreshLock, MP!FreshLock, SM!Active, MP!Active, SM!InDriver, MP!InDriver, SM!Replaced,
       MP!Replaced, SM!Without, MP!Without, SM!Woken, MP!Woken, SM!AcquiredAtOnce,
       MP!AcquiredAtOnce, SM!RemoveAt, MP!RemoveAt

(* The same initial states.                                                *)
LEMMA SameInit == SM!Init => MP!Init
BY DEF SM!Init, MP!Init

(* The assumption of SessionManagerProofs on None.                         *)
LEMMA NoneApart == None \notin MP!ManagedSession \cup Mutex \cup Session
BY NoneAssumption DEF SM!ManagedSession, MP!ManagedSession, SM!Status, MP!Status

(* Under the docker driver the session manager behaves as SessionManager   *)
(* allows with any driver.                                                 *)
THEOREM ManagerImplemented == Spec => SM!Spec
<1>1. Init => SM!Init
  BY DEF Init
<1>2. TypeOK /\ [Next]_vars => [SM!Next]_(SM!vars)
  BY ManagerStep
<1> QED  BY <1>1, <1>2, TypeCorrect, PTL DEF Spec, SM!Spec

(* The same for the instance the theorems speak of.                        *)
LEMMA SameSpec == SM!Spec => MP!Spec
BY SameInit, SameStep, PTL DEF SM!Spec, MP!Spec

(* So what is proved of the manager alone holds under this driver: streams *)
(* of a session are served one at a time, in order of arrival and never    *)
(* once it is closed, and the status that GET reports is that of the lock. *)
THEOREM ManagerPromises ==
  Spec => /\ []MP!IInv /\ []MP!Serialized /\ []MP!StatusTracksStream
          /\ MP!ClosedIsFinal /\ MP!ServesInOrder
BY ManagerImplemented, SameSpec, NoneApart, MP!InductiveInvariant, MP!SerializedAlways,
   MP!StatusTracksStreamAlways, MP!ClosedStaysClosed, MP!ServesInOrderAlways, PTL

-------------------------------------------------------------------------------
(* A query that runs is read by its stream, or its stream was cut short.   *)
QueriesAreRead ==
  \A t \in Stream : query[t] = "running" =>
    step[t] = "reading" \/ streamPc[t] \in {"disconnected", "raised"}

(* Every step keeps it: a stream leaves with its query at work only when   *)
(* it is cut short.                                                        *)
LEMMA NextQueriesAreRead == IInv /\ QueriesAreRead /\ [Next]_vars => QueriesAreRead'
<1> SUFFICES ASSUME IInv, QueriesAreRead, [Next]_vars PROVE QueriesAreRead'
  OBVIOUS
<1> USE DEF IInv, TypeOK, ManagerTypes, QueriesAreRead, QueriesInContainers
<1>1. ASSUME NEW s \in Session,
             CreateRefused(s) \/ CreateStart(s) \/ CreateReturn(s) \/ CreateFail(s)
      PROVE  QueriesAreRead'
  BY <1>1 DEF CreateRefused, SM!CreateRefused, CreateStart, SM!CreateStart, CreateReturn,
              SM!CreateReturn, CreateFail, SM!CreateFail
<1>2. ASSUME NEW s \in Session, ContainerDies(s) PROVE QueriesAreRead'
  BY <1>2 DEF ContainerDies, Killed
<1>3. ASSUME NEW t \in Stream, Outside(t) \/ ResumeNotFound(t) \/ Refused(t)
      PROVE  QueriesAreRead'
  BY <1>3 DEF Outside, SM!StreamNotFound, SM!StreamWait, SM!StreamLeaveQueue, ResumeNotFound,
              SM!StreamResumeNotFound, Refused, SM!StreamRefused, SM!StreamResumeRefused
<1>4. ASSUME NEW t \in Stream, Enter(t) PROVE QueriesAreRead'
  BY <1>4 DEF Enter, SM!StreamResume, SM!StreamStart
<1>5. ASSUME NEW t \in Stream, QueryStart(t) \/ QueryEnds(t) PROVE QueriesAreRead'
  BY <1>5 DEF QueryStart, QueryEnds
<1>6. ASSUME NEW t \in Stream, ExecFail(t) \/ BadLine(t) PROVE QueriesAreRead'
  BY <1>6 DEF ExecFail, BadLine, SM!StreamEnd, SM!Leave
<1>7. ASSUME NEW t \in Stream, Eof(t) PROVE QueriesAreRead'
  BY <1>7 DEF Eof, SM!StreamEnd, SM!Leave
<1>8. ASSUME NEW t \in Stream, CancelAtAwait(t) PROVE QueriesAreRead'
  BY <1>8 DEF CancelAtAwait, SM!StreamEnd, SM!Leave
<1>9. ASSUME NEW t \in Stream, AbandonAtYield(t) PROVE QueriesAreRead'
  BY <1>9 DEF AbandonAtYield, SM!StreamAbandon
<1>10. ASSUME NEW t \in Stream, Finalize(t) PROVE QueriesAreRead'
  BY <1>10 DEF Finalize, SM!StreamFinalize, SM!Leave
<1>11. ASSUME NEW c \in Closer,
              CloseNotFound(c) \/ CloseStart(c) \/ CloseExecuted(c) \/ CloseReturn(c) \/
                CloseFail(c)
       PROVE  QueriesAreRead'
  BY <1>11 DEF CloseNotFound, SM!CloseRefused, CloseStart, SM!CloseStart, CloseExecuted,
               CloseReturn, SM!CloseReturn, CloseFail, SM!CloseFail, DriverForgets
<1>12. ASSUME NEW c \in Closer, Removal(c) PROVE QueriesAreRead'
  BY <1>12 DEF Removal, Killed
<1>13. CASE UNCHANGED vars
  BY <1>13
<1> QED
  BY <1>1, <1>2, <1>3, <1>4, <1>5, <1>6, <1>7, <1>8, <1>9, <1>10, <1>11, <1>12, <1>13 DEF Next

(* Two queries of one session run at once only if the stream of one was    *)
(* cut short: the session lock keeps a stream from the driver for as long  *)
(* as another one reads.                                                   *)
THEOREM QueriesOverlapOnlyAfterCut == Spec => []QueriesOverlapOnlyIfCut
<1>1. Init => QueriesAreRead
  BY DEF Init, QueriesAreRead
<1>2. Spec => []QueriesAreRead
  BY <1>1, NextQueriesAreRead, InductiveInvariant, PTL DEF Spec
<1>3. IInv /\ MP!Serialized /\ QueriesAreRead => QueriesOverlapOnlyIfCut
  <2> SUFFICES ASSUME IInv, MP!Serialized, QueriesAreRead,
                      NEW t \in Stream, NEW u \in Stream,
                      query[t] = "running", query[u] = "running",
                      streamSession[t] = streamSession[u],
                      {streamPc[t], streamPc[u]} \cap {"disconnected", "raised"} = {}
               PROVE  t = u
    BY DEF QueriesOverlapOnlyIfCut
  <2>1. step[t] = "reading" /\ step[u] = "reading"
    BY DEF QueriesAreRead
  <2>2. SM!InDriver(t) /\ SM!InDriver(u) /\ streamSession[t] \in Session
    BY <2>1 DEF IInv, QueriesInContainers
  <2> QED  BY <2>2 DEF MP!Serialized, MP!InDriver
<1> QED  BY <1>2, <1>3, InductiveInvariant, ManagerPromises, PTL
===============================================================================
