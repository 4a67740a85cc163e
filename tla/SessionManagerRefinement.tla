----------------------- MODULE SessionManagerRefinement -----------------------
(***************************************************************************)
(* The session manager implements SerialSessions, for any number of        *)
(* sessions, streams, close requests and lock objects.                     *)
(***************************************************************************)
EXTENDS SessionManagerProofs

USE DEF vars, registryVars, lockVars, streamVars, closeVars

(* Nobody can queue for a session before create_session has returned.      *)
LEMMA NewLockIdleStep == RInv /\ [Next]_vars => NewLockIdle'
<1> SUFFICES ASSUME RInv, [Next]_vars, NEW s \in Session, creation'[s] = "creating"
             PROVE  waiters'[sessions'[s].lock] = <<>>
  BY DEF NewLockIdle
<1> USE NoneAssumption DEF RInv, IInv
<1>1. \A t \in Stream, l \in Mutex, r \in Session :
        KnownToClients(r) /\ creation[s] = "creating" /\ Present(r) /\ sessions[r].lock = l
          => sessions[s].lock # l
  BY DEF KnownToClients, Registered, LocksApart
<1>2. \A t \in Stream : Active(t) /\ creation[s] = "creating" => sessions[s].lock # streamLock[t]
  BY DEF KnownToClients, Registered, LocksApart, ActiveStreams
<1>3. creation[s] = "creating" => /\ sessions[s] \in ManagedSession
                                  /\ waiters[sessions[s].lock] = <<>>
  BY DEF Registered, TypeOK, NewLockIdle, Present
<1>4. ASSUME NEW r \in Session, CreateStart(r) PROVE waiters'[sessions'[s].lock] = <<>>
  <2>1. PICK l \in Mutex :
          /\ FreshLock(l)
          /\ sessions' = [sessions EXCEPT ![r] = [status |-> "READY", lock |-> l]]
          /\ waiters' = [waiters EXCEPT ![l] = <<>>]
    BY <1>4 DEF CreateStart
  <2>2. CASE r = s
    BY <2>1, <2>2 DEF TypeOK
  <2>3. CASE r # s
    <3>1. creation[s] = "creating" /\ sessions'[s] = sessions[s]
      BY <1>4, <2>1, <2>3 DEF CreateStart, TypeOK
    <3> QED  BY <1>3, <2>1, <3>1 DEF TypeOK, ManagedSession
  <2> QED  BY <2>2, <2>3
<1>5. ASSUME NEW r \in Session, CreateReturn(r) \/ CreateFail(r) \/ CreateRefused(r)
      PROVE  waiters'[sessions'[s].lock] = <<>>
  <2>1. r # s /\ creation[s] = "creating" /\ sessions'[s] = sessions[s] /\ waiters' = waiters
    BY <1>5 DEF CreateReturn, CreateFail, CreateRefused, Without, TypeOK, CreationState
  <2> QED  BY <1>3, <2>1
<1>6. ASSUME NEW t \in Stream, NEW r \in Session, StreamNotFound(t, r)
      PROVE  waiters'[sessions'[s].lock] = <<>>
  BY <1>3, <1>6 DEF StreamNotFound
<1>7. ASSUME NEW t \in Stream, NEW r \in Session, StreamStart(t, r)
      PROVE  waiters'[sessions'[s].lock] = <<>>
  BY <1>3, <1>7 DEF StreamStart, Replaced, TypeOK, KnownToClients
<1>8. ASSUME NEW t \in Stream, NEW r \in Session, StreamWait(t, r)
      PROVE  waiters'[sessions'[s].lock] = <<>>
  <2>1. sessions[r].lock \in Mutex /\ KnownToClients(r) /\ Present(r)
    BY <1>8 DEF StreamWait, TypeOK, ManagedSession, Present
  <2>2. sessions[s].lock # sessions[r].lock
    BY <1>1, <1>8, <2>1 DEF StreamWait
  <2> QED  BY <1>3, <1>8, <2>1, <2>2 DEF StreamWait, TypeOK, ManagedSession
<1>9. ASSUME NEW t \in Stream, StreamResume(t)
      PROVE  waiters'[sessions'[s].lock] = <<>>
  <2>1. Active(t) /\ creation' = creation
    BY <1>9 DEF StreamResume, Active
  <2>2. streamSession[t] # s /\ sessions' = Replaced(streamSession[t], "RUNNING")
    BY <1>9, <2>1 DEF StreamResume, ActiveStreams, KnownToClients
  <2>3. sessions'[s] = sessions[s]
    BY <2>2 DEF Replaced, TypeOK
  <2> QED  BY <1>2, <1>3, <1>9, <2>1, <2>3 DEF StreamResume, TypeOK, ManagedSession
<1>10. ASSUME NEW t \in Stream, NEW o,
              StreamResumeNotFound(t) \/ StreamLeaveQueue(t) \/ StreamResumeRefused(t, o)
       PROVE  waiters'[sessions'[s].lock] = <<>>
  <2>1. Active(t) /\ UNCHANGED registryVars
    BY <1>10 DEF StreamResumeNotFound, StreamLeaveQueue, StreamResumeRefused, Active
  <2>2. \A l \in Mutex : l # streamLock[t] => waiters'[l] = waiters[l]
    BY <1>10 DEF StreamResumeNotFound, StreamLeaveQueue, StreamResumeRefused, TypeOK
  <2> QED  BY <1>2, <1>3, <2>1, <2>2 DEF ManagedSession
<1>11. ASSUME NEW t \in Stream, NEW o \in Outcome, InDriver(t), Leave(t, o)
       PROVE  waiters'[sessions'[s].lock] = <<>>
  <2>1. creation' = creation /\ waiters' = waiters
    BY <1>11 DEF Leave
  <2>2. streamSession[t] # s
    BY <1>11, <2>1 DEF ActiveStreams, Active, KnownToClients
  <2>3. sessions'[s] = sessions[s]
    BY <1>11, <2>2 DEF Leave, Replaced, TypeOK
  <2> QED  BY <1>3, <2>1, <2>3
<1>12. ASSUME NEW t \in Stream, StreamAbandon(t) PROVE waiters'[sessions'[s].lock] = <<>>
  BY <1>3, <1>12 DEF StreamAbandon
<1>13. ASSUME NEW c \in Closer, NEW r, CloseStart(c, r) \/ CloseFail(c, r)
       PROVE  waiters'[sessions'[s].lock] = <<>>
  BY <1>3, <1>13 DEF CloseStart, CloseFail
<1>14. ASSUME NEW c \in Closer, CloseReturn(c) PROVE waiters'[sessions'[s].lock] = <<>>
  <2>1. closeSession[c] # s
    BY <1>14 DEF CloseReturn, Registered, KnownToClients
  <2> QED  BY <1>3, <1>14, <2>1 DEF CloseReturn, Without, TypeOK
<1>15. CASE UNCHANGED vars
  BY <1>3, <1>15
<1>16. "disconnected" \in Outcome
  BY DEF Outcome
<1>17. ASSUME NEW t \in Stream, NEW r \in Session, NEW o, StreamRefused(t, r, o)
       PROVE  waiters'[sessions'[s].lock] = <<>>
  BY <1>3, <1>17 DEF StreamRefused
<1>18. ASSUME NEW c \in Closer, NEW r \in Session, NEW o,
              CloseAtOnce(c, r) \/ CloseRefused(c, r, o)
       PROVE  waiters'[sessions'[s].lock] = <<>>
  <2>1. creation' = creation /\ creation[r] = "returned" /\ waiters' = waiters
    BY <1>18 DEF CloseAtOnce, CloseRefused, KnownToClients
  <2>2. sessions'[s] = sessions[s]
    BY <1>18, <2>1 DEF CloseAtOnce, CloseRefused, Without, TypeOK
  <2> QED  BY <1>3, <2>1, <2>2
<1> QED
  BY <1>4, <1>5, <1>6, <1>7, <1>8, <1>9, <1>10, <1>11, <1>12, <1>13, <1>14, <1>15, <1>16,
     <1>17, <1>18
     DEF Next, StreamEnd, StreamFinalize, InDriver

(* What the refinement mapping needs holds in every reachable state.       *)
THEOREM RefinementInvariant == Spec => []RInv
<1>1. Init => RInv
  BY InitIInv DEF RInv, Init, NewLockIdle
<1>2. RInv /\ [Next]_vars => RInv'
  BY NextIInv, NewLockIdleStep DEF RInv
<1> QED  BY <1>1, <1>2, PTL DEF Spec

-------------------------------------------------------------------------------
(* When none of what the mapping reads of a session changes, the mapped    *)
(* step is a stutter.                                                      *)
LEMMA Stutter ==
  ASSUME \A s \in Session :
           /\ AbsPhase'[s] = AbsPhase[s]
           /\ AbsQueue'[s] = AbsQueue[s]
           /\ \A t \in Stream : InDriver(t)' /\ streamSession'[t] = s
                                <=> InDriver(t) /\ streamSession[t] = s
  PROVE  UNCHANGED <<AbsPhase, AbsQueue, AbsServing>>
BY DEF AbsPhase, AbsQueue, AbsServing

(* A step that changes neither the registry, nor which streams are in the  *)
(* driver, nor the queue of any session that is open.                      *)
LEMMA QueueStutter ==
  ASSUME UNCHANGED registryVars,
         \A s \in Session : Present(s) => waiters'[sessions[s].lock] = waiters[sessions[s].lock],
         \A t \in Stream : InDriver(t)' <=> InDriver(t),
         \A t \in Stream : InDriver(t) => streamSession'[t] = streamSession[t]
  PROVE  UNCHANGED <<AbsPhase, AbsQueue, AbsServing>>
<1>1. UNCHANGED AbsPhase
  BY DEF AbsPhase, Present
<1>2. UNCHANGED AbsQueue
  BY DEF AbsQueue, Present, KnownToClients
<1>3. UNCHANGED AbsServing
  BY DEF AbsServing
<1> QED  BY <1>1, <1>2, <1>3

(* Phase and queue depend on the lock of a record, not on its status.      *)
LEMMA SameLocks ==
  ASSUME UNCHANGED creation,
         \A s \in Session : /\ Present(s)' <=> Present(s)
                            /\ Present(s) => sessions'[s].lock = sessions[s].lock
  PROVE  /\ UNCHANGED AbsPhase
         /\ AbsQueue' = [s \in Session |->
              IF KnownToClients(s) /\ Present(s) THEN waiters'[sessions[s].lock] ELSE <<>>]
<1>1. UNCHANGED AbsPhase
  BY DEF AbsPhase
<1>2. \A s \in Session : AbsQueue'[s] =
        IF KnownToClients(s) /\ Present(s) THEN waiters'[sessions[s].lock] ELSE <<>>
  BY DEF AbsQueue, KnownToClients
<1> QED  BY <1>1, <1>2 DEF AbsQueue

(* _replace_session carries the lock over.                                 *)
LEMMA ReplacedKeepsLocks ==
  ASSUME TypeOK, NEW s \in Session, Present(s), NEW status \in Status,
         sessions' = Replaced(s, status)
  PROVE  \A r \in Session : /\ Present(r)' <=> Present(r)
                            /\ Present(r) => sessions'[r].lock = sessions[r].lock
<1> USE NoneAssumption
<1>1. sessions'[s] = [status |-> status, lock |-> sessions[s].lock]
  BY DEF TypeOK, Replaced
<1>2. sessions[s] \in ManagedSession
  BY DEF TypeOK, Present
<1>3. sessions'[s] # None /\ sessions'[s].lock = sessions[s].lock
  BY <1>1, <1>2 DEF ManagedSession
<1>4. \A r \in Session : r # s => sessions'[r] = sessions[r]
  BY DEF TypeOK, Replaced
<1> QED  BY <1>3, <1>4 DEF Present

(* create_session opens the session when it returns, or fails it.          *)
LEMMA CreateRefines ==
  ASSUME RInv, NEW s \in Session,
         CreateStart(s) \/ CreateReturn(s) \/ CreateFail(s) \/ CreateRefused(s)
  PROVE  [Serial!Next]_(Serial!vars)
<1> USE NoneAssumption DEF RInv, IInv
<1>1. \A t \in Stream : /\ InDriver(t)' <=> InDriver(t)
                        /\ streamSession'[t] = streamSession[t]
  BY DEF CreateStart, CreateReturn, CreateFail, CreateRefused, InDriver
<1>2. UNCHANGED AbsServing
  BY <1>1 DEF AbsServing
<1>3. CASE CreateStart(s)
  <2>1. PICK l \in Mutex :
          /\ FreshLock(l)
          /\ sessions' = [sessions EXCEPT ![s] = [status |-> "READY", lock |-> l]]
          /\ waiters' = [waiters EXCEPT ![l] = <<>>]
    BY <1>3 DEF CreateStart
  <2>2. creation[s] = "unborn" /\ creation' = [creation EXCEPT ![s] = "creating"]
    BY <1>3 DEF CreateStart
  <2>3. \A r \in Session : r # s => /\ creation'[r] = creation[r]
                                    /\ sessions'[r] = sessions[r]
                                    /\ Present(r) => waiters'[sessions[r].lock] = waiters[sessions[r].lock]
    BY <2>1, <2>2 DEF TypeOK, FreshLock, ManagedSession, Present
  <2>4. \A r \in Session : AbsPhase'[r] = AbsPhase[r]
    BY <2>2, <2>3 DEF AbsPhase, TypeOK, Present
  <2>5. \A r \in Session : AbsQueue'[r] = AbsQueue[r]
    BY <2>2, <2>3 DEF AbsQueue, TypeOK, Present, KnownToClients
  <2> QED  BY <1>1, <2>4, <2>5, Stutter DEF Serial!vars
<1>4. CASE CreateReturn(s)
  <2>1. /\ creation[s] = "creating" /\ creation' = [creation EXCEPT ![s] = "returned"]
        /\ UNCHANGED <<sessions, waiters>>
    BY <1>4 DEF CreateReturn
  <2>2. Present(s) /\ waiters[sessions[s].lock] = <<>>
    BY <2>1 DEF Registered, NewLockIdle
  <2>3. AbsPhase[s] = "unborn" /\ AbsPhase' = [AbsPhase EXCEPT ![s] = "open"]
    BY <2>1, <2>2 DEF AbsPhase, TypeOK, Present
  <2>4. AbsQueue' = AbsQueue
    BY <2>1, <2>2 DEF AbsQueue, TypeOK, Present, KnownToClients
  <2> QED  BY <1>2, <2>3, <2>4 DEF Serial!Next, Serial!Open
<1>5. CASE CreateFail(s)
  <2>1. /\ creation[s] = "creating" /\ creation' = [creation EXCEPT ![s] = "failed"]
        /\ sessions' = [sessions EXCEPT ![s] = None] /\ UNCHANGED waiters
    BY <1>5 DEF CreateFail, Without
  <2>2. AbsPhase[s] = "unborn" /\ AbsPhase' = [AbsPhase EXCEPT ![s] = "gone"]
    BY <2>1 DEF AbsPhase, TypeOK, Present
  <2>3. AbsQueue' = AbsQueue
    BY <2>1 DEF AbsQueue, TypeOK, Present, KnownToClients
  <2> QED  BY <1>2, <2>2, <2>3 DEF Serial!Next, Serial!Fail
<1>6. CASE CreateRefused(s)
  <2>1. /\ creation[s] = "unborn" /\ creation' = [creation EXCEPT ![s] = "failed"]
        /\ UNCHANGED <<sessions, waiters>>
    BY <1>6 DEF CreateRefused
  <2>2. AbsPhase[s] = "unborn" /\ AbsPhase' = [AbsPhase EXCEPT ![s] = "gone"]
    BY <2>1 DEF AbsPhase, TypeOK, Present
  <2>3. AbsQueue' = AbsQueue
    BY <2>1 DEF AbsQueue, TypeOK, Present, KnownToClients
  <2> QED  BY <1>2, <2>2, <2>3 DEF Serial!Next, Serial!Fail
<1> QED  BY <1>3, <1>4, <1>5, <1>6

(* A stream that finds the lock free starts an idle session.               *)
LEMMA StartRefines ==
  ASSUME RInv, NEW t \in Stream, NEW s \in Session, StreamStart(t, s)
  PROVE  [Serial!Next]_(Serial!vars)
<1> USE DEF RInv, IInv
<1>1. /\ KnownToClients(s) /\ Present(s)
      /\ ~locked[sessions[s].lock] /\ waiters[sessions[s].lock] = <<>>
      /\ sessions' = Replaced(s, "RUNNING") /\ UNCHANGED <<creation, waiters>>
  BY DEF StreamStart, AcquiredAtOnce
<1>2. \A r \in Session : /\ Present(r)' <=> Present(r)
                         /\ Present(r) => sessions'[r].lock = sessions[r].lock
  BY <1>1, ReplacedKeepsLocks DEF Status
<1>3. UNCHANGED AbsPhase /\ UNCHANGED AbsQueue
  BY <1>1, <1>2, SameLocks DEF AbsQueue
<1>4. \A u \in Stream : InDriver(u) => streamSession[u] # s
  BY <1>1 DEF LockHeld, LocksApart, Active
<1>5. ~InDriver(t) /\ InDriver(t)' /\ streamSession'[t] = s
  BY DEF StreamStart, InDriver, TypeOK
<1>6. \A u \in Stream : u # t => /\ InDriver(u)' <=> InDriver(u)
                                /\ streamSession'[u] = streamSession[u]
  BY DEF StreamStart, InDriver, TypeOK
<1>7. AbsServing[s] = {} /\ AbsServing' = [AbsServing EXCEPT ![s] = {t}]
  <2>1. AbsServing'[s] = {t} /\ AbsServing[s] = {}
    BY <1>4, <1>5, <1>6 DEF AbsServing
  <2>2. \A r \in Session : r # s => AbsServing'[r] = AbsServing[r]
    BY <1>5, <1>6 DEF AbsServing
  <2> QED  BY <2>1, <2>2 DEF AbsServing
<1>8. AbsPhase[s] = "open" /\ AbsQueue[s] = <<>>
  BY <1>1 DEF AbsPhase, AbsQueue, KnownToClients
<1> QED  BY <1>3, <1>7, <1>8 DEF Serial!Next, Serial!Start

(* When the queue of one session changes, the mapped queues are updated    *)
(* there.                                                                  *)
LEMMA OneQueueChanges ==
  ASSUME NEW s \in Session, \A r \in Session : r # s => AbsQueue'[r] = AbsQueue[r]
  PROVE  AbsQueue' = [AbsQueue EXCEPT ![s] = AbsQueue'[s]]
BY DEF AbsQueue

(* A stream that waits for the lock is submitted behind the others.        *)
LEMMA WaitRefines ==
  ASSUME RInv, NEW t \in Stream, NEW s \in Session, StreamWait(t, s)
  PROVE  [Serial!Next]_(Serial!vars)
<1> DEFINE l == sessions[s].lock
<1> USE DEF RInv, IInv
<1>1. /\ KnownToClients(s) /\ Present(s) /\ l \in Mutex
      /\ locked[l] \/ waiters[l] # <<>>
      /\ waiters' = [waiters EXCEPT ![l] = Append(@, t)] /\ UNCHANGED registryVars
  BY DEF StreamWait, AcquiredAtOnce, TypeOK, ManagedSession, Present
<1>2. \A u \in Stream : InDriver(u) => Active(u)
  BY DEF Active
<1>3. ~InDriver(t) /\ ~InDriver(t)'
  BY DEF StreamWait, InDriver, TypeOK
<1>4. \A u \in Stream : u # t => /\ InDriver(u)' <=> InDriver(u)
                                /\ streamSession'[u] = streamSession[u]
  BY DEF StreamWait, InDriver, TypeOK
<1>5. UNCHANGED AbsServing /\ UNCHANGED AbsPhase
  BY <1>1, <1>3, <1>4 DEF AbsServing, AbsPhase, Present
<1>6. AbsPhase[s] = "open" /\ AbsQueue[s] = waiters[l]
  BY <1>1 DEF AbsPhase, AbsQueue, KnownToClients
<1>7. AbsServing[s] # {} \/ AbsQueue[s] # <<>>
  <2>1. ASSUME locked[l] PROVE AbsServing[s] # {}
    <3>1. PICK u \in Stream : InDriver(u) /\ streamLock[u] = l
      BY <1>1, <2>1 DEF LockHeld
    <3>2. streamSession[u] = s
      BY <1>1, <1>2, <3>1 DEF LocksApart
    <3> QED  BY <3>1, <3>2 DEF AbsServing
  <2> QED  BY <1>1, <1>6, <2>1
<1>8. AbsQueue' = [AbsQueue EXCEPT ![s] = Append(@, t)]
  <2>1. \A r \in Session : Present(r) /\ r # s => waiters'[sessions[r].lock] = waiters[sessions[r].lock]
    BY <1>1 DEF LocksApart, TypeOK
  <2>2. waiters'[l] = Append(waiters[l], t)
    BY <1>1 DEF TypeOK
  <2>3. AbsQueue'[s] = Append(AbsQueue[s], t)
    BY <1>1, <1>6, <2>2 DEF AbsQueue, KnownToClients, Present
  <2>4. \A r \in Session : r # s => AbsQueue'[r] = AbsQueue[r]
    BY <1>1, <2>1 DEF AbsQueue, KnownToClients, Present
  <2> QED  BY <1>1, <2>3, <2>4, OneQueueChanges
<1> QED  BY <1>5, <1>6, <1>7, <1>8 DEF Serial!Next, Serial!Submit

(* The waiter that release has woken is the next in line.                  *)
LEMMA ResumeRefines ==
  ASSUME RInv, NEW t \in Stream, StreamResume(t)
  PROVE  [Serial!Next]_(Serial!vars)
<1> DEFINE s == streamSession[t]
           l == streamLock[t]
<1> USE DEF RInv, IInv
<1>1. Active(t) /\ ~InDriver(t) /\ s \in Session /\ l \in Mutex /\ KnownToClients(s)
  BY DEF StreamResume, Active, ActiveStreams, InDriver
<1>2. Present(s) /\ sessions[s].lock = l
  BY <1>1 DEF StreamResume, LocksApart
<1>3. /\ ~locked[l] /\ waiters[l] # <<>> /\ Head(waiters[l]) = t
      /\ waiters' = [waiters EXCEPT ![l] = Tail(@)]
      /\ sessions' = Replaced(s, "RUNNING") /\ UNCHANGED <<creation, streamSession>>
  BY DEF StreamResume, Woken
<1>4. \A r \in Session : /\ Present(r)' <=> Present(r)
                         /\ Present(r) => sessions'[r].lock = sessions[r].lock
  BY <1>1, <1>2, <1>3, ReplacedKeepsLocks DEF Status
<1>5. /\ UNCHANGED AbsPhase
      /\ AbsQueue' = [r \in Session |->
           IF KnownToClients(r) /\ Present(r) THEN waiters'[sessions[r].lock] ELSE <<>>]
  BY <1>3, <1>4, SameLocks
<1>6. AbsPhase[s] = "open" /\ AbsQueue[s] = waiters[l]
  BY <1>1, <1>2 DEF AbsPhase, AbsQueue, KnownToClients
<1>7. AbsQueue' = [AbsQueue EXCEPT ![s] = Tail(@)]
  <2>1. \A r \in Session : Present(r) /\ r # s => waiters'[sessions[r].lock] = waiters[sessions[r].lock]
    BY <1>1, <1>2, <1>3 DEF LocksApart, TypeOK
  <2>2. waiters'[l] = Tail(waiters[l])
    BY <1>1, <1>3 DEF TypeOK
  <2>3. AbsQueue'[s] = Tail(AbsQueue[s])
    BY <1>1, <1>2, <1>5, <1>6, <2>2
  <2>4. \A r \in Session : r # s => AbsQueue'[r] = AbsQueue[r]
    BY <1>5, <2>1 DEF AbsQueue
  <2> QED  BY <1>1, <2>3, <2>4, OneQueueChanges
<1>8. \A u \in Stream : InDriver(u) => streamSession[u] # s
  BY <1>1, <1>2, <1>3 DEF LockHeld, LocksApart, Active
<1>9. InDriver(t)' /\ \A u \in Stream : u # t => (InDriver(u)' <=> InDriver(u))
  BY DEF StreamResume, InDriver, TypeOK
<1>10. AbsServing[s] = {} /\ AbsServing' = [AbsServing EXCEPT ![s] = {t}]
  <2>1. AbsServing'[s] = {t} /\ AbsServing[s] = {}
    BY <1>1, <1>3, <1>8, <1>9 DEF AbsServing
  <2>2. \A r \in Session : r # s => AbsServing'[r] = AbsServing[r]
    BY <1>1, <1>3, <1>9 DEF AbsServing
  <2> QED  BY <2>1, <2>2 DEF AbsServing
<1> QED  BY <1>1, <1>3, <1>5, <1>6, <1>7, <1>10 DEF Serial!Next, Serial!Turn

(* The finally clause finishes the stream that is being served.            *)
LEMMA LeaveRefines ==
  ASSUME RInv, NEW t \in Stream, NEW o \in Outcome, InDriver(t), Leave(t, o)
  PROVE  [Serial!Next]_(Serial!vars)
<1> DEFINE s == streamSession[t]
<1> USE DEF RInv, IInv
<1>1. s \in Session
  BY DEF ActiveStreams, Active
<1>2. \A r \in Session : /\ Present(r)' <=> Present(r)
                         /\ Present(r) => sessions'[r].lock = sessions[r].lock
  <2>1. CASE Present(s)
    BY <1>1, <2>1, ReplacedKeepsLocks DEF Leave, Status
  <2>2. CASE ~Present(s)
    BY <2>2 DEF Leave, Present
  <2> QED  BY <2>1, <2>2
<1>3. UNCHANGED <<creation, waiters, streamSession>>
  BY DEF Leave
<1>4. UNCHANGED AbsPhase /\ UNCHANGED AbsQueue
  BY <1>2, <1>3, SameLocks DEF AbsQueue
<1>5. ~InDriver(t)' /\ \A u \in Stream : u # t => (InDriver(u)' <=> InDriver(u))
  BY DEF Leave, InDriver, TypeOK, Outcome
<1>6. t \in AbsServing[s] /\ AbsServing' = [AbsServing EXCEPT ![s] = @ \ {t}]
  <2>1. t \in AbsServing[s] /\ AbsServing'[s] = AbsServing[s] \ {t}
    BY <1>1, <1>3, <1>5 DEF AbsServing
  <2>2. \A r \in Session : r # s => AbsServing'[r] = AbsServing[r]
    BY <1>3, <1>5 DEF AbsServing
  <2> QED  BY <2>1, <2>2 DEF AbsServing
<1> QED  BY <1>1, <1>4, <1>6 DEF Serial!Next, Serial!Finish

(* Who is first in line leaves it by the front.                            *)
LEMMA FirstRemoved ==
  ASSUME NEW S, NEW q \in Seq(S), q # <<>>
  PROVE  1 \in DOMAIN q /\ Tail(q) = RemoveAt(q, 1)
<1>1. SubSeq(q, 1, 0) = <<>> /\ SubSeq(q, 2, Len(q)) = Tail(q)
  OBVIOUS
<1> QED  BY <1>1 DEF RemoveAt

(* A cancelled acquire leaves the queue, and so does a waiter whose turn   *)
(* the driver refuses; the others keep their order.                        *)
LEMMA LeaveQueueRefines ==
  ASSUME RInv, NEW t \in Stream, NEW o \in {"not_found", "raised"},
         StreamLeaveQueue(t) \/ StreamResumeRefused(t, o)
  PROVE  [Serial!Next]_(Serial!vars)
<1> DEFINE s == streamSession[t]
           l == streamLock[t]
<1> USE DEF RInv, IInv
<1>1. Active(t) /\ s \in Session /\ l \in Mutex /\ KnownToClients(s)
  BY DEF StreamLeaveQueue, StreamResumeRefused, Active, ActiveStreams
<1>2. PICK i \in DOMAIN waiters[l] : waiters' = [waiters EXCEPT ![l] = RemoveAt(@, i)]
  <2>1. CASE StreamResumeRefused(t, o)
    <3>1. waiters[l] \in Seq(Stream) /\ waiters[l] # <<>>
      BY <1>1, <2>1 DEF StreamResumeRefused, Woken, TypeOK
    <3>2. 1 \in DOMAIN waiters[l] /\ Tail(waiters[l]) = RemoveAt(waiters[l], 1)
      BY <3>1, FirstRemoved
    <3> QED  BY <2>1, <3>2 DEF StreamResumeRefused
  <2> QED  BY <2>1 DEF StreamLeaveQueue
<1>3. UNCHANGED <<registryVars, streamSession>>
  BY DEF StreamLeaveQueue, StreamResumeRefused
<1>4. \A u \in Stream : InDriver(u)' <=> InDriver(u)
  BY DEF StreamLeaveQueue, StreamResumeRefused, InDriver, TypeOK
<1>5. \A r \in Session : Present(r) /\ r # s => waiters'[sessions[r].lock] = waiters[sessions[r].lock]
  BY <1>1, <1>2 DEF LocksApart, TypeOK
<1>6. CASE ~Present(s)
  BY <1>3, <1>4, <1>5, <1>6, QueueStutter DEF Serial!vars
<1>7. CASE Present(s)
  <2>1. sessions[s].lock = l
    BY <1>1, <1>7 DEF LocksApart
  <2>2. AbsQueue[s] = waiters[l]
    BY <1>1, <1>7, <2>1 DEF AbsQueue
  <2>3. AbsQueue'[s] = RemoveAt(AbsQueue[s], i)
    BY <1>1, <1>2, <1>3, <1>7, <2>1, <2>2 DEF AbsQueue, TypeOK, KnownToClients, Present
  <2>4. \A r \in Session : r # s => AbsQueue'[r] = AbsQueue[r]
    BY <1>3, <1>5 DEF AbsQueue, KnownToClients, Present
  <2>5. AbsQueue' = [AbsQueue EXCEPT ![s] = SubSeq(@, 1, i - 1) \o SubSeq(@, i + 1, Len(@))]
    <3>1. AbsQueue' = [AbsQueue EXCEPT ![s] = AbsQueue'[s]]
      BY <1>1, <2>4, OneQueueChanges
    <3> HIDE DEF RInv, IInv
    <3>2. AbsQueue'[s] = SubSeq(AbsQueue[s], 1, i - 1) \o SubSeq(AbsQueue[s], i + 1, Len(AbsQueue[s]))
      BY <2>3 DEF RemoveAt
    <3> QED  BY <3>1, <3>2
  <2>6. UNCHANGED <<AbsPhase, AbsServing>>
    BY <1>3, <1>4 DEF AbsPhase, AbsServing, Present
  <2>7. Serial!Leave(s, i)
    BY <1>2, <2>2, <2>5, <2>6 DEF Serial!Leave
  <2> QED  BY <1>1, <1>2, <2>2, <2>7 DEF Serial!Next
<1> QED  BY <1>6, <1>7

(* The first close that returns closes the session, the others stutter.    *)
LEMMA CloseRefines ==
  ASSUME RInv, NEW s \in Session, creation[s] = "returned", sessions' = Without(s),
         UNCHANGED <<creation, waiters, streamPc, streamSession>>
  PROVE  [Serial!Next]_(Serial!vars)
<1> USE DEF RInv, IInv
<1>1. s \in Session /\ creation[s] = "returned"
  OBVIOUS
<1>2. /\ sessions' = [sessions EXCEPT ![s] = None]
      /\ UNCHANGED <<creation, waiters, streamPc, streamSession>>
  BY DEF Without
<1>3. UNCHANGED AbsServing
  BY <1>2 DEF AbsServing, InDriver
<1>4. AbsPhase' = [AbsPhase EXCEPT ![s] = "gone"]
  BY <1>1, <1>2 DEF AbsPhase, TypeOK, Present
<1>5. AbsQueue' = [AbsQueue EXCEPT ![s] = <<>>]
  BY <1>1, <1>2 DEF AbsQueue, TypeOK, Present, KnownToClients
<1>6. CASE Present(s)
  <2>1. AbsPhase[s] = "open"
    BY <1>1, <1>6 DEF AbsPhase
  <2> QED  BY <1>1, <1>3, <1>4, <1>5, <2>1 DEF Serial!Next, Serial!Close
<1>7. CASE ~Present(s)
  <2>1. AbsPhase[s] = "gone" /\ AbsQueue[s] = <<>>
    BY <1>1, <1>7 DEF AbsPhase, AbsQueue
  <2>2. AbsPhase' = AbsPhase /\ AbsQueue' = AbsQueue
    BY <1>4, <1>5, <2>1 DEF AbsPhase, AbsQueue
  <2> QED  BY <1>3, <2>2 DEF Serial!vars
<1> QED  BY <1>6, <1>7

(* The streams of a session are served one at a time, in order of arrival, *)
(* and none once the session is closed.                                    *)
THEOREM ServesInOrderAlways == Spec => ServesInOrder
<1>1. Init => Serial!Init
  BY DEF Init, Serial!Init, AbsPhase, AbsQueue, AbsServing, KnownToClients, InDriver
<1>2. RInv /\ [Next]_vars => [Serial!Next]_(Serial!vars)
  <2> SUFFICES ASSUME RInv, [Next]_vars PROVE [Serial!Next]_(Serial!vars)
    OBVIOUS
  <2>1. ASSUME NEW t \in Stream, NEW s \in Session, StreamNotFound(t, s)
        PROVE  [Serial!Next]_(Serial!vars)
    BY <2>1, QueueStutter DEF StreamNotFound, InDriver, Serial!vars, RInv, IInv, TypeOK
  <2>2. ASSUME NEW t \in Stream, StreamResumeNotFound(t)
        PROVE  [Serial!Next]_(Serial!vars)
    <3>1. /\ \A s \in Session : Present(s) => waiters'[sessions[s].lock] = waiters[sessions[s].lock]
      BY <2>2 DEF StreamResumeNotFound, Active, LocksApart, ActiveStreams, RInv, IInv, TypeOK
    <3>2. \A u \in Stream : InDriver(u)' <=> InDriver(u)
      BY <2>2 DEF StreamResumeNotFound, InDriver, RInv, IInv, TypeOK
    <3> QED  BY <2>2, <3>1, <3>2, QueueStutter DEF StreamResumeNotFound, Serial!vars
  <2>3. ASSUME NEW t \in Stream, StreamAbandon(t)
        PROVE  [Serial!Next]_(Serial!vars)
    BY <2>3, QueueStutter DEF StreamAbandon, InDriver, Serial!vars, RInv, IInv, TypeOK
  <2>4. ASSUME NEW c \in Closer, NEW r, CloseStart(c, r) \/ CloseFail(c, r)
        PROVE  [Serial!Next]_(Serial!vars)
    BY <2>4, QueueStutter DEF CloseStart, CloseFail, InDriver, Serial!vars
  <2>5. CASE UNCHANGED vars
    BY <2>5, QueueStutter DEF InDriver, Serial!vars
  <2>6. "disconnected" \in Outcome
    BY DEF Outcome
  <2>7. ASSUME NEW t \in Stream, NEW s \in Session, NEW o \in {"not_found", "raised"},
               StreamRefused(t, s, o)
        PROVE  [Serial!Next]_(Serial!vars)
    BY <2>7, QueueStutter DEF StreamRefused, InDriver, Serial!vars, RInv, IInv, TypeOK
  <2>8. ASSUME NEW c \in Closer, NEW s \in Session, NEW o, CloseRefused(c, s, o)
        PROVE  [Serial!Next]_(Serial!vars)
    BY <2>8, QueueStutter DEF CloseRefused, InDriver, Serial!vars
  <2>9. ASSUME NEW c \in Closer, CloseReturn(c) \/ \E s \in Session : CloseAtOnce(c, s)
        PROVE  [Serial!Next]_(Serial!vars)
    BY <2>9, CloseRefines DEF CloseReturn, CloseAtOnce, KnownToClients, Registered, RInv, IInv
  <2> QED
    BY <2>1, <2>2, <2>3, <2>4, <2>5, <2>6, <2>7, <2>8, <2>9, CreateRefines, StartRefines,
       WaitRefines, ResumeRefines, LeaveRefines, LeaveQueueRefines
       DEF Next, StreamEnd, StreamFinalize, InDriver
<1> QED  BY <1>1, <1>2, RefinementInvariant, PTL DEF Spec, ServesInOrder, Serial!Spec
===============================================================================
