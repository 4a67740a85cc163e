---------------------------- MODULE SessionManager ----------------------------
(***************************************************************************)
(* The session registry of Aviary (session_manager.py) as the HTTP routes  *)
(* of main.py drive it: creating a session, streaming messages through the *)
(* per-session lock, closing, and clients that disconnect at any moment.   *)
(*                                                                         *)
(* One action is the code between two suspension points of the event loop. *)
(* SessionManager._lock is never held across a suspension, so the blocks   *)
(* it guards are single steps and the lock itself never has a waiter.      *)
(* The sandbox driver is left open here: each of its calls may return or   *)
(* raise whenever it likes, before it has suspended even once included.    *)
(* EmbeddedRuntime and ManagedRuntime put the two real drivers in its      *)
(* place.                                                                  *)
(***************************************************************************)
EXTENDS Naturals, Sequences

CONSTANTS
  Session,   \* ids drawn by create_session (uuid4: never drawn twice)
  Stream,    \* requests to POST /v1/sessions/{id}/messages:stream
  Closer,    \* requests to DELETE /v1/sessions/{id}
  Mutex,     \* asyncio.Lock objects
  None       \* what _sessions.get returns for an id it does not hold

VARIABLES
  sessions,      \* SessionManager._sessions
  creation,      \* where create_session is, per id
  locked,        \* asyncio.Lock._locked
  waiters,       \* asyncio.Lock._waiters
  streamPc,      \* where the stream request is
  streamSession, \* the session it names
  streamLock,    \* session.lock, read before the request waits for it
  closePc,       \* where the close request is
  closeSession   \* the session it names

registryVars == <<sessions, creation>>
lockVars == <<locked, waiters>>
streamVars == <<streamPc, streamSession, streamLock>>
closeVars == <<closePc, closeSession>>
vars == <<registryVars, lockVars, streamVars, closeVars>>

Status == {"READY", "RUNNING"}
ManagedSession == [status : Status, lock : Mutex]
CreationState == {"unborn", "creating", "returned", "failed"}

ASSUME NoneAssumption == None \notin ManagedSession \cup Mutex \cup Session

(* How a stream can be over: its events were exhausted; an exception       *)
(* aborted the response; main.py reported "session not found"; the client  *)
(* had gone.                                                               *)
Outcome == {"completed", "raised", "not_found", "disconnected"}

(* "abandoned": the client went away while the generator was suspended at  *)
(* a yield, and the event loop has not yet closed the generator.           *)
StreamPc == {"idle", "waiting", "running", "abandoned"} \cup Outcome
ClosePc == {"idle", "closing", "closed", "not_found", "failed"}

Present(s) == sessions[s] # None

(* The id is in no response before create_session has returned.            *)
KnownToClients(s) == creation[s] = "returned"

(* The stream is between the two _replace_session calls: it has the lock   *)
(* of its session, and its driver generator is open.                       *)
InDriver(t) == streamPc[t] \in {"running", "abandoned"}
Active(t) == streamPc[t] = "waiting" \/ InDriver(t)

(* No record of the registry and no coroutine refers to the lock object.   *)
FreshLock(l) ==
  /\ \A s \in Session : Present(s) => sessions[s].lock # l
  /\ \A t \in Stream : Active(t) => streamLock[t] # l

Init ==
  /\ sessions = [s \in Session |-> None]
  /\ creation = [s \in Session |-> "unborn"]
  /\ locked = [l \in Mutex |-> FALSE]
  /\ waiters = [l \in Mutex |-> <<>>]
  /\ streamPc = [t \in Stream |-> "idle"]
  /\ streamSession = [t \in Stream |-> None]
  /\ streamLock = [t \in Stream |-> None]
  /\ closePc = [c \in Closer |-> "idle"]
  /\ closeSession = [c \in Closer |-> None]

-------------------------------------------------------------------------------
(* The registry.                                                           *)

(* Variant to be rejected: the lock field falls back to its default.       *)
ReplacedLosingLock(s, status) ==
  [sessions EXCEPT ![s] =
     [status |-> status, lock |-> CHOOSE l \in Mutex : FreshLock(l)]]

(* _replace_session: the status changes, the lock object is carried over.  *)
Replaced(s, status) ==
  [sessions EXCEPT ![s] = [status |-> status, lock |-> sessions[s].lock]]

(* Variant to be rejected: close marks the record and keeps it.            *)
WithoutMarked(s) ==
  [sessions EXCEPT ![s] = [status |-> "CLOSED", lock |-> sessions[s].lock]]

Without(s) == [sessions EXCEPT ![s] = None]

(* create_session registers the id before it calls the driver.  The record *)
(* gets a lock of its own from the field's default_factory.                *)
CreateStart(s) ==
  /\ creation[s] = "unborn"
  /\ \E l \in Mutex :
       /\ FreshLock(l)
       /\ sessions' = [sessions EXCEPT ![s] = [status |-> "READY", lock |-> l]]
       /\ locked' = [locked EXCEPT ![l] = FALSE]
       /\ waiters' = [waiters EXCEPT ![l] = <<>>]
  /\ creation' = [creation EXCEPT ![s] = "creating"]
  /\ UNCHANGED <<streamVars, closeVars>>

CreateReturn(s) ==
  /\ creation[s] = "creating"
  /\ creation' = [creation EXCEPT ![s] = "returned"]
  /\ UNCHANGED <<sessions, lockVars, streamVars, closeVars>>

(* The driver raised: the registration is taken back.                      *)
CreateFail(s) ==
  /\ creation[s] = "creating"
  /\ creation' = [creation EXCEPT ![s] = "failed"]
  /\ sessions' = Without(s)
  /\ UNCHANGED <<lockVars, streamVars, closeVars>>

(* The driver raises before it suspends: registered and taken back in one  *)
(* step.                                                                   *)
CreateRefused(s) ==
  /\ creation[s] = "unborn"
  /\ creation' = [creation EXCEPT ![s] = "failed"]
  /\ UNCHANGED <<sessions, lockVars, streamVars, closeVars>>

-------------------------------------------------------------------------------
(* asyncio.Lock.                                                           *)

(* Variant to be rejected: a lock that lets a newcomer overtake the queue. *)
AcquiredBarging(l) == ~locked[l]

(* acquire() returns without suspending: free, and nobody queues for it.   *)
AcquiredAtOnce(l) == ~locked[l] /\ waiters[l] = <<>>

(* release() wakes the first waiter, which takes the lock when the loop    *)
(* next runs it; a request that comes in between queues behind it.         *)
Woken(l, t) == ~locked[l] /\ waiters[l] # <<>> /\ Head(waiters[l]) = t

RemoveAt(seq, i) == SubSeq(seq, 1, i - 1) \o SubSeq(seq, i + 1, Len(seq))

-------------------------------------------------------------------------------
(* Message streams.                                                        *)

(* Sent for an id that close has already removed.                          *)
StreamNotFound(t, s) ==
  /\ streamPc[t] = "idle"
  /\ KnownToClients(s) /\ ~Present(s)
  /\ streamPc' = [streamPc EXCEPT ![t] = "not_found"]
  /\ streamSession' = [streamSession EXCEPT ![t] = s]
  /\ UNCHANGED <<registryVars, lockVars, streamLock, closeVars>>

(* The lock is free: acquired, RUNNING and in the driver in one step.      *)
StreamStart(t, s) ==
  /\ streamPc[t] = "idle"
  /\ KnownToClients(s) /\ Present(s)
  /\ AcquiredAtOnce(sessions[s].lock)
  /\ locked' = [locked EXCEPT ![sessions[s].lock] = TRUE]
  /\ sessions' = Replaced(s, "RUNNING")
  /\ streamPc' = [streamPc EXCEPT ![t] = "running"]
  /\ streamSession' = [streamSession EXCEPT ![t] = s]
  /\ streamLock' = [streamLock EXCEPT ![t] = sessions[s].lock]
  /\ UNCHANGED <<creation, waiters, closeVars>>

StreamWait(t, s) ==
  /\ streamPc[t] = "idle"
  /\ KnownToClients(s) /\ Present(s)
  /\ ~AcquiredAtOnce(sessions[s].lock)
  /\ waiters' = [waiters EXCEPT ![sessions[s].lock] = Append(@, t)]
  /\ streamPc' = [streamPc EXCEPT ![t] = "waiting"]
  /\ streamSession' = [streamSession EXCEPT ![t] = s]
  /\ streamLock' = [streamLock EXCEPT ![t] = sessions[s].lock]
  /\ UNCHANGED <<registryVars, locked, closeVars>>

(* The woken waiter takes the lock and sets RUNNING.                       *)
StreamResume(t) ==
  /\ streamPc[t] = "waiting"
  /\ Woken(streamLock[t], t)
  /\ Present(streamSession[t])
  /\ locked' = [locked EXCEPT ![streamLock[t]] = TRUE]
  /\ waiters' = [waiters EXCEPT ![streamLock[t]] = Tail(@)]
  /\ sessions' = Replaced(streamSession[t], "RUNNING")
  /\ streamPc' = [streamPc EXCEPT ![t] = "running"]
  /\ UNCHANGED <<creation, streamSession, streamLock, closeVars>>

(* The session went away while it waited: _replace_session raises KeyError, *)
(* which releases the lock on its way to main.py.                           *)
StreamResumeNotFound(t) ==
  /\ streamPc[t] = "waiting"
  /\ Woken(streamLock[t], t)
  /\ ~Present(streamSession[t])
  /\ waiters' = [waiters EXCEPT ![streamLock[t]] = Tail(@)]
  /\ streamPc' = [streamPc EXCEPT ![t] = "not_found"]
  /\ streamLock' = [streamLock EXCEPT ![t] = None]
  /\ UNCHANGED <<registryVars, locked, streamSession, closeVars>>

(* The driver raises before it suspends: RUNNING and READY again, the lock *)
(* acquired and released, all in one step.                                 *)
StreamRefused(t, s, outcome) ==
  /\ streamPc[t] = "idle"
  /\ KnownToClients(s) /\ Present(s)
  /\ AcquiredAtOnce(sessions[s].lock)
  /\ streamPc' = [streamPc EXCEPT ![t] = outcome]
  /\ streamSession' = [streamSession EXCEPT ![t] = s]
  /\ UNCHANGED <<registryVars, lockVars, streamLock, closeVars>>

StreamResumeRefused(t, outcome) ==
  /\ streamPc[t] = "waiting"
  /\ Woken(streamLock[t], t)
  /\ Present(streamSession[t])
  /\ waiters' = [waiters EXCEPT ![streamLock[t]] = Tail(@)]
  /\ streamPc' = [streamPc EXCEPT ![t] = outcome]
  /\ streamLock' = [streamLock EXCEPT ![t] = None]
  /\ UNCHANGED <<registryVars, locked, streamSession, closeVars>>

(* Variant to be rejected: no finally clause resets the status.            *)
LeaveStillRunning(t, outcome) ==
  /\ locked' = [locked EXCEPT ![streamLock[t]] = FALSE]
  /\ streamPc' = [streamPc EXCEPT ![t] = outcome]
  /\ streamLock' = [streamLock EXCEPT ![t] = None]
  /\ UNCHANGED <<sessions, creation, waiters, streamSession, closeVars>>

(* Variant to be rejected: the record read before the stream is put back.  *)
LeaveRestoring(t, outcome) ==
  /\ sessions' = [sessions EXCEPT ![streamSession[t]] =
                    [status |-> "READY", lock |-> streamLock[t]]]
  /\ locked' = [locked EXCEPT ![streamLock[t]] = FALSE]
  /\ streamPc' = [streamPc EXCEPT ![t] = outcome]
  /\ streamLock' = [streamLock EXCEPT ![t] = None]
  /\ UNCHANGED <<creation, waiters, streamSession, closeVars>>

(* Variant to be rejected: a stream whose session was closed returns       *)
(* without releasing the lock.                                             *)
LeaveHoldingLock(t, outcome) ==
  /\ sessions' = IF Present(streamSession[t])
                 THEN Replaced(streamSession[t], "READY") ELSE sessions
  /\ locked' = [locked EXCEPT ![streamLock[t]] = ~Present(streamSession[t])]
  /\ streamPc' = [streamPc EXCEPT ![t] = outcome]
  /\ streamLock' = [streamLock EXCEPT ![t] = None]
  /\ UNCHANGED <<creation, waiters, streamSession, closeVars>>

(* The finally clause of stream_message, then the release of the lock.     *)
Leave(t, outcome) ==
  /\ sessions' = IF Present(streamSession[t])
                 THEN Replaced(streamSession[t], "READY") ELSE sessions
  /\ locked' = [locked EXCEPT ![streamLock[t]] = FALSE]
  /\ streamPc' = [streamPc EXCEPT ![t] = outcome]
  /\ streamLock' = [streamLock EXCEPT ![t] = None]
  /\ UNCHANGED <<creation, waiters, streamSession, closeVars>>

(* The driver's generator is exhausted or raises, or the disconnection of  *)
(* the client is raised in it as CancelledError.                           *)
StreamEnd(t, outcome) ==
  /\ streamPc[t] = "running"
  /\ Leave(t, outcome)

(* The client of a waiting stream goes away: acquire() is cancelled and    *)
(* leaves the queue.                                                       *)
StreamLeaveQueue(t) ==
  /\ streamPc[t] = "waiting"
  /\ \E i \in DOMAIN waiters[streamLock[t]] :
       /\ waiters[streamLock[t]][i] = t
       /\ waiters' = [waiters EXCEPT ![streamLock[t]] = RemoveAt(@, i)]
  /\ streamPc' = [streamPc EXCEPT ![t] = "disconnected"]
  /\ streamLock' = [streamLock EXCEPT ![t] = None]
  /\ UNCHANGED <<registryVars, locked, streamSession, closeVars>>

(* The client goes away while the generator is suspended at a yield: the   *)
(* response drops it, and only the event loop's hook will close it.        *)
StreamAbandon(t) ==
  /\ streamPc[t] = "running"
  /\ streamPc' = [streamPc EXCEPT ![t] = "abandoned"]
  /\ UNCHANGED <<registryVars, lockVars, streamSession, streamLock, closeVars>>

StreamFinalize(t) ==
  /\ streamPc[t] = "abandoned"
  /\ Leave(t, "disconnected")

-------------------------------------------------------------------------------
(* Closing.  Nothing here takes the lock of the session.                   *)

CloseStart(c, s) ==
  /\ closePc[c] = "idle"
  /\ KnownToClients(s)
  /\ closePc' = [closePc EXCEPT ![c] = IF Present(s) THEN "closing" ELSE "not_found"]
  /\ closeSession' = [closeSession EXCEPT ![c] = s]
  /\ UNCHANGED <<registryVars, lockVars, streamVars>>

(* The driver has closed: the id is dropped, whoever dropped it before.    *)
CloseReturn(c) ==
  /\ closePc[c] = "closing"
  /\ sessions' = Without(closeSession[c])
  /\ closePc' = [closePc EXCEPT ![c] = "closed"]
  /\ UNCHANGED <<creation, lockVars, streamVars, closeSession>>

(* The driver raised: KeyError is a 404, any other exception a 500, and    *)
(* the session stays registered.                                           *)
CloseFail(c, outcome) ==
  /\ closePc[c] = "closing"
  /\ closePc' = [closePc EXCEPT ![c] = outcome]
  /\ UNCHANGED <<registryVars, lockVars, streamVars, closeSession>>

(* The driver has closed, or raised, before it suspended.                  *)
CloseAtOnce(c, s) ==
  /\ closePc[c] = "idle"
  /\ KnownToClients(s) /\ Present(s)
  /\ sessions' = Without(s)
  /\ closePc' = [closePc EXCEPT ![c] = "closed"]
  /\ closeSession' = [closeSession EXCEPT ![c] = s]
  /\ UNCHANGED <<creation, lockVars, streamVars>>

CloseRefused(c, s, outcome) ==
  /\ closePc[c] = "idle"
  /\ KnownToClients(s) /\ Present(s)
  /\ closePc' = [closePc EXCEPT ![c] = outcome]
  /\ closeSession' = [closeSession EXCEPT ![c] = s]
  /\ UNCHANGED <<registryVars, lockVars, streamVars>>

-------------------------------------------------------------------------------
Next ==
  \/ \E s \in Session : CreateStart(s) \/ CreateReturn(s) \/ CreateFail(s) \/ CreateRefused(s)
  \/ \E t \in Stream :
       \/ \E s \in Session : StreamNotFound(t, s) \/ StreamStart(t, s) \/ StreamWait(t, s)
       \/ StreamResume(t) \/ StreamResumeNotFound(t)
       \/ \E outcome \in Outcome : StreamEnd(t, outcome)
       \/ \E outcome \in {"not_found", "raised"} :
            \/ \E s \in Session : StreamRefused(t, s, outcome)
            \/ StreamResumeRefused(t, outcome)
       \/ StreamLeaveQueue(t) \/ StreamAbandon(t) \/ StreamFinalize(t)
  \/ \E c \in Closer :
       \/ \E s \in Session : CloseStart(c, s) \/ CloseAtOnce(c, s)
       \/ CloseReturn(c)
       \/ \E outcome \in {"not_found", "failed"} :
            CloseFail(c, outcome) \/ \E s \in Session : CloseRefused(c, s, outcome)

Spec == Init /\ [][Next]_vars
-------------------------------------------------------------------------------
(* Properties.                                                             *)

(* The types of the variables.                                             *)
TypeOK ==
  /\ sessions \in [Session -> ManagedSession \cup {None}]
  /\ creation \in [Session -> CreationState]
  /\ locked \in [Mutex -> BOOLEAN]
  /\ waiters \in [Mutex -> Seq(Stream)]
  /\ streamPc \in [Stream -> StreamPc]
  /\ streamSession \in [Stream -> Session \cup {None}]
  /\ streamLock \in [Stream -> Mutex \cup {None}]
  /\ closePc \in [Closer -> ClosePc]
  /\ closeSession \in [Closer -> Session \cup {None}]

(* At most one stream of a session is in the driver, also when the record  *)
(* was replaced, the session closed or a client lost on the way: the lock  *)
(* that stream_message takes is the same object in every record of an id.  *)
Serialized ==
  \A t, u \in Stream :
    InDriver(t) /\ InDriver(u) /\ streamSession[t] = streamSession[u] => t = u

(* GET /v1/sessions/{id} says RUNNING exactly while a stream of the session *)
(* is in the driver, so READY means that a message would be taken at once   *)
(* unless others wait.                                                      *)
StatusTracksStream ==
  \A s \in Session :
    Present(s) =>
      (sessions[s].status = "RUNNING"
         <=> \E t \in Stream : InDriver(t) /\ streamSession[t] = s)

(* A session that is gone stays gone, whatever streams were running or     *)
(* waiting when it was closed, and none of them enters the driver for it:  *)
(* neither _replace_session nor a finally clause brings a record back.     *)
ClosedIsFinal ==
  [][\A s \in Session :
       KnownToClients(s) /\ ~Present(s) =>
         /\ ~Present(s)'
         /\ \A t \in Stream :
              InDriver(t)' /\ streamSession'[t] = s => InDriver(t)]_vars

(* Who refers to which lock: a session and its active streams share one    *)
(* lock, and no other session or stream refers to it.                      *)
LocksApart ==
  /\ \A r, s \in Session :
       Present(r) /\ Present(s) /\ sessions[r].lock = sessions[s].lock => r = s
  /\ \A t \in Stream, s \in Session :
       Active(t) /\ Present(s) => (streamLock[t] = sessions[s].lock <=> streamSession[t] = s)
  /\ \A t, u \in Stream :
       Active(t) /\ Active(u) => (streamLock[t] = streamLock[u] <=> streamSession[t] = streamSession[u])

(* An active stream names a session that clients know, and a lock.         *)
ActiveStreams ==
  \A t \in Stream :
    Active(t) =>
      /\ streamSession[t] \in Session /\ KnownToClients(streamSession[t])
      /\ streamLock[t] \in Mutex

(* A lock is taken exactly while one stream is in the driver with it.      *)
LockHeld ==
  /\ \A l \in Mutex : locked[l] => \E t \in Stream : InDriver(t) /\ streamLock[t] = l
  /\ \A t \in Stream : InDriver(t) => locked[streamLock[t]]
  /\ \A t, u \in Stream :
       InDriver(t) /\ InDriver(u) /\ streamLock[t] = streamLock[u] => t = u

(* Registration and creation agree, and only known ids are being closed.   *)
Registered ==
  /\ \A s \in Session :
       /\ Present(s) => creation[s] \in {"creating", "returned"}
       /\ creation[s] = "creating" => Present(s)
  /\ \A c \in Closer :
       closePc[c] = "closing" => closeSession[c] \in Session /\ KnownToClients(closeSession[c])

(* The inductive invariant from which the theorems are proved: locks,      *)
(* registry and streams of stream_message and _replace_session agree.      *)
IInv ==
  /\ TypeOK
  /\ LocksApart
  /\ ActiveStreams
  /\ LockHeld
  /\ Registered
  /\ StatusTracksStream

(* Nobody queues for a session that no client knows yet.                   *)
NewLockIdle ==
  \A s \in Session : creation[s] = "creating" => waiters[sessions[s].lock] = <<>>

-------------------------------------------------------------------------------
(* The manager implements SerialSessions.                                  *)

AbsPhase ==
  [s \in Session |->
     CASE creation[s] \in {"unborn", "creating"} -> "unborn"
       [] creation[s] = "returned" /\ Present(s) -> "open"
       [] OTHER -> "gone"]

AbsQueue ==
  [s \in Session |->
     IF KnownToClients(s) /\ Present(s) THEN waiters[sessions[s].lock] ELSE <<>>]

AbsServing ==
  [s \in Session |-> {t \in Stream : InDriver(t) /\ streamSession[t] = s}]

Serial == INSTANCE SerialSessions
            WITH phase <- AbsPhase, queue <- AbsQueue, serving <- AbsServing

(* The streams of a session are served one at a time, in the order in which *)
(* they arrived, whoever leaves the queue, and none is served once the      *)
(* session is closed: stream_message and close implement SerialSessions.    *)
ServesInOrder == Serial!Spec

(* What the step from manager to SerialSessions needs to know of a state.  *)
RInv == IInv /\ NewLockIdle
===============================================================================
