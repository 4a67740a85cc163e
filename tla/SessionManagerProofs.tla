------------------------- MODULE SessionManagerProofs -------------------------
(***************************************************************************)
(* Safety of the session manager for any number of sessions, streams,      *)
(* close requests and lock objects: IInv of SessionManager is inductive,   *)
(* and the properties that TLC checks on small instances follow from it.   *)
(* The lemmas are one per kind of change to registry and locks; NextIInv   *)
(* applies them to the disjuncts of Next.                                  *)
(***************************************************************************)
EXTENDS SessionManager, TLAPS

(* A queue is still a queue when a client has left it (StreamLeaveQueue).  *)
LEMMA RemoveAtType ==
  ASSUME NEW S, NEW q \in Seq(S), NEW i \in DOMAIN q
  PROVE  RemoveAt(q, i) \in Seq(S)
BY DEF RemoveAt

(* A manager that has just been created (__init__) satisfies IInv.         *)
THEOREM InitIInv == Init => IInv
BY NoneAssumption DEF Init, IInv, TypeOK, LocksApart, ActiveStreams, LockHeld, Registered,
                      StatusTracksStream, Present, Active, InDriver, KnownToClients,
                      CreationState, StreamPc, ClosePc, Outcome, ManagedSession, Status

USE DEF vars, registryVars, lockVars, streamVars, closeVars

(* create_session registers an id with a lock nobody refers to.            *)
LEMMA CreateStartIInv ==
  ASSUME IInv, NEW s \in Session, CreateStart(s)
  PROVE  IInv'
<1> USE NoneAssumption DEF IInv
<1>1. PICK l \in Mutex :
        /\ FreshLock(l)
        /\ sessions' = [sessions EXCEPT ![s] = [status |-> "READY", lock |-> l]]
        /\ locked' = [locked EXCEPT ![l] = FALSE]
        /\ waiters' = [waiters EXCEPT ![l] = <<>>]
  BY DEF CreateStart
<1>2. /\ creation[s] = "unborn"
      /\ creation' = [creation EXCEPT ![s] = "creating"]
      /\ UNCHANGED <<streamVars, closeVars>>
  BY DEF CreateStart
<1>3. sessions'[s] = [status |-> "READY", lock |-> l] /\ sessions'[s] # None
  BY <1>1 DEF TypeOK, ManagedSession, Status
<1>4. \A r \in Session : r # s => sessions'[r] = sessions[r]
  BY <1>1 DEF TypeOK
<1>5. \A t \in Stream : Active(t) => streamSession[t] # s /\ streamLock[t] # l
  BY <1>1, <1>2 DEF ActiveStreams, KnownToClients, FreshLock
<1>6. \A t \in Stream : (Active(t)' <=> Active(t)) /\ (InDriver(t)' <=> InDriver(t))
  BY <1>2 DEF Active, InDriver
<1>7. TypeOK'
  BY <1>1, <1>2 DEF TypeOK, CreationState, ManagedSession, Status
<1>8. LocksApart'
  <2>1. \A q, r \in Session :
          Present(q)' /\ Present(r)' /\ sessions'[q].lock = sessions'[r].lock => q = r
    BY <1>1, <1>3, <1>4 DEF LocksApart, FreshLock, Present
  <2>2. \A t \in Stream, r \in Session :
          Active(t)' /\ Present(r)'
            => (streamLock'[t] = sessions'[r].lock <=> streamSession'[t] = r)
    BY <1>2, <1>3, <1>4, <1>5, <1>6 DEF LocksApart, Present
  <2>3. \A t, u \in Stream :
          Active(t)' /\ Active(u)'
            => (streamLock'[t] = streamLock'[u] <=> streamSession'[t] = streamSession'[u])
    BY <1>2, <1>6 DEF LocksApart
  <2> QED  BY <2>1, <2>2, <2>3 DEF LocksApart
<1>9. ActiveStreams'
  BY <1>2, <1>6 DEF TypeOK, ActiveStreams, KnownToClients
<1>10. LockHeld'
  BY <1>1, <1>2, <1>5, <1>6 DEF TypeOK, LockHeld, Active
<1>11. Registered'
  BY <1>2, <1>3, <1>4 DEF TypeOK, Registered, KnownToClients, Present
<1>12. StatusTracksStream'
  BY <1>2, <1>3, <1>4, <1>5, <1>6 DEF StatusTracksStream, Present, Active
<1> QED  BY <1>7, <1>8, <1>9, <1>10, <1>11, <1>12

(* Taking the lock of a session, from the free lock or from its queue.     *)
LEMMA EnterIInv ==
  ASSUME IInv, NEW t \in Stream, NEW s \in Session, NEW l \in Mutex,
         ~InDriver(t),
         KnownToClients(s), Present(s), sessions[s].lock = l, ~locked[l],
         Active(t) => streamSession[t] = s,
         waiters' \in [Mutex -> Seq(Stream)],
         locked' = [locked EXCEPT ![l] = TRUE],
         sessions' = Replaced(s, "RUNNING"),
         streamPc' = [streamPc EXCEPT ![t] = "running"],
         streamSession' = [streamSession EXCEPT ![t] = s],
         streamLock' = [streamLock EXCEPT ![t] = l],
         UNCHANGED <<creation, closeVars>>
  PROVE  IInv'
<1> USE NoneAssumption DEF IInv
<1>1. sessions'[s] = [status |-> "RUNNING", lock |-> l] /\ sessions'[s] # None
  BY DEF TypeOK, ManagedSession, Status, Replaced
<1>2. \A r \in Session : r # s => sessions'[r] = sessions[r]
  BY DEF TypeOK, Replaced
<1>3. Active(t)' /\ InDriver(t)' /\ streamSession'[t] = s /\ streamLock'[t] = l
  BY DEF TypeOK, Active, InDriver
<1>4. \A u \in Stream : u # t =>
        /\ (Active(u)' <=> Active(u)) /\ (InDriver(u)' <=> InDriver(u))
        /\ streamSession'[u] = streamSession[u] /\ streamLock'[u] = streamLock[u]
  BY DEF TypeOK, Active, InDriver
<1>5. \A u \in Stream : InDriver(u) => Active(u) /\ streamLock[u] # l /\ streamSession[u] # s
  BY DEF LockHeld, LocksApart, Active
<1>6. \A u \in Stream : Active(u) => (streamLock[u] = l <=> streamSession[u] = s)
  BY DEF LocksApart
<1>7. TypeOK'
  BY DEF TypeOK, ManagedSession, Status, StreamPc, Replaced
<1>8. LocksApart'
  <2>1. \A q, r \in Session :
          Present(q)' /\ Present(r)' /\ sessions'[q].lock = sessions'[r].lock => q = r
    <3>1. \A r \in Session :
            Present(r)' => Present(r) /\ sessions'[r].lock = sessions[r].lock
      <4> SUFFICES ASSUME NEW r \in Session, Present(r)'
                   PROVE  Present(r) /\ sessions'[r].lock = sessions[r].lock
        OBVIOUS
      <4>1. CASE r = s
        BY <1>1, <4>1
      <4>2. CASE r # s
        BY <1>2, <4>2 DEF Present
      <4> QED  BY <4>1, <4>2
    <3> QED  BY <3>1 DEF LocksApart
  <2>2. \A u \in Stream, r \in Session :
          Active(u)' /\ Present(r)'
            => (streamLock'[u] = sessions'[r].lock <=> streamSession'[u] = r)
    BY <1>1, <1>2, <1>3, <1>4, <1>6 DEF LocksApart, Present
  <2>3. \A u, v \in Stream :
          Active(u)' /\ Active(v)'
            => (streamLock'[u] = streamLock'[v] <=> streamSession'[u] = streamSession'[v])
    BY <1>3, <1>4, <1>6 DEF LocksApart
  <2> QED  BY <2>1, <2>2, <2>3 DEF LocksApart
<1>9. ActiveStreams'
  BY <1>3, <1>4 DEF ActiveStreams, KnownToClients
<1>10. LockHeld'
  <2>1. locked'[l] /\ \A m \in Mutex : m # l => locked'[m] = locked[m]
    BY DEF TypeOK
  <2>2. \A m \in Mutex : locked'[m] => \E u \in Stream : InDriver(u)' /\ streamLock'[u] = m
    BY <1>3, <1>4, <2>1 DEF LockHeld
  <2>3. \A u \in Stream : InDriver(u)' => locked'[streamLock'[u]]
    BY <1>3, <1>4, <1>5, <2>1 DEF LockHeld, ActiveStreams
  <2>4. \A u, v \in Stream :
          InDriver(u)' /\ InDriver(v)' /\ streamLock'[u] = streamLock'[v] => u = v
    BY <1>3, <1>4, <1>5 DEF LockHeld
  <2> QED  BY <2>2, <2>3, <2>4 DEF LockHeld
<1>11. Registered'
  BY <1>1, <1>2 DEF TypeOK, Registered, KnownToClients, Present
<1>12. StatusTracksStream'
  <2>1. sessions'[s].status = "RUNNING"
    BY <1>1
  <2>2. ASSUME NEW r \in Session, r # s, Present(r)'
        PROVE  sessions'[r].status = "RUNNING"
                 <=> \E u \in Stream : InDriver(u)' /\ streamSession'[u] = r
    <3>1. \A u \in Stream : InDriver(u)' /\ streamSession'[u] = r
                              <=> InDriver(u) /\ streamSession[u] = r
      BY <1>3, <1>4, <2>2
    <3>2. Present(r) /\ sessions'[r] = sessions[r]
      BY <1>2, <2>2 DEF Present
    <3> QED  BY <3>1, <3>2 DEF StatusTracksStream
  <2> QED  BY <1>3, <2>1, <2>2 DEF StatusTracksStream
<1> QED  BY <1>7, <1>8, <1>9, <1>10, <1>11, <1>12

(* The finally clause of stream_message and the release of the lock.       *)
LEMMA LeaveIInv ==
  ASSUME IInv, NEW t \in Stream, NEW o \in Outcome, InDriver(t), Leave(t, o)
  PROVE  IInv'
<1> DEFINE s == streamSession[t]
           l == streamLock[t]
<1> USE NoneAssumption DEF IInv
<1>1. Active(t) /\ s \in Session /\ l \in Mutex /\ KnownToClients(s)
  BY DEF ActiveStreams, Active
<1>2. Present(s) => /\ sessions'[s] = [status |-> "READY", lock |-> sessions[s].lock]
                    /\ sessions'[s] # None
  <2> HAVE Present(s)
  <2>1. sessions' = Replaced(s, "READY")
    BY DEF Leave
  <2>2. sessions[s] \in ManagedSession
    BY <1>1 DEF TypeOK, Present
  <2>3. sessions'[s] = [status |-> "READY", lock |-> sessions[s].lock]
    BY <1>1, <2>1 DEF TypeOK, Replaced
  <2> QED  BY <2>2, <2>3 DEF ManagedSession, Status
<1>3. ~Present(s) => sessions'[s] = None
  BY DEF Leave, Present
<1>4. \A r \in Session : r # s => sessions'[r] = sessions[r]
  BY DEF Leave, TypeOK, Replaced
<1>5. ~Active(t)' /\ ~InDriver(t)'
  BY DEF Leave, TypeOK, Active, InDriver, Outcome
<1>6. \A u \in Stream : u # t =>
        /\ (Active(u)' <=> Active(u)) /\ (InDriver(u)' <=> InDriver(u))
        /\ streamSession'[u] = streamSession[u] /\ streamLock'[u] = streamLock[u]
  BY DEF Leave, TypeOK, Active, InDriver
<1>7. \A u \in Stream : u # t /\ InDriver(u) => streamLock[u] # l /\ streamSession[u] # s
  BY <1>1 DEF LockHeld, LocksApart, Active
<1>8. creation' = creation /\ UNCHANGED closeVars /\ locked' = [locked EXCEPT ![l] = FALSE]
  BY DEF Leave
<1>9. TypeOK'
  <2>1. sessions' \in [Session -> ManagedSession \cup {None}]
    <3>1. CASE Present(s)
      BY <1>1, <3>1 DEF Leave, TypeOK, Replaced, ManagedSession, Status, Present
    <3>2. CASE ~Present(s)
      BY <3>2 DEF Leave, TypeOK
    <3> QED  BY <3>1, <3>2
  <2>2. streamPc' \in [Stream -> StreamPc]
    BY DEF Leave, TypeOK, StreamPc
  <2> QED  BY <2>1, <2>2 DEF Leave, TypeOK
<1>10. LocksApart'
  <2>1. \A q, r \in Session :
          Present(q)' /\ Present(r)' /\ sessions'[q].lock = sessions'[r].lock => q = r
    BY <1>2, <1>3, <1>4 DEF LocksApart, Present
  <2>2. \A u \in Stream, r \in Session :
          Active(u)' /\ Present(r)'
            => (streamLock'[u] = sessions'[r].lock <=> streamSession'[u] = r)
    BY <1>2, <1>3, <1>4, <1>5, <1>6 DEF LocksApart, Present
  <2>3. \A u, v \in Stream :
          Active(u)' /\ Active(v)'
            => (streamLock'[u] = streamLock'[v] <=> streamSession'[u] = streamSession'[v])
    BY <1>5, <1>6 DEF LocksApart
  <2> QED  BY <2>1, <2>2, <2>3 DEF LocksApart
<1>11. ActiveStreams'
  BY <1>5, <1>6, <1>8 DEF ActiveStreams, KnownToClients
<1>12. LockHeld'
  <2>1. ~locked'[l] /\ \A m \in Mutex : m # l => locked'[m] = locked[m]
    BY <1>1, <1>8 DEF TypeOK
  <2>2. \A m \in Mutex : locked'[m] => \E u \in Stream : InDriver(u)' /\ streamLock'[u] = m
    BY <1>6, <2>1 DEF LockHeld
  <2>3. \A u \in Stream : InDriver(u)' => locked'[streamLock'[u]]
    BY <1>5, <1>6, <1>7, <2>1 DEF LockHeld, ActiveStreams, Active
  <2>4. \A u, v \in Stream :
          InDriver(u)' /\ InDriver(v)' /\ streamLock'[u] = streamLock'[v] => u = v
    BY <1>5, <1>6 DEF LockHeld
  <2> QED  BY <2>2, <2>3, <2>4 DEF LockHeld
<1>13. Registered'
  BY <1>2, <1>3, <1>4, <1>8 DEF Registered, KnownToClients, Present
<1>14. StatusTracksStream'
  BY <1>2, <1>3, <1>4, <1>5, <1>6, <1>7 DEF StatusTracksStream, Present
<1> QED  BY <1>9, <1>10, <1>11, <1>12, <1>13, <1>14

(* A record leaves the registry: its creation failed, or it was closed.    *)
LEMMA WithoutIInv ==
  ASSUME IInv, NEW s \in Session, sessions' = Without(s),
         creation[s] # "returned" => creation' = [creation EXCEPT ![s] = "failed"],
         creation[s] = "returned" => creation' = creation,
         closePc' \in [Closer -> ClosePc], closeSession' \in [Closer -> Session \cup {None}],
         \A c \in Closer : closePc'[c] = "closing" =>
           closePc[c] = "closing" /\ closeSession'[c] = closeSession[c],
         UNCHANGED <<lockVars, streamVars>>
  PROVE  IInv'
<1> USE NoneAssumption DEF IInv
<1>1. ~Present(s)'
  BY DEF TypeOK, Without, Present
<1>2. \A r \in Session : r # s => sessions'[r] = sessions[r] /\ creation'[r] = creation[r]
  BY DEF TypeOK, Without
<1>3. \A t \in Stream : (Active(t)' <=> Active(t)) /\ (InDriver(t)' <=> InDriver(t))
  BY DEF Active, InDriver
<1>4. \A r \in Session : Present(r)' => Present(r) /\ r # s /\ sessions'[r] = sessions[r]
  BY <1>1, <1>2 DEF Present
<1>5. \A r \in Session : KnownToClients(r)' <=> KnownToClients(r)
  BY <1>2 DEF KnownToClients, TypeOK
<1>6. TypeOK'
  BY DEF TypeOK, Without, CreationState
<1>7. LocksApart'
  BY <1>3, <1>4 DEF LocksApart
<1>8. ActiveStreams'
  BY <1>3, <1>5 DEF ActiveStreams
<1>9. LockHeld'
  BY <1>3 DEF LockHeld
<1>10. Registered'
  <2>1. ASSUME NEW r \in Session
        PROVE  /\ Present(r)' => creation'[r] \in {"creating", "returned"}
               /\ creation'[r] = "creating" => Present(r)'
    <3>1. CASE r = s
      BY <1>1, <3>1 DEF TypeOK
    <3>2. CASE r # s
      BY <1>2, <3>2 DEF Registered, Present
    <3> QED  BY <3>1, <3>2
  <2>2. ASSUME NEW c \in Closer, closePc'[c] = "closing"
        PROVE  closeSession'[c] \in Session /\ KnownToClients(closeSession[c])'
    BY <2>2, <1>5 DEF Registered
  <2> QED  BY <2>1, <2>2 DEF Registered
<1>11. StatusTracksStream'
  BY <1>3, <1>4 DEF StatusTracksStream
<1> QED  BY <1>6, <1>7, <1>8, <1>9, <1>10, <1>11

(* A stream joins the queue of its session's lock.                         *)
LEMMA StreamWaitIInv ==
  ASSUME IInv, NEW t \in Stream, NEW s \in Session, StreamWait(t, s)
  PROVE  IInv'
<1> DEFINE l == sessions[s].lock
<1> USE NoneAssumption DEF IInv
<1>1. KnownToClients(s) /\ Present(s) /\ l \in Mutex
  BY DEF StreamWait, TypeOK, Present, ManagedSession
<1>2. ~Active(t) /\ Active(t)' /\ ~InDriver(t)' /\ ~InDriver(t) /\ streamSession'[t] = s /\ streamLock'[t] = l
  BY DEF StreamWait, TypeOK, Active, InDriver
<1>3. \A u \in Stream : u # t =>
        /\ (Active(u)' <=> Active(u)) /\ (InDriver(u)' <=> InDriver(u))
        /\ streamSession'[u] = streamSession[u] /\ streamLock'[u] = streamLock[u]
  BY DEF StreamWait, TypeOK, Active, InDriver
<1>4. UNCHANGED <<registryVars, locked, closeVars>>
  BY DEF StreamWait
<1>5. TypeOK'
  BY <1>1 DEF StreamWait, TypeOK, StreamPc
<1>6. LocksApart'
  <2>1. \A u \in Stream : Active(u) => (streamLock[u] = l <=> streamSession[u] = s)
    BY <1>1 DEF LocksApart
  <2>2. \A r \in Session : Present(r) => (sessions[r].lock = l <=> r = s)
    BY <1>1 DEF LocksApart
  <2>3. \A u \in Stream, r \in Session :
          Active(u)' /\ Present(r)'
            => (streamLock'[u] = sessions'[r].lock <=> streamSession'[u] = r)
    BY <1>2, <1>3, <1>4, <2>2 DEF LocksApart, Present
  <2>4. \A u, v \in Stream :
          Active(u)' /\ Active(v)'
            => (streamLock'[u] = streamLock'[v] <=> streamSession'[u] = streamSession'[v])
    BY <1>2, <1>3, <2>1 DEF LocksApart
  <2> QED  BY <1>4, <2>3, <2>4 DEF LocksApart, Present
<1>7. ActiveStreams'
  BY <1>1, <1>2, <1>3, <1>4 DEF ActiveStreams, KnownToClients
<1>8. LockHeld'
  BY <1>2, <1>3, <1>4 DEF LockHeld
<1>9. Registered'
  BY <1>4 DEF Registered, KnownToClients, Present
<1>10. StatusTracksStream'
  <2>1. \A r \in Session, u \in Stream :
          InDriver(u)' /\ streamSession'[u] = r <=> InDriver(u) /\ streamSession[u] = r
    BY <1>2, <1>3
  <2> QED  BY <1>4, <2>1 DEF StatusTracksStream, Present
<1> QED  BY <1>5, <1>6, <1>7, <1>8, <1>9, <1>10

(* A stream that is not in the driver is over.                             *)
LEMMA GiveUpIInv ==
  ASSUME IInv, NEW t \in Stream, NEW o \in Outcome,
         streamPc[t] \in {"idle", "waiting"},
         streamPc' = [streamPc EXCEPT ![t] = o],
         streamSession' \in [Stream -> Session \cup {None}],
         streamLock' \in [Stream -> Mutex \cup {None}],
         \A u \in Stream : u # t => /\ streamSession'[u] = streamSession[u]
                                   /\ streamLock'[u] = streamLock[u],
         waiters' \in [Mutex -> Seq(Stream)],
         UNCHANGED <<registryVars, locked, closeVars>>
  PROVE  IInv'
<1> USE NoneAssumption DEF IInv
<1>1. ~InDriver(t) /\ ~Active(t)' /\ ~InDriver(t)'
  BY DEF TypeOK, Active, InDriver, Outcome
<1>2. \A u \in Stream : u # t => (Active(u)' <=> Active(u)) /\ (InDriver(u)' <=> InDriver(u))
  BY DEF TypeOK, Active, InDriver
<1>3. TypeOK'
  BY DEF TypeOK, StreamPc
<1>4. LocksApart'
  <2>1. \A u \in Stream : Active(u)' => Active(u) /\ u # t
    BY <1>1, <1>2
  <2>2. \A u \in Stream, r \in Session :
          Active(u)' /\ Present(r)'
            => (streamLock'[u] = sessions'[r].lock <=> streamSession'[u] = r)
    BY <2>1 DEF LocksApart, Present
  <2>3. \A u, v \in Stream :
          Active(u)' /\ Active(v)'
            => (streamLock'[u] = streamLock'[v] <=> streamSession'[u] = streamSession'[v])
    BY <2>1 DEF LocksApart
  <2> QED  BY <2>2, <2>3 DEF LocksApart, Present
<1>5. ActiveStreams'
  BY <1>1, <1>2 DEF ActiveStreams, KnownToClients
<1>6. LockHeld'
  BY <1>1, <1>2 DEF LockHeld
<1>7. Registered'
  BY DEF Registered, KnownToClients, Present
<1>8. StatusTracksStream'
  <2>1. \A r \in Session, u \in Stream :
          InDriver(u)' /\ streamSession'[u] = r <=> InDriver(u) /\ streamSession[u] = r
    BY <1>1, <1>2
  <2> QED  BY <2>1 DEF StatusTracksStream, Present
<1> QED  BY <1>3, <1>4, <1>5, <1>6, <1>7, <1>8

-------------------------------------------------------------------------------
(* A driver that answers before it suspends leaves nothing behind.         *)
LEMMA CreateRefusedIInv ==
  ASSUME IInv, NEW s \in Session, CreateRefused(s)
  PROVE  IInv'
<1> USE DEF CreateRefused, IInv, KnownToClients
<1>1. TypeOK'
  BY DEF TypeOK, CreationState
<1>2. LocksApart' /\ LockHeld'
  BY DEF LocksApart, LockHeld, Present, Active, InDriver
<1>3. ActiveStreams'
  BY DEF ActiveStreams, Active, InDriver, TypeOK
<1>4. Registered'
  BY DEF Registered, Present, TypeOK
<1>5. StatusTracksStream'
  BY DEF StatusTracksStream, Present, InDriver
<1> QED  BY <1>1, <1>2, <1>3, <1>4, <1>5

(* A stream it refuses has left the queue and does not hold the lock.      *)
LEMMA StreamRefusedIInv ==
  ASSUME IInv, NEW t \in Stream, NEW o \in {"not_found", "raised"},
         (\E s \in Session : StreamRefused(t, s, o)) \/ StreamResumeRefused(t, o)
  PROVE  IInv'
<1>1. waiters' \in [Mutex -> Seq(Stream)]
  <2>1. CASE \E s \in Session : StreamRefused(t, s, o)
    BY <2>1 DEF StreamRefused, IInv, TypeOK
  <2>2. CASE StreamResumeRefused(t, o)
    <3>1. streamLock[t] \in Mutex
      BY <2>2 DEF StreamResumeRefused, Active, IInv, ActiveStreams
    <3> QED  BY <2>2, <3>1 DEF StreamResumeRefused, Woken, IInv, TypeOK
  <2> QED  BY <2>1, <2>2
<1>2. /\ streamSession' \in [Stream -> Session \cup {None}]
      /\ streamLock' \in [Stream -> Mutex \cup {None}]
      /\ \A u \in Stream : u # t => /\ streamSession'[u] = streamSession[u]
                                   /\ streamLock'[u] = streamLock[u]
  BY DEF StreamRefused, StreamResumeRefused, IInv, TypeOK
<1>3. /\ streamPc[t] \in {"idle", "waiting"}
      /\ streamPc' = [streamPc EXCEPT ![t] = o]
      /\ UNCHANGED <<registryVars, locked, closeVars>>
  BY DEF StreamRefused, StreamResumeRefused
<1>4. o \in Outcome
  BY DEF Outcome
<1> QED  BY <1>1, <1>2, <1>3, <1>4, GiveUpIInv

(* A close that never suspends drops a record as CloseReturn does.         *)
LEMMA CloseAtOnceIInv ==
  ASSUME IInv, NEW c \in Closer, NEW s \in Session, CloseAtOnce(c, s)
  PROVE  IInv'
<1>1. creation[s] = "returned" /\ sessions' = Without(s) /\ creation' = creation
  BY DEF CloseAtOnce, KnownToClients
<1>2. /\ closePc' \in [Closer -> ClosePc] /\ closeSession' \in [Closer -> Session \cup {None}]
      /\ \A d \in Closer : closePc'[d] = "closing" =>
           closePc[d] = "closing" /\ closeSession'[d] = closeSession[d]
  BY DEF CloseAtOnce, IInv, TypeOK, ClosePc
<1> QED  BY <1>1, <1>2, WithoutIInv DEF CloseAtOnce

(* A close it refuses is over and the session as it was.                   *)
LEMMA CloseRefusedIInv ==
  ASSUME IInv, NEW c \in Closer, NEW s \in Session, NEW o \in {"not_found", "failed"},
         CloseRefused(c, s, o)
  PROVE  IInv'
<1> USE DEF CloseRefused, IInv
<1>1. TypeOK'
  BY DEF TypeOK, ClosePc
<1>2. LocksApart' /\ LockHeld' /\ StatusTracksStream' /\ ActiveStreams'
  BY DEF LocksApart, LockHeld, StatusTracksStream, ActiveStreams, Present, Active, InDriver,
         KnownToClients
<1>3. Registered'
  BY DEF Registered, TypeOK, KnownToClients, Present
<1> QED  BY <1>1, <1>2, <1>3

(* Every step of the session manager keeps locks, registry and streams in  *)
(* agreement.                                                              *)
THEOREM NextIInv == IInv /\ [Next]_vars => IInv'
<1> SUFFICES ASSUME IInv, [Next]_vars PROVE IInv'
  OBVIOUS
<1> USE NoneAssumption
<1>1. ASSUME NEW s \in Session, CreateStart(s) PROVE IInv'
  BY <1>1, CreateStartIInv
<1>2. ASSUME NEW s \in Session, CreateReturn(s) PROVE IInv'
  <2> USE <1>2 DEF CreateReturn, IInv
  <2>1. \A r \in Session : KnownToClients(r) => KnownToClients(r)'
    BY DEF TypeOK, KnownToClients
  <2>2. TypeOK'
    BY DEF TypeOK, CreationState
  <2>3. LocksApart' /\ LockHeld' /\ StatusTracksStream'
    BY DEF LocksApart, LockHeld, StatusTracksStream, Present, Active, InDriver
  <2>4. ActiveStreams'
    BY <2>1 DEF ActiveStreams, Active, InDriver
  <2>5. Registered'
    BY <2>1 DEF TypeOK, Registered, Present
  <2> QED  BY <2>2, <2>3, <2>4, <2>5
<1>3. ASSUME NEW s \in Session, CreateFail(s) PROVE IInv'
  <2>1. \A c \in Closer : closePc'[c] = "closing" =>
          closePc[c] = "closing" /\ closeSession'[c] = closeSession[c]
    BY <1>3 DEF CreateFail
  <2>2. closePc' \in [Closer -> ClosePc] /\ closeSession' \in [Closer -> Session \cup {None}]
    BY <1>3 DEF CreateFail, IInv, TypeOK
  <2> QED  BY <1>3, <2>1, <2>2, WithoutIInv DEF CreateFail
<1>4. ASSUME NEW t \in Stream, NEW s \in Session, StreamNotFound(t, s) PROVE IInv'
  <2>1. /\ streamSession' \in [Stream -> Session \cup {None}]
        /\ streamLock' \in [Stream -> Mutex \cup {None}]
        /\ waiters' \in [Mutex -> Seq(Stream)]
        /\ \A u \in Stream : u # t => /\ streamSession'[u] = streamSession[u]
                                     /\ streamLock'[u] = streamLock[u]
    BY <1>4 DEF StreamNotFound, IInv, TypeOK
  <2>2. /\ streamPc[t] \in {"idle", "waiting"}
        /\ streamPc' = [streamPc EXCEPT ![t] = "not_found"]
        /\ UNCHANGED <<registryVars, locked, closeVars>>
    BY <1>4 DEF StreamNotFound
  <2>3. "not_found" \in Outcome
    BY DEF Outcome
  <2> QED  BY <2>1, <2>2, <2>3, GiveUpIInv
<1>5. ASSUME NEW t \in Stream, NEW s \in Session, StreamStart(t, s) PROVE IInv'
  <2>1. /\ ~InDriver(t) /\ ~Active(t)
        /\ sessions[s].lock \in Mutex
        /\ waiters' \in [Mutex -> Seq(Stream)]
    BY <1>5 DEF StreamStart, InDriver, Active, IInv, TypeOK, Present, ManagedSession
  <2> QED  BY <1>5, <2>1, EnterIInv DEF StreamStart, AcquiredAtOnce
<1>6. ASSUME NEW t \in Stream, NEW s \in Session, StreamWait(t, s) PROVE IInv'
  BY <1>6, StreamWaitIInv
<1>7. ASSUME NEW t \in Stream, StreamResume(t) PROVE IInv'
  <2> DEFINE s == streamSession[t]
             l == streamLock[t]
  <2>1. ~InDriver(t) /\ Active(t)
    BY <1>7 DEF StreamResume, InDriver, Active
  <2>2. s \in Session /\ l \in Mutex /\ KnownToClients(s)
    BY <2>1 DEF IInv, ActiveStreams
  <2>3. Present(s) /\ sessions[s].lock = l
    BY <1>7, <2>1, <2>2 DEF StreamResume, IInv, LocksApart
  <2>4. /\ streamSession' = [streamSession EXCEPT ![t] = s]
        /\ streamLock' = [streamLock EXCEPT ![t] = l]
    BY <1>7 DEF StreamResume, IInv, TypeOK
  <2>5. waiters' \in [Mutex -> Seq(Stream)]
    BY <1>7, <2>2 DEF StreamResume, Woken, IInv, TypeOK
  <2>6. /\ ~locked[l]
        /\ locked' = [locked EXCEPT ![l] = TRUE]
        /\ sessions' = Replaced(s, "RUNNING")
        /\ streamPc' = [streamPc EXCEPT ![t] = "running"]
        /\ UNCHANGED <<creation, closeVars>>
    BY <1>7 DEF StreamResume, Woken
  <2> QED  BY <2>1, <2>2, <2>3, <2>4, <2>5, <2>6, EnterIInv
<1>8. ASSUME NEW t \in Stream, StreamResumeNotFound(t) PROVE IInv'
  <2>1. Active(t) /\ streamLock[t] \in Mutex
    BY <1>8 DEF StreamResumeNotFound, Active, IInv, ActiveStreams
  <2>2. waiters' \in [Mutex -> Seq(Stream)]
    BY <1>8, <2>1 DEF StreamResumeNotFound, Woken, IInv, TypeOK
  <2>3. /\ streamSession' \in [Stream -> Session \cup {None}]
        /\ streamLock' \in [Stream -> Mutex \cup {None}]
        /\ \A u \in Stream : u # t => /\ streamSession'[u] = streamSession[u]
                                     /\ streamLock'[u] = streamLock[u]
    BY <1>8 DEF StreamResumeNotFound, IInv, TypeOK
  <2>4. /\ streamPc[t] \in {"idle", "waiting"}
        /\ streamPc' = [streamPc EXCEPT ![t] = "not_found"]
        /\ UNCHANGED <<registryVars, locked, closeVars>>
    BY <1>8 DEF StreamResumeNotFound
  <2>5. "not_found" \in Outcome
    BY DEF Outcome
  <2> QED  BY <2>2, <2>3, <2>4, <2>5, GiveUpIInv
<1>9. ASSUME NEW t \in Stream, NEW o \in Outcome, StreamEnd(t, o) PROVE IInv'
  BY <1>9, LeaveIInv DEF StreamEnd, InDriver
<1>10. ASSUME NEW t \in Stream, StreamLeaveQueue(t) PROVE IInv'
  <2>1. Active(t) /\ streamLock[t] \in Mutex
    BY <1>10 DEF StreamLeaveQueue, Active, IInv, ActiveStreams
  <2>2. PICK i \in DOMAIN waiters[streamLock[t]] :
          waiters' = [waiters EXCEPT ![streamLock[t]] = RemoveAt(@, i)]
    BY <1>10 DEF StreamLeaveQueue
  <2>3. RemoveAt(waiters[streamLock[t]], i) \in Seq(Stream)
    BY <2>1, RemoveAtType DEF IInv, TypeOK
  <2>4. waiters' \in [Mutex -> Seq(Stream)]
    BY <2>2, <2>3 DEF IInv, TypeOK
  <2>5. /\ streamSession' \in [Stream -> Session \cup {None}]
        /\ streamLock' \in [Stream -> Mutex \cup {None}]
        /\ \A u \in Stream : u # t => /\ streamSession'[u] = streamSession[u]
                                     /\ streamLock'[u] = streamLock[u]
    BY <1>10 DEF StreamLeaveQueue, IInv, TypeOK
  <2>6. /\ streamPc[t] \in {"idle", "waiting"}
        /\ streamPc' = [streamPc EXCEPT ![t] = "disconnected"]
        /\ UNCHANGED <<registryVars, locked, closeVars>>
    BY <1>10 DEF StreamLeaveQueue
  <2>7. "disconnected" \in Outcome
    BY DEF Outcome
  <2> QED  BY <2>4, <2>5, <2>6, <2>7, GiveUpIInv
<1>11. ASSUME NEW t \in Stream, StreamAbandon(t) PROVE IInv'
  <2> USE <1>11 DEF StreamAbandon, IInv
  <2>1. \A u \in Stream : (Active(u)' <=> Active(u)) /\ (InDriver(u)' <=> InDriver(u))
    BY DEF TypeOK, Active, InDriver
  <2>2. TypeOK'
    BY DEF TypeOK, StreamPc
  <2>3. LocksApart' /\ LockHeld' /\ StatusTracksStream'
    BY <2>1 DEF LocksApart, LockHeld, StatusTracksStream, Present
  <2>4. ActiveStreams' /\ Registered'
    BY <2>1 DEF ActiveStreams, Registered, KnownToClients, Present
  <2> QED  BY <2>2, <2>3, <2>4
<1>12. ASSUME NEW t \in Stream, StreamFinalize(t) PROVE IInv'
  BY <1>12, LeaveIInv DEF StreamFinalize, InDriver, Outcome
<1>13. ASSUME NEW c \in Closer, NEW s \in Session, CloseStart(c, s) PROVE IInv'
  <2> USE <1>13 DEF CloseStart, IInv
  <2>1. TypeOK'
    BY DEF TypeOK, ClosePc
  <2>2. LocksApart' /\ LockHeld' /\ StatusTracksStream' /\ ActiveStreams'
    BY DEF LocksApart, LockHeld, StatusTracksStream, ActiveStreams, Present, Active, InDriver,
           KnownToClients
  <2>3. Registered'
    BY DEF Registered, TypeOK, KnownToClients, Present
  <2> QED  BY <2>1, <2>2, <2>3
<1>14. ASSUME NEW c \in Closer, CloseReturn(c) PROVE IInv'
  <2>1. closeSession[c] \in Session /\ creation[closeSession[c]] = "returned"
    BY <1>14 DEF CloseReturn, IInv, Registered, KnownToClients
  <2>2. /\ \A d \in Closer : closePc'[d] = "closing" =>
             closePc[d] = "closing" /\ closeSession'[d] = closeSession[d]
        /\ closePc' \in [Closer -> ClosePc] /\ closeSession' \in [Closer -> Session \cup {None}]
    BY <1>14 DEF CloseReturn, IInv, TypeOK, ClosePc
  <2> QED  BY <1>14, <2>1, <2>2, WithoutIInv DEF CloseReturn
<1>15. ASSUME NEW c \in Closer, NEW o \in {"not_found", "failed"}, CloseFail(c, o) PROVE IInv'
  <2> USE <1>15 DEF CloseFail, IInv
  <2>1. TypeOK'
    BY DEF TypeOK, ClosePc
  <2>2. LocksApart' /\ LockHeld' /\ StatusTracksStream' /\ ActiveStreams'
    BY DEF LocksApart, LockHeld, StatusTracksStream, ActiveStreams, Present, Active, InDriver,
           KnownToClients
  <2>3. Registered'
    BY DEF Registered, TypeOK, KnownToClients, Present
  <2> QED  BY <2>1, <2>2, <2>3
<1>16. CASE UNCHANGED vars
  BY <1>16 DEF IInv, TypeOK, LocksApart, ActiveStreams, LockHeld, Registered,
               StatusTracksStream, Present, Active, InDriver, KnownToClients
<1> QED
  BY <1>1, <1>2, <1>3, <1>4, <1>5, <1>6, <1>7, <1>8, <1>9, <1>10, <1>11, <1>12,
     <1>13, <1>14, <1>15, <1>16, CreateRefusedIInv, StreamRefusedIInv, CloseAtOnceIInv,
     CloseRefusedIInv
     DEF Next

(* Registry, locks and streams agree in every reachable state.             *)
THEOREM InductiveInvariant == Spec => []IInv
<1>1. Init => IInv
  BY InitIInv
<1>2. IInv /\ [Next]_vars => IInv'
  BY NextIInv
<1> QED  BY <1>1, <1>2, PTL DEF Spec

(* Every variable keeps its type.                                          *)
THEOREM TypeCorrect == Spec => []TypeOK
<1>1. IInv => TypeOK
  BY DEF IInv
<1> QED  BY <1>1, InductiveInvariant, PTL

(* At most one stream of a session is in the driver.                       *)
THEOREM SerializedAlways == Spec => []Serialized
<1>1. IInv => Serialized
  BY DEF IInv, Serialized, LocksApart, LockHeld, Active
<1> QED  BY <1>1, InductiveInvariant, PTL

(* A registered session says RUNNING exactly while it has a stream in the  *)
(* driver.                                                                 *)
THEOREM StatusTracksStreamAlways == Spec => []StatusTracksStream
<1>1. IInv => StatusTracksStream
  BY DEF IInv
<1> QED  BY <1>1, InductiveInvariant, PTL

-------------------------------------------------------------------------------
(* A closed session never comes back, and no stream enters the driver for  *)
(* it.                                                                     *)
THEOREM ClosedStaysClosed == Spec => ClosedIsFinal
<1> DEFINE Final ==
      \A s \in Session :
        KnownToClients(s) /\ ~Present(s) =>
          /\ ~Present(s)'
          /\ \A t \in Stream :
               InDriver(t)' /\ streamSession'[t] = s => InDriver(t)
<1>1. IInv /\ [Next]_vars => [Final]_vars
  <2> SUFFICES ASSUME IInv, Next, NEW s \in Session, KnownToClients(s), ~Present(s)
               PROVE  /\ ~Present(s)'
                      /\ \A t \in Stream :
                           InDriver(t)' /\ streamSession'[t] = s => InDriver(t)
    BY DEF Final
  <2> USE NoneAssumption DEF IInv, KnownToClients, Present
  <2>1. ASSUME NEW r \in Session,
               CreateStart(r) \/ CreateReturn(r) \/ CreateFail(r) \/ CreateRefused(r)
        PROVE  /\ ~Present(s)' /\ UNCHANGED streamPc
    BY <2>1 DEF CreateStart, CreateReturn, CreateFail, CreateRefused, Without, TypeOK
  <2>2. ASSUME NEW t \in Stream, NEW r \in Session, StreamStart(t, r)
        PROVE  /\ ~Present(s)' /\ r # s /\ streamSession'[t] = r
               /\ \A u \in Stream : u # t => streamPc'[u] = streamPc[u]
    BY <2>2 DEF StreamStart, Replaced, TypeOK
  <2>3. ASSUME NEW t \in Stream, StreamResume(t)
        PROVE  /\ ~Present(s)' /\ streamSession'[t] # s
               /\ \A u \in Stream : u # t => streamPc'[u] = streamPc[u]
    BY <2>3 DEF StreamResume, Replaced, TypeOK
  <2>4. ASSUME NEW t \in Stream, NEW r \in Session, StreamNotFound(t, r) \/ StreamWait(t, r)
        PROVE  /\ ~Present(s)'
               /\ \A u \in Stream : InDriver(u)' => InDriver(u)
    BY <2>4 DEF StreamNotFound, StreamWait, TypeOK, InDriver
  <2>5. ASSUME NEW t \in Stream, StreamResumeNotFound(t) \/ StreamLeaveQueue(t) \/ StreamAbandon(t)
        PROVE  /\ ~Present(s)'
               /\ \A u \in Stream : InDriver(u)' => InDriver(u)
    BY <2>5 DEF StreamResumeNotFound, StreamLeaveQueue, StreamAbandon, TypeOK, InDriver
  <2>6. ASSUME NEW t \in Stream, NEW o \in Outcome, Leave(t, o)
        PROVE  /\ ~Present(s)'
               /\ \A u \in Stream : InDriver(u)' => InDriver(u)
    BY <2>6 DEF Leave, Replaced, TypeOK, InDriver, Outcome
  <2>7. ASSUME NEW c \in Closer, CloseReturn(c)
        PROVE  /\ ~Present(s)' /\ UNCHANGED streamPc
    BY <2>7 DEF CloseReturn, Without, TypeOK
  <2>8. ASSUME NEW c \in Closer, NEW r, CloseStart(c, r) \/ CloseFail(c, r)
        PROVE  /\ ~Present(s)' /\ UNCHANGED streamPc
    BY <2>8 DEF CloseStart, CloseFail
  <2>9. ASSUME NEW t \in Stream, NEW o \in {"not_found", "raised"},
               (\E r \in Session : StreamRefused(t, r, o)) \/ StreamResumeRefused(t, o)
        PROVE  /\ ~Present(s)'
               /\ \A u \in Stream : InDriver(u)' => InDriver(u)
    BY <2>9 DEF StreamRefused, StreamResumeRefused, TypeOK, InDriver
  <2>10. ASSUME NEW c \in Closer, NEW r \in Session, NEW o,
                CloseAtOnce(c, r) \/ CloseRefused(c, r, o)
         PROVE  /\ ~Present(s)' /\ UNCHANGED streamPc
    BY <2>10 DEF CloseAtOnce, CloseRefused, Without, TypeOK
  <2>11. "disconnected" \in Outcome
    BY DEF Outcome
  <2> QED
    BY <2>1, <2>2, <2>3, <2>4, <2>5, <2>6, <2>7, <2>8, <2>9, <2>10, <2>11
       DEF Next, InDriver, StreamEnd, StreamFinalize
<1> QED  BY <1>1, InductiveInvariant, PTL DEF Spec, ClosedIsFinal
===============================================================================
