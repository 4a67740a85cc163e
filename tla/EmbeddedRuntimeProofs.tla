------------------------- MODULE EmbeddedRuntimeProofs -------------------------
(***************************************************************************)
(* Theorems about embedded mode, for any number of sessions, streams,      *)
(* close requests, approvals and locks.                                    *)
(***************************************************************************)
EXTENDS EmbeddedRuntime, TLAPS

MP == INSTANCE SessionManagerRefinement
ABP == INSTANCE ApprovalBrokerProofs

-------------------------------------------------------------------------------
(* The inductive invariant, part by part.                                  *)

(* A stream that got past the lock: it was in the driver, or refused.      *)
Entered(t) == streamPc[t] \notin {"idle", "waiting"}

(* What matters here of the manager's own invariant.                       *)
ManagerFacts ==
  /\ sessions \in [Session -> SM!ManagedSession \cup {None}]
  /\ creation \in [Session -> SM!CreationState]
  /\ streamPc \in [Stream -> SM!StreamPc]
  /\ streamSession \in [Stream -> Session \cup {None}]
  /\ closePc \in [Closer -> SM!ClosePc]
  /\ closeSession \in [Closer -> Session \cup {None}]
  /\ SM!Serialized
  /\ \A c \in Closer : closePc[c] = "closing" => closeSession[c] \in Session
  /\ \A s \in Session : creation[s] = "creating" => SM!Present(s)
  /\ \A t \in Stream : streamPc[t] = "waiting" => SM!KnownToClients(streamSession[t])

(* The driver serves the sessions that were created and that the manager   *)
(* has: closing takes an id from both in one step.                         *)
Registries ==
  \A s \in Session : s \in sessionProviders <=> creation[s] = "returned" /\ SM!Present(s)

(* A stream is somewhere in the provider while it is in the driver, and    *)
(* only its own awaited connect is pending.                                *)
Streams ==
  \A t \in Stream :
    /\ streamPc[t] # "idle" =>
         streamSession[t] \in Session /\ creation[streamSession[t]] = "returned"
    /\ step[t] # "none" <=> SM!InDriver(t)
    /\ step[t] = "connecting" <=> link[t] = "connecting"
    /\ step[t] = "starting" => link[t] = "none"
    /\ streamPc[t] = "abandoned" => step[t] \in {"starting", "receiving", "failed"}
    /\ ~Entered(t) => link[t] = "none" /\ agent[t] = None /\ told[t] = "nothing"

Connected(t) == Entered(t) /\ link[t] \in {"open", "closed", "lost"}

(* _clients: the cache holds every client that is open and not being       *)
(* disconnected, and nobody connects while it holds one.                   *)
Clients ==
  /\ \A s \in Session : clients[s] # None =>
       Connected(clients[s]) /\ streamSession[clients[s]] = s
  /\ \A c \in Closer : disconnecting[c] # None =>
       closePc[c] = "closing" /\ Connected(disconnecting[c])
  /\ \A t \in Stream :
       /\ step[t] = "connecting" => clients[streamSession[t]] = None
       /\ Live(t) /\ link[t] = "open" => clients[streamSession[t]] = t

(* A directory is removed only with the context that names it, when its    *)
(* session is closed.                                                      *)
Skills ==
  /\ \A s \in Session : skillContexts[s] # None =>
       Entered(skillContexts[s]) /\ streamSession[skillContexts[s]] = s
  /\ \A t \in Stream :
       step[t] = "connecting" /\ SM!Present(streamSession[t]) => skillDir[t] = "there"
  /\ SkillsOutliveClient

(* A stream works with a client of its own session.                        *)
Agents ==
  \A t \in Stream :
    /\ step[t] \in {"querying", "receiving"} => agent[t] # None
    /\ agent[t] # None =>
         streamSession[agent[t]] = streamSession[t] /\ Entered(agent[t])
    /\ step[t] = "failed" => told[t] = "error"

(* Whose result a client still has to give: a stream that asked it, and    *)
(* that receives or was cut short.                                         *)
Unread ==
  \A u \in Stream : \A i \in DOMAIN unread[u] :
    /\ unread[u][i] \in Stream
    /\ agent[unread[u][i]] = u
    /\ step[unread[u][i]] = "receiving" \/ streamPc[unread[u][i]] \in {"disconnected", "raised"}

Own ==
  /\ TypeOK /\ Registries /\ Streams /\ Clients /\ Skills /\ Agents /\ Unread
  /\ AnswersAreOwn /\ SetupFailureIsTold

IInv == SM!IInv /\ Own

(* The facts follow from SessionManager's inductive invariant.             *)
LEMMA ManagerFactsHold == SM!IInv => ManagerFacts
BY DEF ManagerFacts, SM!IInv, SM!TypeOK, SM!Serialized, SM!LocksApart, SM!LockHeld, SM!Active,
       SM!InDriver, SM!Registered, SM!ActiveStreams

(* The sessions that the manager has stay the same.                        *)
SameSessions == \A s \in Session : SM!Present(s)' <=> SM!Present(s)

(* A stream changes the status of its session and nothing else of it.      *)
LEMMA StreamKeepsSessions ==
  ASSUME SM!IInv, NEW t \in Stream,
         Outside(t) \/ ResumeNotFound(t) \/ Enter(t) \/ Refused(t) \/ ReuseClient(t) \/
           StartConnect(t) \/ BuildFail(t) \/ ConnectReturn(t) \/ ConnectFail(t) \/
           QueryReturn(t) \/ Result(t) \/ Complete(t) \/ GiveUp(t) \/ Raise(t) \/
           CancelAtAwait(t) \/ AbandonAtYield(t) \/ Finalize(t)
  PROVE  SameSessions
<1> USE DEF SameSessions, SM!Present
<1>1. CASE UNCHANGED sessions
  BY <1>1
<1>2. ASSUME NEW s \in Session, NEW x \in SM!Status, SM!Present(s),
         sessions' = SM!Replaced(s, x)
      PROVE  SameSessions
  <2>1. sessions[s] \in SM!ManagedSession
    BY <1>2 DEF SM!IInv, SM!TypeOK
  <2>2. [status |-> x, lock |-> sessions[s].lock] \in SM!ManagedSession
    BY <1>2, <2>1 DEF SM!ManagedSession
  <2>3. [status |-> x, lock |-> sessions[s].lock] # None
    BY <2>2, NoneAssumption
  <2> QED  BY <1>2, <2>3 DEF SM!Replaced, SM!IInv, SM!TypeOK
<1>3. CASE Enter(t)
  BY <1>2, <1>3 DEF Enter, SM!StreamResume, SM!StreamStart, SM!Status, SM!IInv,
                    SM!ActiveStreams, SM!Active
<1>4. ASSUME NEW o, SM!Leave(t, o), SM!InDriver(t) PROVE SameSessions
  BY <1>1, <1>2, <1>4 DEF SM!Leave, SM!Status, SM!IInv, SM!ActiveStreams, SM!Active
<1>5. CASE Complete(t) \/ GiveUp(t) \/ Raise(t) \/ CancelAtAwait(t) \/ Finalize(t)
  BY <1>4, <1>5 DEF Complete, GiveUp, Raise, CancelAtAwait, Finalize, SM!StreamEnd,
                    SM!StreamFinalize, SM!InDriver
<1>6. CASE Outside(t) \/ ResumeNotFound(t) \/ Refused(t) \/ AbandonAtYield(t)
  BY <1>1, <1>6 DEF Outside, ResumeNotFound, Refused, SM!StreamRefused, SM!StreamResumeRefused,
                    AbandonAtYield, SM!StreamNotFound, SM!StreamWait, SM!StreamLeaveQueue,
                    SM!StreamResumeNotFound, SM!StreamAbandon, SM!registryVars
<1> QED  BY <1>1, <1>3, <1>5, <1>6 DEF ReuseClient, StartConnect, BuildFail, ConnectReturn,
                                       ConnectFail, QueryReturn, Result, managerVars

-------------------------------------------------------------------------------
(* The session manager under this driver.                                  *)

(* The driver binds only ids that create_session drew.                     *)
LEMMA Bound == Spec => [](sessionProviders \subseteq Session)
<1>1. Init => sessionProviders \subseteq Session
  BY DEF Init
<1>2. sessionProviders \subseteq Session /\ [Next]_vars => (sessionProviders \subseteq Session)'
  BY DEF Next, CreateStart, CreateReturn, Outside, ResumeNotFound, Enter, Refused, ReuseClient,
         StartConnect, BuildFail, ConnectReturn, ConnectFail, QueryReturn, Result, Complete,
         GiveUp, Raise, CancelAtAwait, AbandonAtYield, Finalize, CloseNotFound, CloseAtOnce,
         CloseStart, CloseReturn, CloseFail, ToolAsks, CallbackStep, CallbackAbort,
         DecideRoute, vars, providerVars
<1> QED  BY <1>1, <1>2, PTL DEF Spec

(* Every step of the composition is one of SessionManager, or leaves the   *)
(* manager alone.                                                          *)
LEMMA ManagerStep == sessionProviders \subseteq Session /\ [Next]_vars => [SM!Next]_(SM!vars)
<1> SUFFICES ASSUME sessionProviders \subseteq Session, [Next]_vars PROVE [SM!Next]_(SM!vars)
  OBVIOUS
<1> USE DEF managerVars, SM!vars, SM!registryVars, SM!lockVars, SM!streamVars, SM!closeVars
<1>1. ASSUME NEW s \in Session, CreateStart(s) \/ CreateReturn(s) PROVE SM!Next
  BY <1>1 DEF CreateStart, CreateReturn, SM!Next
<1>2. ASSUME NEW t \in Stream, Outside(t) \/ ResumeNotFound(t) \/ Enter(t) PROVE SM!Next
  BY <1>2 DEF Outside, ResumeNotFound, Enter, SM!Next
<1>3. ASSUME NEW t \in Stream, Refused(t) PROVE SM!Next
  BY <1>3 DEF Refused, SM!Next
<1>4. ASSUME NEW t \in Stream,
             ReuseClient(t) \/ StartConnect(t) \/ BuildFail(t) \/ ConnectReturn(t) \/
               ConnectFail(t) \/ QueryReturn(t) \/ Result(t)
      PROVE  UNCHANGED SM!vars
  BY <1>4 DEF ReuseClient, StartConnect, BuildFail, ConnectReturn, ConnectFail, QueryReturn,
              Result
<1>5. ASSUME NEW t \in Stream,
             Complete(t) \/ GiveUp(t) \/ Raise(t) \/ CancelAtAwait(t) \/ AbandonAtYield(t) \/
               Finalize(t)
      PROVE  SM!Next
  <2>1. {"completed", "raised", "disconnected"} \subseteq SM!Outcome
    BY DEF SM!Outcome
  <2> QED  BY <1>5, <2>1 DEF Complete, GiveUp, Raise, CancelAtAwait, AbandonAtYield, Finalize,
                             SM!Next
<1>6. ASSUME NEW c \in Closer,
             CloseNotFound(c) \/ CloseAtOnce(c) \/ CloseStart(c) \/ CloseReturn(c) \/
                  CloseFail(c)
      PROVE  SM!Next
  BY <1>6 DEF CloseNotFound, CloseAtOnce, CloseStart, CloseReturn, CloseFail, SM!Next
<1>7. CASE UNCHANGED managerVars
  BY <1>7
<1> QED
  BY <1>1, <1>2, <1>3, <1>4, <1>5, <1>6, <1>7 DEF Next, ToolAsks, CallbackStep, CallbackAbort,
                                                  DecideRoute, vars

(* SM and MP are two instances of one module: what SessionManagerProofs    *)
(* and SessionManagerRefinement prove is said of MP.                       *)
LEMMA SameStep == [SM!Next]_(SM!vars) => [MP!Next]_(MP!vars)
BY DEF SM!Next, MP!Next, SM!vars, MP!vars, SM!registryVars, MP!registryVars, SM!lockVars,
       MP!lockVars, SM!streamVars, MP!streamVars, SM!closeVars, MP!closeVars, SM!CreateStart,
       MP!CreateStart, SM!CreateReturn, MP!CreateReturn, SM!CreateFail, MP!CreateFail,
       SM!CreateRefused, MP!CreateRefused, SM!StreamNotFound, MP!StreamNotFound,
       SM!StreamStart, MP!StreamStart, SM!StreamWait, MP!StreamWait, SM!StreamResume,
       MP!StreamResume, SM!StreamResumeNotFound, MP!StreamResumeNotFound, SM!StreamRefused,
       MP!StreamRefused, SM!StreamResumeRefused, MP!StreamResumeRefused, SM!StreamEnd,
       MP!StreamEnd, SM!StreamLeaveQueue, MP!StreamLeaveQueue, SM!StreamAbandon,
       MP!StreamAbandon, SM!StreamFinalize, MP!StreamFinalize, SM!Leave, MP!Leave,
       SM!CloseStart, MP!CloseStart, SM!CloseReturn, MP!CloseReturn, SM!CloseFail,
       MP!CloseFail, SM!CloseAtOnce, MP!CloseAtOnce, SM!CloseRefused, MP!CloseRefused,
       SM!Outcome, MP!Outcome, SM!Present, MP!Present, SM!KnownToClients, MP!KnownToClients,
       SM!FreshLock, MP!FreshLock, SM!Active, MP!Active, SM!InDriver, MP!InDriver, SM!Replaced,
       MP!Replaced, SM!Without, MP!Without, SM!Woken, MP!Woken, SM!AcquiredAtOnce,
       MP!AcquiredAtOnce, SM!RemoveAt, MP!RemoveAt

(* The same initial states.                                                *)
LEMMA SameInit == SM!Init => MP!Init
BY DEF SM!Init, MP!Init

(* The assumption of SessionManagerProofs on None.                         *)
LEMMA NoneApart == None \notin MP!ManagedSession \cup Mutex \cup Session
BY NoneAssumption DEF SM!ManagedSession, MP!ManagedSession, SM!Status, MP!Status

(* In embedded mode the session manager behaves as SessionManager allows   *)
(* with any driver.                                                        *)
THEOREM ManagerImplemented == Spec => SM!Spec
<1>1. Init => SM!Init
  BY DEF Init
<1> QED  BY <1>1, ManagerStep, Bound, PTL DEF Spec, SM!Spec

(* The same for the instance the theorems speak of.                        *)
LEMMA SameSpec == SM!Spec => MP!Spec
BY SameInit, SameStep, PTL DEF SM!Spec, MP!Spec

(* So what is proved of the manager alone holds under this driver: streams *)
(* of a session are served one at a time, in order of arrival and never    *)
(* once it is closed, and the status that GET reports is that of the lock. *)
THEOREM ManagerPromises ==
  Spec => /\ []MP!IInv /\ []MP!Serialized /\ []MP!StatusTracksStream
          /\ MP!ClosedIsFinal /\ MP!ServesInOrder
BY ManagerImplemented, SameSpec, NoneApart, MP!InductiveInvariant, MP!SerializedAlways,
   MP!StatusTracksStreamAlways, MP!ClosedStaysClosed, MP!ServesInOrderAlways, PTL

(* What the instance is said to satisfy, said of SM.                       *)
LEMMA SameInvariant == MP!IInv => SM!IInv
BY DEF SM!IInv, MP!IInv, SM!TypeOK, MP!TypeOK, SM!LocksApart, MP!LocksApart, SM!ActiveStreams,
       MP!ActiveStreams, SM!LockHeld, MP!LockHeld, SM!Registered, MP!Registered,
       SM!StatusTracksStream, MP!StatusTracksStream, SM!Present, MP!Present, SM!Active,
       MP!Active, SM!InDriver, MP!InDriver, SM!KnownToClients, MP!KnownToClients,
       SM!ManagedSession, MP!ManagedSession, SM!Status, MP!Status, SM!CreationState,
       MP!CreationState, SM!StreamPc, MP!StreamPc, SM!Outcome, MP!Outcome, SM!ClosePc,
       MP!ClosePc

USE DEF vars, managerVars, brokerVars, providerVars, streamVars, worldVars, SM!Present,
        SM!InDriver, SM!registryVars, SM!lockVars, SM!streamVars, SM!closeVars,
        SM!KnownToClients, Entered, Live, Running, SM!CreationState, SM!StreamPc,
        SM!ClosePc, SM!Outcome, Steps, Links, Connected

(* Streams that were cut short stay so: that is how AnswersAreOwn lasts.   *)
LEMMA CutShortStays ==
  ASSUME AnswersAreOwn,
         \A t \in Stream : told'[t] = "stale" => told[t] = "stale" /\
              streamSession'[t] = streamSession[t],
         \A u \in Stream : streamPc[u] \in {"disconnected", "raised"} =>
           streamPc'[u] = streamPc[u] /\ streamSession'[u] = streamSession[u]
  PROVE  AnswersAreOwn'
BY DEF AnswersAreOwn

(* A stream that comes in was told nothing yet, and none that is over changes. *)
LEMMA OutsideAnswers ==
  ASSUME Own, ManagerFacts, NEW t \in Stream, Outside(t) \/ ResumeNotFound(t) \/
       Enter(t) \/ Refused(t)
  PROVE  AnswersAreOwn'
<1>1. streamPc[t] \in {"idle", "waiting"} /\
         \A u \in Stream \ {t} : streamPc'[u] = streamPc[u] /\
         streamSession'[u] = streamSession[u]
  BY DEF Outside, ResumeNotFound, Enter, Refused, SM!StreamRefused, SM!StreamResumeRefused,
         SM!StreamNotFound, SM!StreamWait, SM!StreamLeaveQueue, SM!StreamResumeNotFound,
         SM!StreamResume, SM!StreamStart, ManagerFacts
<1>2. told[t] = "nothing"
  BY <1>1 DEF Own, Streams
<1>3. \A u \in Stream : told'[u] = "stale" => told[u] = "stale" /\ u # t
  BY <1>2 DEF Outside, ResumeNotFound, Enter, Refused, SM!StreamRefused,
              SM!StreamResumeRefused, Own, TypeOK
<1> QED BY <1>1, <1>3, CutShortStays DEF Own

(* The result that is received is that of a stream that asked the same agent. *)
LEMMA ResultAnswers ==
  ASSUME Own, ManagerFacts, NEW t \in Stream, Result(t)
  PROVE  AnswersAreOwn'
<1>0. PICK type \in {"end", "error"} :
         told' = [told EXCEPT ![t] = IF Head(unread[agent[t]]) = t THEN type ELSE "stale"]
  BY DEF Result
<1> DEFINE u == Head(unread[agent[t]])
<1>1. UNCHANGED <<streamPc, streamSession>>
  BY DEF Result
<1>2. CASE u = t
  BY <1>0, <1>1, <1>2, CutShortStays DEF Own, TypeOK
<1>3. CASE u # t
  <2>1. agent[t] \in Stream /\ unread[agent[t]] \in Seq(Stream) /\ unread[agent[t]] # <<>>
    BY NoneAssumption DEF Result, Own, TypeOK, Agents
  <2>2. 1 \in DOMAIN unread[agent[t]] /\ unread[agent[t]][1] = u
    BY <2>1
  <2>3. u \in Stream /\ agent[u] = agent[t] /\ (step[u] = "receiving" \/
           streamPc[u] \in {"disconnected", "raised"})
    BY <2>1, <2>2 DEF Own, Unread
  <2>4. streamSession[u] = streamSession[t]
    BY <2>1, <2>3, NoneAssumption DEF Own, Agents, Result
  <2>5. step[u] # "receiving"
    BY <1>3, <2>3, <2>4 DEF Own, Streams, ManagerFacts, SM!Serialized, Result
  <2> QED BY <1>0, <1>1, <1>3, <2>3, <2>4, <2>5 DEF Own, TypeOK, AnswersAreOwn
<1> QED BY <1>2, <1>3

(* Leaving the driver tells nobody anything.                               *)
LEMMA LeaveAnswers ==
  ASSUME Own, ManagerFacts, NEW t \in Stream, Complete(t) \/ GiveUp(t) \/ Raise(t) \/
       CancelAtAwait(t) \/ Finalize(t)
  PROVE  AnswersAreOwn'
<1>1. UNCHANGED <<told, streamSession>> /\ streamPc[t] \in {"running", "abandoned"} /\
         \A u \in Stream \ {t} : streamPc'[u] = streamPc[u]
  BY DEF Complete, GiveUp, Raise, CancelAtAwait, Finalize, SM!StreamEnd, SM!StreamFinalize,
         SM!Leave, ManagerFacts
<1> QED BY <1>1, CutShortStays DEF Own

(* Outside the driver a stream has nothing of a client or of skills.       *)
LEMMA OutsideClients ==
  ASSUME Own, ManagerFacts, NEW t \in Stream, Outside(t) \/ Refused(t)
  PROVE  Clients'
<1>1. streamPc[t] \in {"idle", "waiting"} /\
         \A u \in Stream \ {t} : streamPc'[u] = streamPc[u] /\
         streamSession'[u] = streamSession[u]
  BY DEF Outside, Refused, SM!StreamRefused, SM!StreamResumeRefused, SM!StreamNotFound,
         SM!StreamWait, SM!StreamLeaveQueue, ManagerFacts
<1>2. UNCHANGED <<clients, step, link, disconnecting, closePc>>
  BY DEF Outside, Refused, SM!StreamRefused, SM!StreamResumeRefused, SM!StreamNotFound,
         SM!StreamWait, SM!StreamLeaveQueue
<1>3. link[t] = "none" /\ step[t] = "none"
  BY <1>1 DEF Own, Streams
<1>4. \A u \in Stream : Connected(u) => u # t /\ Connected(u)'
  BY <1>1, <1>2, <1>3 
<1>5. \A s \in Session : clients[s] # None => clients[s] \in Stream
  BY DEF Own, TypeOK
<1>6. \A c \in Closer : disconnecting[c] # None => disconnecting[c] \in Stream
  BY DEF Own, TypeOK
<1>7. \A s \in Session : clients'[s] # None =>
       Connected(clients[s])' /\ streamSession'[clients'[s]] = s
  BY <1>1, <1>2, <1>4, <1>5 DEF Own, Clients
<1>8. \A c \in Closer : disconnecting'[c] # None => closePc'[c] = "closing" /\
         Connected(disconnecting[c])'
  BY <1>2, <1>4, <1>6 DEF Own, Clients
<1>9. \A u \in Stream :
       /\ step'[u] = "connecting" => clients'[streamSession'[u]] = None
       /\ Live(u)' /\ link'[u] = "open" => clients'[streamSession'[u]] = u
  BY <1>1, <1>2, <1>3 DEF Own, Clients
<1> QED BY <1>7, <1>8, <1>9 DEF Clients

(* The same for the skills.                                                *)
LEMMA OutsideSkills ==
  ASSUME Own, ManagerFacts, SameSessions, NEW t \in Stream, Outside(t) \/ Refused(t)
  PROVE  Skills'
<1>1. streamPc[t] \in {"idle", "waiting"} /\
         \A u \in Stream \ {t} : streamPc'[u] = streamPc[u] /\
         streamSession'[u] = streamSession[u]
  BY DEF Outside, Refused, SM!StreamRefused, SM!StreamResumeRefused, SM!StreamNotFound,
         SM!StreamWait, SM!StreamLeaveQueue, ManagerFacts
<1>2. UNCHANGED <<clients, skillContexts, skillDir, step, link, disconnecting>>
  BY DEF Outside, Refused, SM!StreamRefused, SM!StreamResumeRefused
<1>3. step[t] = "none"
  BY <1>1 DEF Own, Streams
<1>4. \A s \in Session : skillContexts[s] # None => skillContexts[s] \in Stream
  BY DEF Own, TypeOK
<1>5. \A s \in Session : skillContexts'[s] # None =>
       Entered(skillContexts[s])' /\ streamSession'[skillContexts'[s]] = s
  BY <1>1, <1>2, <1>4 DEF Own, Skills
<1>6. \A u \in Stream : step[u] = "connecting" => streamSession[u] \in Session
  BY DEF Own, Streams
<1>7. \A u \in Stream :
       step'[u] = "connecting" /\ sessions'[streamSession'[u]] # None => skillDir'[u] = "there"
  BY <1>1, <1>2, <1>3, <1>6 DEF Own, Skills, SameSessions
<1>8. SkillsOutliveClient'
  BY <1>2 DEF Own, Skills, SkillsOutliveClient, SameSessions
<1> QED BY <1>5, <1>7, <1>8 DEF Skills

(* Nobody else of the session connects meanwhile.                          *)
LEMMA ConnectReturnClients ==
  ASSUME Own, ManagerFacts, NEW t \in Stream, ConnectReturn(t)
  PROVE  Clients'
<1> DEFINE s == streamSession[t]
<1>1. link' = [link EXCEPT ![t] = "open"] /\ clients' = [clients EXCEPT ![s] = t] /\
         step' = [step EXCEPT ![t] = "querying"] /\
         UNCHANGED <<streamPc, streamSession, disconnecting, closePc>> /\
         step[t] = "connecting" /\ streamPc[t] = "running"
  BY DEF ConnectReturn
<1>2. s \in Session /\ clients[s] = None /\ link[t] = "connecting"
  BY <1>1 DEF Own, Streams, Clients
<1>3. \A u \in Stream : Connected(u) => Connected(u)'
  BY <1>1 DEF Own, TypeOK
<1>4. Connected(t)'
  BY <1>1 DEF Own, TypeOK
<1>5. \A r \in Session : clients'[r] # None => Connected(clients[r])' /\
         streamSession'[clients'[r]] = r
  BY <1>1, <1>2, <1>3, <1>4 DEF Own, Clients, TypeOK
<1>6. \A c \in Closer : disconnecting'[c] # None => closePc'[c] = "closing" /\
         Connected(disconnecting[c])'
  BY <1>1, <1>3 DEF Own, Clients, TypeOK
<1>7. ASSUME NEW u \in Stream, step'[u] = "connecting" PROVE clients'[streamSession'[u]] = None
  <2>1. u # t /\ step[u] = "connecting" /\ streamPc[u] \in {"running", "abandoned"}
    BY <1>1, <1>7 DEF Own, TypeOK, Streams
  <2>2. streamSession[u] # s
    BY <1>1, <2>1 DEF ManagerFacts, SM!Serialized
  <2> QED BY <1>1, <2>1, <2>2 DEF Own, Clients, TypeOK
<1>8. ASSUME NEW u \in Stream, Live(u)', link'[u] = "open" PROVE clients'[streamSession'[u]] = u
  <2>1. CASE u = t
    BY <1>1, <1>2, <2>1 DEF Own, TypeOK
  <2>2. CASE u # t
    <3>1. Live(u) /\ link[u] = "open"
      BY <1>1, <1>8, <2>2 DEF Own, TypeOK
    <3>2. clients[streamSession[u]] = u
      BY <3>1 DEF Own, Clients
    <3>3. streamSession[u] # s
      BY <3>2, <1>2, NoneAssumption
    <3> QED BY <1>1, <3>2, <3>3 DEF Own, TypeOK
  <2> QED BY <2>1, <2>2
<1> QED BY <1>5, <1>6, <1>7, <1>8 DEF Clients

(* The client leaves the cache in the step in which its disconnect starts.  *)
LEMMA CloseStartClients ==
  ASSUME Own, ManagerFacts, NEW c \in Closer, CloseStart(c)
  PROVE  Clients'
<1>1. PICK s \in Session : /\ clients[s] # None
        /\ clients' = [clients EXCEPT ![s] = None]
        /\ disconnecting' = [disconnecting EXCEPT ![c] = clients[s]]
        /\ closePc[c] = "idle" /\ closePc' = [closePc EXCEPT ![c] = "closing"]
  BY DEF CloseStart, SM!CloseStart, Forget, Own, TypeOK
<1>2. UNCHANGED <<streamPc, streamSession, link, step>>
  BY DEF CloseStart, SM!CloseStart
<1>3. \A u \in Stream : Connected(u)' <=> Connected(u)
  BY <1>2
<1>4. clients[s] \in Stream /\ Connected(clients[s]) /\ streamSession[clients[s]] = s
  BY <1>1 DEF Own, TypeOK, Clients
<1>5. \A r \in Session : clients'[r] # None => Connected(clients[r])' /\
         streamSession'[clients'[r]] = r
  BY <1>1, <1>2, <1>3 DEF Own, Clients, TypeOK
<1>6. \A d \in Closer : disconnecting'[d] # None => closePc'[d] = "closing" /\
         Connected(disconnecting[d])'
  BY <1>1, <1>2, <1>3, <1>4 DEF Own, Clients, TypeOK, ManagerFacts
<1>7. \A u \in Stream : step'[u] = "connecting" => clients'[streamSession'[u]] = None
  BY <1>1, <1>2 DEF Own, Clients, TypeOK
<1>8. ASSUME NEW u \in Stream, Live(u)', link'[u] = "open" PROVE clients'[streamSession'[u]] = u
  <2>1. disconnecting'[c] = clients[s] /\
           \A d \in Closer \ {c} : disconnecting'[d] = disconnecting[d]
    BY <1>1 DEF Own, TypeOK
  <2>2. u # clients[s]
    BY <2>1, <1>8
  <2>3. CASE disconnecting[c] = u
    BY <1>1, <2>3, NoneAssumption DEF Own, Clients
  <2>4. CASE disconnecting[c] # u
    <3>1. Live(u) /\ link[u] = "open"
      BY <1>2, <1>8, <2>1, <2>4
    <3> QED BY <1>1, <1>2, <2>2, <3>1 DEF Own, Clients, TypeOK
  <2> QED BY <2>3, <2>4
<1> QED BY <1>5, <1>6, <1>7, <1>8 DEF Clients

(* The stream that connects had no client before.                          *)
LEMMA StartConnectClients ==
  ASSUME Own, ManagerFacts, NEW t \in Stream, StartConnect(t)
  PROVE  Clients'
<1>1. /\ UNCHANGED <<clients, streamPc, streamSession, closePc, disconnecting>>
      /\ link' = [link EXCEPT ![t] = "connecting"] /\ step' = [step EXCEPT ![t] = "connecting"]
      /\ streamPc[t] = "running" /\ step[t] = "starting" /\ clients[streamSession[t]] = None
  BY DEF StartConnect
<1>2. link[t] = "none"
  BY <1>1 DEF Own, Streams
<1>3. \A u \in Stream : Connected(u) => u # t /\ Connected(u)'
  BY <1>1, <1>2 DEF Own, TypeOK
<1>4. \A s \in Session : clients'[s] # None => Connected(clients[s])' /\
         streamSession'[clients'[s]] = s
  BY <1>1, <1>3 DEF Own, Clients, TypeOK
<1>5. \A c \in Closer : disconnecting'[c] # None => closePc'[c] = "closing" /\
         Connected(disconnecting[c])'
  BY <1>1, <1>3 DEF Own, Clients, TypeOK
<1>6. \A u \in Stream :
       /\ step'[u] = "connecting" => clients'[streamSession'[u]] = None
       /\ Live(u)' /\ link'[u] = "open" => clients'[streamSession'[u]] = u
  BY <1>1 DEF Own, Clients, TypeOK
<1> QED  BY <1>4, <1>5, <1>6 DEF Clients

(* A stream that enters starts without client and without skills.          *)
LEMMA EnterSkills ==
  ASSUME Own, ManagerFacts, SameSessions, NEW t \in Stream, Enter(t)
  PROVE  Skills'
<1>1. /\ streamPc[t] \in {"idle", "waiting"}
      /\ \A u \in Stream \ {t} : streamPc'[u] = streamPc[u] /\
           streamSession'[u] = streamSession[u]
  BY DEF Enter, SM!StreamResume, SM!StreamStart, ManagerFacts
<1>2. UNCHANGED <<clients, skillContexts, skillDir>> /\ step' = [step EXCEPT ![t] = "starting"]
  BY DEF Enter
<1>3. \A u \in Stream \ {t} : step'[u] = step[u]
  BY <1>2 DEF Own, TypeOK
<1>4. step'[t] = "starting"
  BY <1>2 DEF Own, TypeOK
<1>5. \A s \in Session : skillContexts'[s] # None =>
       Entered(skillContexts[s])' /\ streamSession'[skillContexts'[s]] = s
  <2> TAKE s \in Session
  <2>1. CASE skillContexts[s] # None
    <3>1. skillContexts[s] \in Stream \ {t}
      BY <1>1, <2>1 DEF Own, TypeOK, Skills
    <3> QED  BY <1>1, <1>2, <2>1, <3>1 DEF Own, Skills
  <2> QED  BY <1>2, <2>1
<1>6. \A u \in Stream : step'[u] = "connecting" /\ sessions'[streamSession'[u]] # None =>
         skillDir'[u] = "there"
  <2> SUFFICES ASSUME NEW u \in Stream, step'[u] = "connecting",
                      sessions'[streamSession'[u]] # None
               PROVE  skillDir'[u] = "there"
    OBVIOUS
  <2>1. u # t /\ step[u] = "connecting" /\ streamSession'[u] = streamSession[u]
    BY <1>1, <1>3, <1>4
  <2>2. streamSession[u] \in Session
    BY <2>1 DEF Own, Streams
  <2> QED  BY <1>2, <2>1, <2>2 DEF Own, Skills, SameSessions
<1>7. SkillsOutliveClient'
  BY <1>2 DEF Own, Skills, SkillsOutliveClient, SameSessions
<1> QED  BY <1>5, <1>6, <1>7 DEF Skills

(* What a failed build leaves is registered for the stream's own session.  *)
LEMMA BuildFailSkills ==
  ASSUME Own, ManagerFacts, SameSessions, NEW t \in Stream, BuildFail(t)
  PROVE  TypeOK' /\ Skills'
<1>1. /\ step' = [step EXCEPT ![t] = "failed"] /\ told' = [told EXCEPT ![t] = "error"]
      /\ UNCHANGED <<clients, streamPc, streamSession>>
      /\ UNCHANGED <<sessionProviders, requests, agent, disconnecting, link, unread>>
  BY DEF BuildFail
<1>2. /\ streamSession[t] \in Session /\ Entered(t)
      /\ step \in [Stream -> Steps] /\
           told \in [Stream -> {"nothing", "start", "error", "end", "stale"}]
      /\ skillContexts \in [Session -> Stream \cup {None}]
      /\ skillDir \in [Stream -> {"none", "there", "removed"}]
  BY DEF BuildFail, Own, TypeOK, Streams
<1>3. \/ UNCHANGED <<skillContexts, skillDir>>
      \/ /\ skillContexts' = [skillContexts EXCEPT ![streamSession[t]] = t]
         /\ skillDir' = [skillDir EXCEPT ![t] = "there"]
  BY DEF BuildFail
<1>4. /\ skillContexts' \in [Session -> Stream \cup {None}]
      /\ skillDir' \in [Stream -> {"none", "there", "removed"}]
  BY <1>2, <1>3
<1>5. /\ step' \in [Stream -> Steps]
      /\ told' \in [Stream -> {"nothing", "start", "error", "end", "stale"}]
  BY <1>1, <1>2
<1>6. TypeOK'
  BY <1>1, <1>4, <1>5 DEF Own, TypeOK
<1>7. \A u \in Stream : skillDir[u] = "there" => skillDir'[u] = "there"
  BY <1>2, <1>3
<1>8. \A s \in Session : skillContexts'[s] # None =>
       Entered(skillContexts'[s]) /\ streamSession[skillContexts'[s]] = s
  <2>1. \A s \in Session : skillContexts[s] # None =>
         Entered(skillContexts[s]) /\ streamSession[skillContexts[s]] = s
    BY DEF Own, Skills
  <2> QED  BY <1>2, <1>3, <2>1
<1>9. \A u \in Stream : step'[u] = "connecting" => step[u] = "connecting" /\
         streamSession[u] \in Session
  BY <1>1, <1>2 DEF Own, Streams
<1>10. \A u \in Stream : step'[u] = "connecting" /\ sessions'[streamSession[u]] # None =>
         skillDir'[u] = "there"
  BY <1>7, <1>9 DEF Own, Skills, SameSessions
<1>11. SkillsOutliveClient'
  <2> SUFFICES ASSUME NEW s \in Session, sessions'[s] # None, clients'[s] # None
               PROVE  skillDir'[clients'[s]] = "there"
    BY DEF SkillsOutliveClient
  <2>1. sessions[s] # None /\ clients[s] \in Stream
    BY <1>1 DEF SameSessions, Own, TypeOK
  <2>2. skillDir[clients[s]] = "there"
    BY <1>1, <2>1 DEF Own, Skills, SkillsOutliveClient
  <2> QED  BY <1>1, <1>7, <2>1, <2>2
<1>12. \A s \in Session : skillContexts'[s] # None =>
        Entered(skillContexts[s])' /\ streamSession'[skillContexts'[s]] = s
  BY <1>1, <1>8
<1> QED  BY <1>1, <1>6, <1>10, <1>11, <1>12 DEF Skills

(* POST /v1/sessions.                                                      *)
LEMMA CreateOwn ==
  ASSUME Own, ManagerFacts, NEW s \in Session,
         CreateStart(s) \/ CreateReturn(s)
  PROVE  Own'
<1> USE NoneAssumption DEF Own
<1>1. CASE CreateStart(s)
  <2>1. TypeOK' /\ Registries' /\ Streams' /\ Clients' /\
        Agents' /\ Unread' /\ AnswersAreOwn' /\ SetupFailureIsTold'
    BY <1>1 DEF CreateStart, SM!CreateStart, TypeOK, Registries, Streams, Clients, Agents,
                Unread, AnswersAreOwn, SetupFailureIsTold
  <2>2. Skills'
    BY <1>1 DEF CreateStart, SM!CreateStart, ManagerFacts, TypeOK, Registries, Streams,
                Clients, Skills, Agents, Unread, AnswersAreOwn, SetupFailureIsTold,
                SkillsOutliveClient
  <2> QED  BY <2>1, <2>2 DEF Own
<1>2. CASE CreateReturn(s)
  <2>1. TypeOK' /\ Streams' /\ Clients' /\ Skills' /\
        Agents' /\ Unread' /\ AnswersAreOwn' /\ SetupFailureIsTold'
    BY <1>2 DEF CreateReturn, SM!CreateReturn, TypeOK, Streams, Clients, Skills, Agents,
                Unread, AnswersAreOwn, SetupFailureIsTold, SkillsOutliveClient
  <2>2. Registries'
    <3>1. sessionProviders' = sessionProviders \cup {s} /\ sessions' = sessions /\
        creation' = [creation EXCEPT ![s] = "returned"] /\ creation[s] = "creating"
      BY <1>2 DEF CreateReturn, SM!CreateReturn
    <3> QED  BY <1>2, <3>1 DEF Registries, ManagerFacts
  <2> QED  BY <2>1, <2>2 DEF Own
<1> QED  BY <1>1, <1>2

(* Streams up to the first yield of the provider.                          *)
LEMMA WaitOwn ==
  ASSUME Own, ManagerFacts, SameSessions, NEW t \in Stream,
         Outside(t) \/ ResumeNotFound(t) \/ Enter(t) \/ Refused(t)
  PROVE  Own'
<1> USE NoneAssumption DEF Own
<1>1. CASE Outside(t)
  <2>1. TypeOK' /\ Registries'
    BY <1>1 DEF Outside, SM!StreamNotFound, SM!StreamWait, SM!StreamLeaveQueue, TypeOK,
                Registries, SameSessions
  <2>2. Streams'
    BY <1>1 DEF Outside, SM!StreamNotFound, SM!StreamWait, SM!StreamLeaveQueue, ManagerFacts,
                Streams
  <2>3. Agents'
    BY <1>1 DEF Outside, SM!StreamNotFound, SM!StreamWait, SM!StreamLeaveQueue, ManagerFacts,
                TypeOK, Streams, Agents
  <2>4. Unread'
    BY <1>1 DEF Outside, SM!StreamNotFound, SM!StreamWait, SM!StreamLeaveQueue, ManagerFacts,
                Unread
  <2>5. SetupFailureIsTold'
    BY <1>1 DEF Outside, SM!StreamNotFound, SM!StreamWait, SM!StreamLeaveQueue, ManagerFacts,
                SetupFailureIsTold
  <2> QED  BY <1>1, <2>1, <2>2, <2>3, <2>4, <2>5, OutsideClients, OutsideSkills, OutsideAnswers
              DEF Own
<1>2. CASE ResumeNotFound(t)
  <2>1. TypeOK' /\ Registries' /\ Streams' /\ Clients' /\
        Skills' /\ Agents' /\ Unread' /\ SetupFailureIsTold'
    BY <1>2 DEF ResumeNotFound, SM!StreamResumeNotFound, TypeOK, Registries, Streams, Clients,
                Skills, Agents, Unread, SetupFailureIsTold, SkillsOutliveClient, SameSessions
  <2> QED  BY <1>2, <2>1, OutsideAnswers DEF Own
<1>3. CASE Enter(t)
  <2>1. TypeOK' /\ Registries'
    BY <1>3 DEF Enter, SM!StreamResume, SM!StreamStart, TypeOK, Registries, SameSessions
  <2>2. Streams'
    BY <1>3 DEF Enter, SM!StreamResume, SM!StreamStart, ManagerFacts, TypeOK, Streams
  <2>3. Clients'
    BY <1>3 DEF Enter, SM!StreamResume, SM!StreamStart, ManagerFacts, TypeOK, Streams, Clients
  <2>4. Agents'
    BY <1>3 DEF Enter, SM!StreamResume, SM!StreamStart, ManagerFacts, TypeOK, Streams, Agents
  <2>5. Unread'
    BY <1>3 DEF Enter, SM!StreamResume, SM!StreamStart, ManagerFacts, Streams, Unread
  <2>6. SetupFailureIsTold'
    BY <1>3 DEF Enter, SM!StreamResume, SM!StreamStart, ManagerFacts, SetupFailureIsTold
  <2> QED  BY <1>3, <2>1, <2>2, <2>3, <2>4, <2>5, <2>6, EnterSkills, OutsideAnswers DEF Own
<1>4. CASE Refused(t)
  <2>0. /\ UNCHANGED <<sessions, creation, brokerVars, providerVars, step, told, agent,
                       disconnecting, worldVars>>
        /\ streamPc' = [streamPc EXCEPT ![t] = "not_found"]
        /\ streamPc[t] \in {"idle", "waiting"}
    BY <1>4 DEF Refused, SM!StreamRefused, SM!StreamResumeRefused
  <2>1. TypeOK' /\ Registries' /\ Unread' /\ SetupFailureIsTold'
    BY <2>0 DEF TypeOK, Registries, Unread, SetupFailureIsTold
  <2>2. Streams'
    BY <1>4 DEF Refused, SM!StreamRefused, SM!StreamResumeRefused, ManagerFacts, Streams
  <2>3. Agents'
    BY <1>4 DEF Refused, SM!StreamRefused, SM!StreamResumeRefused, ManagerFacts, TypeOK,
                Streams, Agents
  <2> QED  BY <1>4, <2>1, <2>2, <2>3, OutsideClients, OutsideSkills, OutsideAnswers DEF Own
<1> QED  BY <1>1, <1>2, <1>3, <1>4

(* Getting a client.                                                       *)
LEMMA ConnectOwn ==
  ASSUME Own, ManagerFacts, SameSessions, NEW t \in Stream,
         ReuseClient(t) \/ StartConnect(t) \/ BuildFail(t) \/ ConnectReturn(t) \/
           ConnectFail(t)
  PROVE  Own'
<1> USE NoneAssumption DEF Own
<1>1. CASE ReuseClient(t)
  <2>1. Registries' /\ Streams' /\ Clients' /\ Skills' /\
        Unread' /\ AnswersAreOwn' /\ SetupFailureIsTold'
    BY <1>1 DEF ReuseClient, Registries, Streams, Clients, Skills, Unread, AnswersAreOwn,
                SetupFailureIsTold, SkillsOutliveClient, SameSessions
  <2>2. TypeOK'
    BY <1>1 DEF ReuseClient, TypeOK, Streams
  <2>3. Agents'
    BY <1>1 DEF ReuseClient, ManagerFacts, TypeOK, Streams, Clients, Agents
  <2> QED  BY <2>1, <2>2, <2>3 DEF Own
<1>2. CASE StartConnect(t)
  <2>1. Registries' /\ Agents' /\ Unread' /\ AnswersAreOwn' /\ SetupFailureIsTold'
    BY <1>2 DEF StartConnect, Registries, Agents, Unread, AnswersAreOwn, SetupFailureIsTold,
                SameSessions
  <2>2. TypeOK'
    BY <1>2 DEF StartConnect, TypeOK, Streams
  <2>3. Streams'
    BY <1>2 DEF StartConnect, TypeOK, Streams
  <2>4. Skills'
    BY <1>2 DEF StartConnect, TypeOK, Skills, SkillsOutliveClient, SameSessions
  <2> QED  BY <1>2, <2>1, <2>2, <2>3, <2>4, StartConnectClients DEF Own
<1>3. CASE BuildFail(t)
  <2>1. Registries' /\ Streams' /\ Clients' /\
        Unread' /\ AnswersAreOwn' /\ SetupFailureIsTold'
    BY <1>3 DEF BuildFail, Registries, Streams, Clients, Unread, AnswersAreOwn,
                SetupFailureIsTold, SameSessions
  <2>2. Agents'
    BY <1>3 DEF BuildFail, TypeOK, Agents
  <2> QED  BY <1>3, <2>1, <2>2, BuildFailSkills DEF Own
<1>4. CASE ConnectReturn(t)
  <2>1. Registries' /\ Skills' /\ Unread' /\ AnswersAreOwn' /\ SetupFailureIsTold'
    BY <1>4 DEF ConnectReturn, Registries, Skills, Unread, AnswersAreOwn, SetupFailureIsTold,
                SkillsOutliveClient, SameSessions
  <2>2. TypeOK'
    BY <1>4 DEF ConnectReturn, TypeOK, Streams
  <2>3. Streams'
    BY <1>4 DEF ConnectReturn, TypeOK, Streams
  <2>4. Agents'
    BY <1>4 DEF ConnectReturn, TypeOK, Agents
  <2> QED  BY <1>4, <2>1, <2>2, <2>3, <2>4, ConnectReturnClients DEF Own
<1>5. CASE ConnectFail(t)
  <2>1. TypeOK' /\ Registries' /\ Skills' /\
        Unread' /\ AnswersAreOwn' /\ SetupFailureIsTold'
    BY <1>5 DEF ConnectFail, TypeOK, Registries, Skills, Unread, AnswersAreOwn,
                SetupFailureIsTold, SkillsOutliveClient, SameSessions
  <2>2. Streams'
    BY <1>5 DEF ConnectFail, TypeOK, Streams
  <2>3. Clients'
    BY <1>5 DEF ConnectFail, Streams, Clients
  <2>4. Agents'
    BY <1>5 DEF ConnectFail, TypeOK, Agents
  <2> QED  BY <2>1, <2>2, <2>3, <2>4 DEF Own
<1> QED  BY <1>1, <1>2, <1>3, <1>4, <1>5

(* Asking the agent, and its results.                                      *)
LEMMA AnswerOwn ==
  ASSUME Own, ManagerFacts, SameSessions, NEW t \in Stream,
         QueryReturn(t) \/ Result(t)
  PROVE  Own'
<1> USE NoneAssumption DEF Own
<1>1. CASE QueryReturn(t)
  <2>1. Registries' /\ Streams' /\ Clients' /\ Skills' /\
        Agents' /\ AnswersAreOwn' /\ SetupFailureIsTold'
    BY <1>1 DEF QueryReturn, Registries, Streams, Clients, Skills, Agents, AnswersAreOwn,
                SetupFailureIsTold, SkillsOutliveClient, SameSessions
  <2>2. TypeOK'
    BY <1>1 DEF QueryReturn, TypeOK, Agents
  <2>3. Unread'
    BY <1>1 DEF QueryReturn, TypeOK, Unread
  <2> QED  BY <2>1, <2>2, <2>3 DEF Own
<1>2. CASE Result(t)
  <2>1. Registries' /\ Streams' /\ Clients' /\ Skills' /\ Agents' /\ SetupFailureIsTold'
    BY <1>2 DEF Result, Registries, Streams, Clients, Skills, Agents, SetupFailureIsTold,
                SkillsOutliveClient, SameSessions
  <2>2. TypeOK'
    BY <1>2 DEF Result, TypeOK, Agents
  <2>3. Unread'
    BY <1>2 DEF Result, TypeOK, Unread
  <2> QED  BY <1>2, <2>1, <2>2, <2>3, ResultAnswers DEF Own
<1> QED  BY <1>1, <1>2

(* Every way out of the driver.                                            *)
LEMMA LeaveOwn ==
  ASSUME Own, ManagerFacts, SameSessions, NEW t \in Stream,
         Complete(t) \/ GiveUp(t) \/ Raise(t) \/ CancelAtAwait(t) \/ AbandonAtYield(t) \/
           Finalize(t)
  PROVE  Own'
<1> USE NoneAssumption DEF Own
<1>1. CASE Complete(t)
  <2>1. Registries' /\ Clients' /\ Agents'
    BY <1>1 DEF Complete, SM!StreamEnd, SM!Leave, Registries, Clients, Agents, SameSessions
  <2>2. TypeOK'
    BY <1>1 DEF Complete, SM!StreamEnd, SM!Leave, TypeOK, Agents
  <2>3. Streams'
    BY <1>1 DEF Complete, SM!StreamEnd, SM!Leave, ManagerFacts, TypeOK, Streams
  <2>4. Skills'
    BY <1>1 DEF Complete, SM!StreamEnd, SM!Leave, Streams, Skills, SkillsOutliveClient,
                SameSessions
  <2>5. Unread'
    BY <1>1 DEF Complete, SM!StreamEnd, SM!Leave, TypeOK, Unread
  <2>6. SetupFailureIsTold'
    BY <1>1 DEF Complete, SM!StreamEnd, SM!Leave, Agents, SetupFailureIsTold
  <2> QED  BY <1>1, <2>1, <2>2, <2>3, <2>4, <2>5, <2>6, LeaveAnswers DEF Own
<1>2. CASE GiveUp(t)
  <2>1. TypeOK' /\ Registries' /\ Clients' /\ Agents' /\ Unread'
    BY <1>2 DEF GiveUp, SM!StreamEnd, SM!Leave, TypeOK, Registries, Clients, Agents, Unread,
                SameSessions
  <2>2. Streams'
    BY <1>2 DEF GiveUp, SM!StreamEnd, SM!Leave, ManagerFacts, TypeOK, Streams
  <2>3. Skills'
    BY <1>2 DEF GiveUp, SM!StreamEnd, SM!Leave, Streams, Skills, SkillsOutliveClient,
                SameSessions
  <2>4. SetupFailureIsTold'
    BY <1>2 DEF GiveUp, SM!StreamEnd, SM!Leave, Agents, SetupFailureIsTold
  <2> QED  BY <1>2, <2>1, <2>2, <2>3, <2>4, LeaveAnswers DEF Own
<1>3. CASE Raise(t)
  <2>1. TypeOK' /\ Registries' /\ Clients' /\ Agents'
    BY <1>3 DEF Raise, SM!StreamEnd, SM!Leave, TypeOK, Registries, Clients, Agents, SameSessions
  <2>2. Streams'
    BY <1>3 DEF Raise, SM!StreamEnd, SM!Leave, ManagerFacts, TypeOK, Streams
  <2>3. Skills'
    BY <1>3 DEF Raise, SM!StreamEnd, SM!Leave, Streams, Skills, SkillsOutliveClient,
                SameSessions
  <2>4. Unread'
    BY <1>3 DEF Raise, SM!StreamEnd, SM!Leave, ManagerFacts, Unread
  <2>5. SetupFailureIsTold'
    BY <1>3 DEF Raise, SM!StreamEnd, SM!Leave, Agents, SetupFailureIsTold
  <2> QED  BY <1>3, <2>1, <2>2, <2>3, <2>4, <2>5, LeaveAnswers DEF Own
<1>4. CASE CancelAtAwait(t)
  <2>1. TypeOK' /\ Registries' /\ Clients' /\ Agents' /\ SetupFailureIsTold'
    BY <1>4 DEF CancelAtAwait, SM!StreamEnd, SM!Leave, TypeOK, Registries, Clients, Agents,
                SetupFailureIsTold, SameSessions
  <2>2. Streams'
    BY <1>4 DEF CancelAtAwait, SM!StreamEnd, SM!Leave, ManagerFacts, TypeOK, Streams
  <2>3. Skills'
    BY <1>4 DEF CancelAtAwait, SM!StreamEnd, SM!Leave, Streams, Skills, SkillsOutliveClient,
                SameSessions
  <2>4. Unread'
    BY <1>4 DEF CancelAtAwait, SM!StreamEnd, SM!Leave, ManagerFacts, Unread
  <2> QED  BY <1>4, <2>1, <2>2, <2>3, <2>4, LeaveAnswers DEF Own
<1>5. CASE AbandonAtYield(t)
  <2>1. TypeOK' /\ Registries' /\ Streams'
    BY <1>5 DEF AbandonAtYield, SM!StreamAbandon, TypeOK, Registries, Streams, SameSessions
  <2>2. Clients' /\ Skills'
    BY <1>5 DEF AbandonAtYield, SM!StreamAbandon, Clients, Skills, SkillsOutliveClient,
                SameSessions
  <2>3. Agents' /\ Unread'
    BY <1>5 DEF AbandonAtYield, SM!StreamAbandon, Agents, Unread
  <2>4. AnswersAreOwn' /\ SetupFailureIsTold'
    BY <1>5 DEF AbandonAtYield, SM!StreamAbandon, AnswersAreOwn, SetupFailureIsTold
  <2> QED  BY <2>1, <2>2, <2>3, <2>4 DEF Own
<1>6. CASE Finalize(t)
  <2>1. TypeOK' /\ Registries' /\ Clients' /\ Agents' /\ SetupFailureIsTold'
    BY <1>6 DEF Finalize, SM!StreamFinalize, SM!Leave, TypeOK, Registries, Clients, Agents,
                SetupFailureIsTold, SameSessions
  <2>2. Skills'
    BY <1>6 DEF Finalize, SM!StreamFinalize, SM!Leave, Streams, Skills, SkillsOutliveClient,
                SameSessions
  <2>3. Unread'
    BY <1>6 DEF Finalize, SM!StreamFinalize, SM!Leave, ManagerFacts, Unread
  <2>4. Streams'
    <3>1. streamPc[t] = "abandoned" /\ UNCHANGED <<streamSession, creation, link, agent,
             told>> /\
        streamPc' = [streamPc EXCEPT ![t] = "disconnected"] /\
             step' = [step EXCEPT ![t] = "none"]
      BY <1>6 DEF Finalize, SM!StreamFinalize, SM!Leave
    <3> QED  BY <1>6, <3>1 DEF Streams, TypeOK, ManagerFacts
  <2> QED  BY <1>6, <2>1, <2>2, <2>3, <2>4, LeaveAnswers DEF Own
<1> QED  BY <1>1, <1>2, <1>3, <1>4, <1>5, <1>6

(* DELETE /v1/sessions/{id}.                                               *)
LEMMA CloseOwn ==
  ASSUME Own, ManagerFacts, NEW c \in Closer,
         CloseNotFound(c) \/ CloseAtOnce(c) \/ CloseStart(c) \/ CloseReturn(c) \/
           CloseFail(c)
  PROVE  Own'
<1> USE NoneAssumption DEF Own
<1>1. CASE CloseNotFound(c)
  <2>1. TypeOK' /\ Registries' /\ Streams' /\ Clients' /\ Skills' /\
        Agents' /\ Unread' /\ AnswersAreOwn' /\ SetupFailureIsTold'
    BY <1>1 DEF CloseNotFound, SM!CloseStart, TypeOK, Registries, Streams, Clients, Skills,
                Agents, Unread, AnswersAreOwn, SetupFailureIsTold, SkillsOutliveClient
  <2> QED  BY <2>1 DEF Own
<1>2. CASE CloseAtOnce(c)
  <2>1. TypeOK' /\ Streams' /\ Clients' /\ Agents' /\
        Unread' /\ AnswersAreOwn' /\ SetupFailureIsTold'
    BY <1>2 DEF CloseAtOnce, SM!CloseAtOnce, Forget, SM!Without, TypeOK, Streams, Clients,
                Agents, Unread, AnswersAreOwn, SetupFailureIsTold
  <2>2. Registries'
    BY <1>2 DEF CloseAtOnce, SM!CloseAtOnce, Forget, SM!Without, ManagerFacts, Registries
  <2>3. Skills'
    BY <1>2 DEF CloseAtOnce, SM!CloseAtOnce, Forget, SM!Without, ManagerFacts, TypeOK, Streams,
                Clients, Skills, SkillsOutliveClient
  <2> QED  BY <2>1, <2>2, <2>3 DEF Own
<1>3. CASE CloseStart(c)
  <2>1. TypeOK' /\ Registries' /\ Streams' /\ Agents' /\
        Unread' /\ AnswersAreOwn' /\ SetupFailureIsTold'
    BY <1>3 DEF CloseStart, SM!CloseStart, Forget, TypeOK, Registries, Streams, Agents, Unread,
                AnswersAreOwn, SetupFailureIsTold
  <2>2. Skills'
    BY <1>3 DEF CloseStart, SM!CloseStart, Forget, ManagerFacts, TypeOK, Streams, Clients,
                Skills, SkillsOutliveClient
  <2> QED  BY <1>3, <2>1, <2>2, CloseStartClients DEF Own
<1>4. CASE CloseReturn(c)
  <2>1. Skills' /\ Agents' /\ Unread' /\ AnswersAreOwn' /\ SetupFailureIsTold'
    BY <1>4 DEF CloseReturn, SM!CloseReturn, SM!Without, Skills, Agents, Unread, AnswersAreOwn,
                SetupFailureIsTold, SkillsOutliveClient
  <2>2. Registries'
    BY <1>4 DEF CloseReturn, SM!CloseReturn, SM!Without, ManagerFacts, Registries
  <2>3. Streams'
    BY <1>4 DEF CloseReturn, SM!CloseReturn, SM!Without, Streams, Clients
  <2>4. Clients'
    BY <1>4 DEF CloseReturn, SM!CloseReturn, SM!Without, TypeOK, Clients
  <2>5. TypeOK'
    <3>1. link' = [link EXCEPT ![disconnecting[c]] = "closed"] /\ link \in [Stream -> Links]
      BY <1>4 DEF CloseReturn, TypeOK
    <3>2. link' \in [Stream -> Links]
      BY <3>1
    <3>3. disconnecting' = [disconnecting EXCEPT ![c] = None]
      BY <1>4 DEF CloseReturn
    <3> QED  BY <1>4, <3>2, <3>3 DEF CloseReturn, TypeOK
  <2> QED  BY <2>1, <2>2, <2>3, <2>4, <2>5 DEF Own
<1>5. CASE CloseFail(c)
  <2>1. Registries' /\ Skills' /\ Agents' /\
        Unread' /\ AnswersAreOwn' /\ SetupFailureIsTold'
    BY <1>5 DEF CloseFail, SM!CloseFail, Registries, Skills, Agents, Unread, AnswersAreOwn,
                SetupFailureIsTold, SkillsOutliveClient
  <2>2. Streams'
    BY <1>5 DEF CloseFail, SM!CloseFail, Streams, Clients
  <2>3. Clients'
    BY <1>5 DEF CloseFail, SM!CloseFail, TypeOK, Clients
  <2>4. TypeOK'
    <3>1. link' = [link EXCEPT ![disconnecting[c]] = "lost"] /\ link \in [Stream -> Links]
      BY <1>5 DEF CloseFail, TypeOK
    <3>2. link' \in [Stream -> Links]
      BY <3>1
    <3>3. disconnecting' = [disconnecting EXCEPT ![c] = None]
      BY <1>5 DEF CloseFail
    <3> QED  BY <1>5, <3>2, <3>3 DEF CloseFail, TypeOK
  <2> QED  BY <2>1, <2>2, <2>3, <2>4 DEF Own
<1> QED  BY <1>1, <1>2, <1>3, <1>4, <1>5

(* Steps of the broker alone.                                              *)
LEMMA BrokerOwn ==
  ASSUME Own,
         UNCHANGED <<managerVars, providerVars, streamVars, disconnecting, worldVars>>
  PROVE  Own'
BY DEF Own, TypeOK, Registries, Streams, Clients, Skills, SkillsOutliveClient, Agents, Unread,
       AnswersAreOwn, SetupFailureIsTold

(* Every step keeps the invariant.                                         *)
LEMMA NextOwn == SM!IInv /\ Own /\ [Next]_vars => Own'
<1> SUFFICES ASSUME SM!IInv, Own, [Next]_vars PROVE Own'
  OBVIOUS
<1>1. ManagerFacts
  BY ManagerFactsHold
<1>2. ASSUME NEW s \in Session, CreateStart(s) \/ CreateReturn(s) PROVE Own'
  BY <1>1, <1>2, CreateOwn
<1>3. ASSUME NEW t \in Stream, Outside(t) \/ ResumeNotFound(t) \/ Enter(t) \/
         Refused(t) PROVE Own'
  BY <1>1, <1>3, WaitOwn, StreamKeepsSessions
<1>4. ASSUME NEW t \in Stream,
             ReuseClient(t) \/ StartConnect(t) \/ BuildFail(t) \/ ConnectReturn(t) \/
                  ConnectFail(t)
      PROVE  Own'
  BY <1>1, <1>4, ConnectOwn, StreamKeepsSessions
<1>5. ASSUME NEW t \in Stream, QueryReturn(t) \/ Result(t) PROVE Own'
  BY <1>1, <1>5, AnswerOwn, StreamKeepsSessions
<1>6. ASSUME NEW t \in Stream,
             Complete(t) \/ GiveUp(t) \/ Raise(t) \/ CancelAtAwait(t) \/ AbandonAtYield(t) \/
               Finalize(t)
      PROVE  Own'
  BY <1>1, <1>6, LeaveOwn, StreamKeepsSessions
<1>7. ASSUME NEW c \in Closer,
             CloseNotFound(c) \/ CloseAtOnce(c) \/ CloseStart(c) \/ CloseReturn(c) \/
                  CloseFail(c)
      PROVE  Own'
  BY <1>1, <1>7, CloseOwn
<1>8. ASSUME NEW a \in Approval, ToolAsks(a) \/ CallbackStep(a) \/ CallbackAbort(a) PROVE Own'
  BY <1>8, BrokerOwn DEF ToolAsks, CallbackStep, CallbackAbort
<1>9. ASSUME NEW a \in Approval, NEW d \in Decider, NEW s \in Session, DecideRoute(d, s, a)
      PROVE  Own'
  BY <1>9, BrokerOwn DEF DecideRoute
<1>10. CASE UNCHANGED vars
  BY <1>10, BrokerOwn
<1> QED
  BY <1>2, <1>3, <1>4, <1>5, <1>6, <1>7, <1>8, <1>9, <1>10 DEF Next

(* Manager, driver and provider agree in every reachable state.            *)
THEOREM InductiveInvariant == Spec => []IInv
<1>1. Init => Own
  BY DEF Init, SM!Init, Own, TypeOK, Registries, Streams, Clients, Skills, SkillsOutliveClient,
         Agents, Unread, AnswersAreOwn, SetupFailureIsTold
<1>2. Spec => []SM!IInv
  BY ManagerPromises, SameInvariant, PTL
<1>3. SM!IInv /\ Own => IInv
  BY DEF IInv
<1> QED  BY <1>1, <1>2, <1>3, NextOwn, PTL DEF Spec

-------------------------------------------------------------------------------
(* The variables that driver and provider add keep their types.            *)
THEOREM TypeCorrect == Spec => []TypeOK
<1>1. IInv => TypeOK
  BY DEF IInv, Own
<1> QED  BY <1>1, InductiveInvariant, PTL

(* No session has two agents at once, but for one being disconnected.      *)
THEOREM OneLiveClientAlways == Spec => []OneLiveClient
<1>1. IInv => OneLiveClient
  <2> SUFFICES ASSUME Own, ManagerFacts, NEW t \in Stream, NEW u \in Stream, Live(t), Live(u),
                      streamSession[t] = streamSession[u]
               PROVE  t = u
    BY ManagerFactsHold DEF IInv, OneLiveClient
  <2>1. CASE link[t] = "open" /\ link[u] = "open"
    BY <2>1 DEF Own, Clients
  <2>2. CASE link[t] = "connecting" /\ link[u] = "connecting"
    BY <2>2 DEF Own, Streams, ManagerFacts, SM!Serialized
  <2>3. CASE link[t] # link[u]
    <3>1. /\ step[t] = "connecting" \/ step[u] = "connecting"
          /\ clients[streamSession[t]] = t \/ clients[streamSession[t]] = u
      BY <2>3 DEF Own, Streams, Clients
    <3> QED  BY <3>1, NoneAssumption DEF Own, Clients
  <2> QED  BY <2>1, <2>2, <2>3
<1> QED  BY <1>1, InductiveInvariant, PTL

(* A session that GET reports can be closed, and the other way round.      *)
THEOREM RegistriesAlwaysAgree == Spec => []RegistriesAgree
<1>1. IInv => RegistriesAgree
  BY DEF IInv, Own, Registries, RegistriesAgree
<1> QED  BY <1>1, InductiveInvariant, PTL

(* A cached client still has the skills directory it was started with.     *)
THEOREM SkillsAlwaysOutliveClient == Spec => []SkillsOutliveClient
<1>1. IInv => SkillsOutliveClient
  BY DEF IInv, Own, Skills
<1> QED  BY <1>1, InductiveInvariant, PTL

(* Only after a stream was cut short is the next one given its result.     *)
THEOREM AnswersAlwaysOwn == Spec => []AnswersAreOwn
<1>1. IInv => AnswersAreOwn
  BY DEF IInv, Own
<1> QED  BY <1>1, InductiveInvariant, PTL

(* A stream that ends before the agent was asked ends with an error event. *)
THEOREM SetupFailureAlwaysTold == Spec => []SetupFailureIsTold
<1>1. IInv => SetupFailureIsTold
  BY DEF IInv, Own
<1> QED  BY <1>1, InductiveInvariant, PTL

-------------------------------------------------------------------------------
(* The approval broker under this provider.                                *)

(* Tool callbacks, the decide route and the closing of sessions use the    *)
(* broker as ApprovalBroker says, and nothing else touches it.             *)
LEMMA BrokerStep == IInv /\ [Next]_vars => [AB!Next]_(AB!vars)
<1> SUFFICES ASSUME IInv, [Next]_vars PROVE [AB!Next]_(AB!vars)
  OBVIOUS
<1> USE DEF AB!vars, AB!recordVars, AB!deciderVars
<1>1. ManagerFacts
  BY ManagerFactsHold DEF IInv
<1>2. ASSUME NEW s \in Session, CreateStart(s) \/ CreateReturn(s) PROVE UNCHANGED AB!vars
  BY <1>2 DEF CreateStart, CreateReturn
<1>3. ASSUME NEW t \in Stream,
             Outside(t) \/ ResumeNotFound(t) \/ Enter(t) \/ Refused(t) \/ ReuseClient(t) \/
               StartConnect(t) \/ BuildFail(t) \/ ConnectReturn(t) \/ ConnectFail(t)
      PROVE  UNCHANGED AB!vars
  BY <1>3 DEF Outside, ResumeNotFound, Enter, Refused, ReuseClient, StartConnect, BuildFail,
              ConnectReturn, ConnectFail
<1>4. ASSUME NEW t \in Stream,
             QueryReturn(t) \/ Result(t) \/ Complete(t) \/ GiveUp(t) \/ Raise(t) \/
               CancelAtAwait(t) \/ AbandonAtYield(t) \/ Finalize(t)
      PROVE  UNCHANGED AB!vars
  BY <1>4 DEF QueryReturn, Result, Complete, GiveUp, Raise, CancelAtAwait, AbandonAtYield,
              Finalize
<1>5. ASSUME NEW c \in Closer, CloseNotFound(c) \/ CloseStart(c) \/ CloseFail(c)
      PROVE  UNCHANGED AB!vars
  BY <1>5 DEF CloseNotFound, CloseStart, CloseFail
<1>6. ASSUME NEW c \in Closer, CloseAtOnce(c) PROVE AB!Next
  BY <1>6 DEF CloseAtOnce, AB!Next, IInv, Own, TypeOK
<1>7. ASSUME NEW c \in Closer, CloseReturn(c) PROVE AB!Next
  <2>1. closeSession[c] \in Session
    BY <1>1, <1>7 DEF CloseReturn, SM!CloseReturn, ManagerFacts
  <2> QED  BY <1>7, <2>1 DEF CloseReturn, AB!Next
<1>8. ASSUME NEW a \in Approval, ToolAsks(a) PROVE AB!Next
  <2>1. PICK t \in Stream : link[t] = "open" /\ AB!RequestApproval(a, streamSession[t])
    BY <1>8 DEF ToolAsks
  <2>2. streamSession[t] \in Session
    BY <2>1 DEF IInv, Own, Streams
  <2> QED  BY <2>1, <2>2 DEF AB!Next
<1>9. ASSUME NEW a \in Approval, CallbackStep(a) \/ CallbackAbort(a) PROVE AB!Next
  BY <1>9 DEF CallbackStep, CallbackAbort, AB!Next
<1>10. ASSUME NEW a \in Approval, NEW d \in Decider, NEW s \in Session, DecideRoute(d, s, a)
       PROVE  AB!Next
  BY <1>10 DEF DecideRoute, AB!Next
<1>11. CASE UNCHANGED vars
  BY <1>11
<1> QED  BY <1>2, <1>3, <1>4, <1>5, <1>6, <1>7, <1>8, <1>9, <1>10, <1>11 DEF Next

(* AB and ABP are two instances of one module, as SM and MP are.           *)
LEMMA SameBrokerStep == [AB!Next]_(AB!vars) => [ABP!Next]_(ABP!vars)
BY DEF AB!Next, ABP!Next, AB!vars, ABP!vars, AB!recordVars, ABP!recordVars, AB!deciderVars,
       ABP!deciderVars, AB!RequestApproval, ABP!RequestApproval, AB!DecideNotFound,
       ABP!DecideNotFound, AB!DecideLate, ABP!DecideLate, AB!Decide, ABP!Decide,
       AB!CancelSession, ABP!CancelSession, AB!Deliver, ABP!Deliver, AB!TimeOut, ABP!TimeOut,
       AB!Expire, ABP!Expire, AB!Abort, ABP!Abort, AB!MarkTerminal, ABP!MarkTerminal,
       AB!Terminal, ABP!Terminal

(* In embedded mode the broker behaves as ApprovalBroker says.             *)
THEOREM BrokerImplemented == Spec => AB!Spec
<1>1. Init => AB!Init
  BY DEF Init
<1> QED  BY <1>1, BrokerStep, InductiveInvariant, PTL DEF Spec, AB!Spec

(* So what is proved of the broker alone holds of the tool calls of every  *)
(* agent: no tool runs that nobody approved, records are settled once and  *)
(* by a decision for the session that asked, and each call gets one        *)
(* consent, none assumed.                                                  *)
THEOREM BrokerPromises ==
  Spec => /\ []ABP!AllowedOnlyIfApproved /\ []ABP!DenialOnRecord
          /\ ABP!SettledOnceByOwner /\ ABP!ImplementsLedger
<1>1. AB!Init => ABP!Init
  BY DEF AB!Init, ABP!Init
<1>2. AB!Spec => ABP!Spec
  BY <1>1, SameBrokerStep, PTL DEF AB!Spec, ABP!Spec
<1>3. None \notin Session
  BY NoneAssumption
<1> QED  BY <1>2, <1>3, BrokerImplemented, ABP!NoToolWithoutApproval, ABP!DenialAlwaysOnRecord,
            ABP!SettledOnceByOwnerAlways, ABP!LedgerImplemented, PTL

-------------------------------------------------------------------------------
(* Approvals and the agents that ask for them.                             *)

(* A close request awaits the disconnect of a client of the session that   *)
(* it closes.                                                              *)
ClosersOwn ==
  \A c \in Closer : disconnecting[c] # None =>
    closePc[c] = "closing" /\ streamSession[disconnecting[c]] = closeSession[c]

(* Records and clients that stay as they are keep both.                    *)
LEMMA SameAgents ==
  ASSUME Own, ManagerFacts, ClosersOwn, PendingHasAgent,
         UNCHANGED <<status, owner, disconnecting>>,
         \A c \in Closer : closePc[c] = "closing" =>
           closePc'[c] = "closing" /\ closeSession'[c] = closeSession[c],
         \A u \in Stream : Entered(u) => streamSession'[u] = streamSession[u],
         \A u \in Stream : link[u] \in {"open", "lost"} => link'[u] = link[u]
  PROVE  ClosersOwn' /\ PendingHasAgent'
<1>1. ClosersOwn'
  <2> SUFFICES ASSUME NEW c \in Closer, disconnecting[c] # None
               PROVE  closePc'[c] = "closing"
                      /\ streamSession'[disconnecting[c]] = closeSession'[c]
    BY DEF ClosersOwn
  <2>1. disconnecting[c] \in Stream /\ Entered(disconnecting[c])
    BY DEF Own, Clients, TypeOK
  <2>2. closePc[c] = "closing" /\ streamSession[disconnecting[c]] = closeSession[c]
    BY DEF ClosersOwn
  <2> HIDE DEF Entered
  <2> QED  BY <2>1, <2>2
<1>2. \A u \in Stream : link[u] \in {"open", "lost"} => Entered(u)
  BY DEF Own, Streams
<1>3. PendingHasAgent'
  BY <1>2 DEF PendingHasAgent
<1> QED  BY <1>1, <1>3

(* A stream neither asks nor answers, and breaks no connection that stands. *)
LEMMA StreamAgents ==
  ASSUME Own, ManagerFacts, ClosersOwn, PendingHasAgent, NEW t \in Stream,
         Outside(t) \/ ResumeNotFound(t) \/ Enter(t) \/ Refused(t) \/ ReuseClient(t) \/
           StartConnect(t) \/ BuildFail(t) \/ ConnectReturn(t) \/ ConnectFail(t) \/
           QueryReturn(t) \/ Result(t) \/ Complete(t) \/ GiveUp(t) \/ Raise(t) \/
           CancelAtAwait(t) \/ AbandonAtYield(t) \/ Finalize(t)
  PROVE  ClosersOwn' /\ PendingHasAgent'
<1>1. UNCHANGED <<status, owner, disconnecting, closePc, closeSession>>
  BY DEF Outside, ResumeNotFound, Enter, Refused, ReuseClient, StartConnect, BuildFail,
         ConnectReturn, ConnectFail, QueryReturn, Result, Complete, GiveUp, Raise,
         CancelAtAwait, AbandonAtYield, Finalize, SM!StreamNotFound, SM!StreamWait,
         SM!StreamLeaveQueue, SM!StreamResumeNotFound, SM!StreamResume, SM!StreamStart,
         SM!StreamRefused, SM!StreamResumeRefused, SM!StreamEnd, SM!StreamAbandon,
         SM!StreamFinalize, SM!Leave
<1>2. \A u \in Stream : Entered(u) => streamSession'[u] = streamSession[u]
  BY DEF Outside, ResumeNotFound, Enter, Refused, ReuseClient, StartConnect, BuildFail,
         ConnectReturn, ConnectFail, QueryReturn, Result, Complete, GiveUp, Raise,
         CancelAtAwait, AbandonAtYield, Finalize, SM!StreamNotFound, SM!StreamWait,
         SM!StreamLeaveQueue, SM!StreamResumeNotFound, SM!StreamResume, SM!StreamStart,
         SM!StreamRefused, SM!StreamResumeRefused, SM!StreamEnd, SM!StreamAbandon,
         SM!StreamFinalize, SM!Leave, ManagerFacts
<1>3. \A u \in Stream : link[u] \in {"open", "lost"} => link'[u] = link[u]
  <2>1. CASE StartConnect(t) \/ ConnectReturn(t) \/ ConnectFail(t)
    BY <2>1 DEF StartConnect, ConnectReturn, ConnectFail, Own, TypeOK, Streams
  <2>2. CASE CancelAtAwait(t)
    BY <2>2 DEF CancelAtAwait, Own, TypeOK
  <2>3. CASE UNCHANGED link
    BY <2>3
  <2> QED
    BY <2>1, <2>2, <2>3 DEF Outside, ResumeNotFound, Enter, Refused, ReuseClient, BuildFail,
                            QueryReturn, Result, Complete, GiveUp, Raise, AbandonAtYield,
                            Finalize
<1> QED  BY <1>1, <1>2, <1>3, SameAgents

(* A close that ends well cancels what was asked of the session whose      *)
(* client it has disconnected.                                             *)
LEMMA CloseAgents ==
  ASSUME Own, ManagerFacts, ABP!TypeOK, ClosersOwn, PendingHasAgent, NEW c \in Closer,
         CloseNotFound(c) \/ CloseAtOnce(c) \/ CloseStart(c) \/ CloseReturn(c) \/ CloseFail(c)
  PROVE  ClosersOwn' /\ PendingHasAgent'
<1> USE NoneAssumption
<1>1. /\ link \in [Stream -> Links] /\ clients \in [Session -> Stream \cup {None}]
      /\ disconnecting \in [Closer -> Stream \cup {None}]
      /\ closePc \in [Closer -> SM!ClosePc] /\ closeSession \in [Closer -> Session \cup {None}]
  BY DEF Own, TypeOK, ManagerFacts
<1>2. ASSUME NEW s \in Session, AB!CancelSession(s), NEW a \in Approval, status'[a] = "pending"
      PROVE  status[a] = "pending" /\ owner' = owner /\ owner[a] # s
  BY <1>2 DEF AB!CancelSession, AB!MarkTerminal
<1>3. CASE CloseNotFound(c)
  BY <1>1, <1>3, SameAgents DEF CloseNotFound, SM!CloseStart
<1>4. CASE CloseAtOnce(c)
  <2>1. PICK s \in Session : SM!CloseAtOnce(c, s) /\ AB!CancelSession(s)
    BY <1>4 DEF CloseAtOnce, Own, TypeOK
  <2>2. closePc[c] = "idle" /\ \A d \in Closer \ {c} : UNCHANGED <<closePc[d], closeSession[d]>>
    BY <1>1, <2>1 DEF SM!CloseAtOnce
  <2>3. UNCHANGED <<disconnecting, link, streamSession>>
    BY <1>4, <2>1 DEF CloseAtOnce, SM!CloseAtOnce
  <2>4. ClosersOwn'
    BY <2>2, <2>3 DEF ClosersOwn
  <2>5. PendingHasAgent'
    BY <1>2, <2>1, <2>3 DEF PendingHasAgent
  <2> QED  BY <2>4, <2>5
<1>5. CASE CloseStart(c)
  <2>1. PICK s \in Session :
          /\ SM!CloseStart(c, s) /\ SM!Present(s) /\ clients[s] # None
          /\ disconnecting' = [disconnecting EXCEPT ![c] = clients[s]]
    BY <1>5 DEF CloseStart, Own, TypeOK
  <2>2. /\ closePc[c] = "idle" /\ closePc'[c] = "closing" /\ closeSession'[c] = s
        /\ \A d \in Closer \ {c} : UNCHANGED <<closePc[d], closeSession[d], disconnecting[d]>>
        /\ disconnecting'[c] = clients[s] /\ streamSession[clients[s]] = s
    BY <1>1, <2>1 DEF SM!CloseStart, Own, Clients
  <2>3. UNCHANGED <<status, owner, link, streamSession>>
    BY <1>5, <2>1 DEF CloseStart, SM!CloseStart
  <2>4. ClosersOwn'
    BY <2>2, <2>3 DEF ClosersOwn
  <2> QED  BY <2>3, <2>4 DEF PendingHasAgent
<1>6. ASSUME disconnecting' = [disconnecting EXCEPT ![c] = None], closeSession' = closeSession,
             \A d \in Closer \ {c} : closePc'[d] = closePc[d], streamSession' = streamSession
      PROVE  ClosersOwn'
  BY <1>1, <1>6 DEF ClosersOwn
<1>7. CASE CloseReturn(c)
  <2>1. ClosersOwn'
    BY <1>1, <1>6, <1>7 DEF CloseReturn, SM!CloseReturn
  <2>2. closeSession[c] \in Session
    BY <1>7 DEF CloseReturn, SM!CloseReturn, ManagerFacts
  <2>3. ASSUME NEW a \in Approval, status'[a] = "pending"
        PROVE  \E t \in Stream : streamSession'[t] = owner'[a] /\ link'[t] \in {"open", "lost"}
    <3>1. status[a] = "pending" /\ owner' = owner /\ owner[a] # closeSession[c]
      BY <1>2, <1>7, <2>2, <2>3 DEF CloseReturn
    <3>2. PICK t \in Stream : streamSession[t] = owner[a] /\ link[t] \in {"open", "lost"}
      BY <3>1 DEF PendingHasAgent
    <3>3. t # disconnecting[c]
      BY <3>1, <3>2 DEF ClosersOwn
    <3>4. streamSession' = streamSession /\ link'[t] = link[t]
      BY <1>1, <1>7, <3>3 DEF CloseReturn, SM!CloseReturn
    <3> QED  BY <3>1, <3>2, <3>4
  <2> QED  BY <2>1, <2>3 DEF PendingHasAgent
<1>8. CASE CloseFail(c)
  <2>1. ClosersOwn'
    BY <1>1, <1>6, <1>8 DEF CloseFail, SM!CloseFail
  <2>2. UNCHANGED <<status, owner, streamSession>>
        /\ \A t \in Stream : link'[t] = link[t] \/ link'[t] = "lost"
    BY <1>1, <1>8 DEF CloseFail, SM!CloseFail
  <2> QED  BY <2>1, <2>2 DEF PendingHasAgent
<1> QED  BY <1>3, <1>4, <1>5, <1>7, <1>8

(* An agent asks while it is connected, and nothing else opens a record.   *)
LEMMA BrokerAgents ==
  ASSUME ABP!TypeOK, ClosersOwn, PendingHasAgent, NEW a \in Approval,
         ToolAsks(a) \/ CallbackStep(a) \/ CallbackAbort(a) \/
           \E d \in Decider, s \in Session : DecideRoute(d, s, a)
  PROVE  ClosersOwn' /\ PendingHasAgent'
<1>1. UNCHANGED <<closePc, closeSession, disconnecting, streamSession, link>>
  BY DEF ToolAsks, CallbackStep, CallbackAbort, DecideRoute
<1>2. ClosersOwn'
  BY <1>1 DEF ClosersOwn
<1>3. CASE ToolAsks(a)
  <2>1. PICK t \in Stream : link[t] = "open" /\ AB!RequestApproval(a, streamSession[t])
    BY <1>3 DEF ToolAsks
  <2>2. owner'[a] = streamSession[t]
        /\ \A b \in Approval \ {a} : status'[b] = status[b] /\ owner'[b] = owner[b]
    BY <2>1 DEF AB!RequestApproval, ABP!TypeOK
  <2> QED  BY <1>1, <1>2, <2>1, <2>2 DEF PendingHasAgent
<1>4. CASE ~ToolAsks(a)
  <2>1. owner' = owner /\ \A b \in Approval : status'[b] = "pending" => status[b] = "pending"
    BY <1>4 DEF CallbackStep, CallbackAbort, DecideRoute, AB!Deliver, AB!TimeOut, AB!Expire,
                AB!Abort, AB!Decide, AB!DecideLate, AB!DecideNotFound, AB!MarkTerminal,
                AB!recordVars
  <2> QED  BY <1>1, <1>2, <2>1 DEF PendingHasAgent
<1> QED  BY <1>3, <1>4

(* No approval outlives the agents of its session: every close that ends   *)
(* well settles what was asked while it was under way.                     *)
THEOREM PendingAlwaysHasAgent == Spec => []PendingHasAgent
<1>1. Init => ClosersOwn /\ PendingHasAgent
  BY DEF Init, AB!Init, ClosersOwn, PendingHasAgent
<1>2. ASSUME IInv, ABP!TypeOK, ClosersOwn, PendingHasAgent, [Next]_vars
      PROVE  ClosersOwn' /\ PendingHasAgent'
  <2>1. Own /\ ManagerFacts
    BY <1>2, ManagerFactsHold DEF IInv
  <2>2. ASSUME NEW s \in Session, CreateStart(s) \/ CreateReturn(s)
        PROVE  ClosersOwn' /\ PendingHasAgent'
    BY <1>2, <2>1, <2>2, SameAgents DEF CreateStart, SM!CreateStart, CreateReturn,
                                        SM!CreateReturn
  <2>3. CASE UNCHANGED vars
    BY <1>2, <2>3 DEF ClosersOwn, PendingHasAgent
  <2> QED
    BY <1>2, <2>1, <2>2, <2>3, StreamAgents, CloseAgents, BrokerAgents DEF Next
<1>3. AB!Spec => []ABP!TypeOK
  <2>1. AB!Init => ABP!Init
    BY DEF AB!Init, ABP!Init
  <2>2. AB!Spec => ABP!Spec
    BY <2>1, SameBrokerStep, PTL DEF AB!Spec, ABP!Spec
  <2>3. None \notin Session
    BY NoneAssumption
  <2> QED  BY <2>2, <2>3, ABP!TypeCorrect, PTL
<1> QED  BY <1>1, <1>2, <1>3, InductiveInvariant, BrokerImplemented, PTL DEF Spec

-------------------------------------------------------------------------------
(* Sessions that are reported and the requests the provider has stored.    *)

(* Where no request is dropped, no session added, and what has failed or   *)
(* closes goes on to, nothing changes for the sessions.                    *)
LEMMA SameRequests ==
  ASSUME ReadySessionServes, requests \subseteq requests', creation' = creation,
         \A s \in Session : SM!Present(s)' => SM!Present(s),
         \A c \in Closer : closePc[c] \in {"closing", "failed"} =>
           closePc'[c] \in {"closing", "failed"} /\ closeSession'[c] = closeSession[c]
  PROVE  ReadySessionServes'
BY DEF ReadySessionServes

(* A stream stores no request and drops none.                              *)
LEMMA StreamRequests ==
  ASSUME SM!IInv, ReadySessionServes, NEW t \in Stream,
         Outside(t) \/ ResumeNotFound(t) \/ Enter(t) \/ Refused(t) \/ ReuseClient(t) \/
           StartConnect(t) \/ BuildFail(t) \/ ConnectReturn(t) \/ ConnectFail(t) \/
           QueryReturn(t) \/ Result(t) \/ Complete(t) \/ GiveUp(t) \/ Raise(t) \/
           CancelAtAwait(t) \/ AbandonAtYield(t) \/ Finalize(t)
  PROVE  ReadySessionServes'
<1>1. UNCHANGED <<requests, creation, closePc, closeSession>>
  BY DEF Outside, ResumeNotFound, Enter, Refused, ReuseClient, StartConnect, BuildFail,
         ConnectReturn, ConnectFail, QueryReturn, Result, Complete, GiveUp, Raise,
         CancelAtAwait, AbandonAtYield, Finalize, SM!StreamNotFound, SM!StreamWait,
         SM!StreamLeaveQueue, SM!StreamResumeNotFound, SM!StreamResume, SM!StreamStart,
         SM!StreamRefused, SM!StreamResumeRefused, SM!StreamEnd, SM!StreamAbandon,
         SM!StreamFinalize, SM!Leave
<1>2. SameSessions
  BY StreamKeepsSessions
<1> QED  BY <1>1, <1>2, SameRequests DEF SameSessions

(* A close drops the request of the session that it ends, or has failed    *)
(* to end.                                                                 *)
LEMMA CloseRequests ==
  ASSUME ManagerFacts, ReadySessionServes, NEW c \in Closer,
         CloseNotFound(c) \/ CloseAtOnce(c) \/ CloseStart(c) \/ CloseReturn(c) \/ CloseFail(c)
  PROVE  ReadySessionServes'
<1>1. /\ sessions \in [Session -> SM!ManagedSession \cup {None}]
      /\ closePc \in [Closer -> SM!ClosePc] /\ closeSession \in [Closer -> Session \cup {None}]
  BY DEF ManagerFacts
<1>2. CASE CloseNotFound(c)
  BY <1>1, <1>2, SameRequests DEF CloseNotFound, SM!CloseStart
<1>3. CASE CloseAtOnce(c)
  BY <1>1, <1>3 DEF CloseAtOnce, SM!CloseAtOnce, SM!Without, Forget, ReadySessionServes
<1>4. CASE CloseStart(c)
  BY <1>1, <1>4 DEF CloseStart, SM!CloseStart, Forget, ReadySessionServes
<1>5. CASE CloseReturn(c)
  BY <1>1, <1>5 DEF CloseReturn, SM!CloseReturn, SM!Without, ReadySessionServes
<1>6. CASE CloseFail(c)
  BY <1>1, <1>6, SameRequests DEF CloseFail, SM!CloseFail
<1> QED  BY <1>2, <1>3, <1>4, <1>5, <1>6

(* The provider refuses a session that is reported only beside a close of  *)
(* it, or after one that failed.                                           *)
THEOREM ReadySessionAlwaysServes == Spec => []ReadySessionServes
<1>1. Init => ReadySessionServes
  BY DEF Init, SM!Init, ReadySessionServes
<1>2. ASSUME IInv, ReadySessionServes, [Next]_vars
      PROVE  ReadySessionServes'
  <2>1. SM!IInv /\ ManagerFacts
    BY <1>2, ManagerFactsHold DEF IInv
  <2>2. ASSUME NEW s \in Session, CreateStart(s) \/ CreateReturn(s)
        PROVE  ReadySessionServes'
    BY <1>2, <2>1, <2>2 DEF CreateStart, SM!CreateStart, CreateReturn, SM!CreateReturn,
                            ReadySessionServes, ManagerFacts
  <2>3. ASSUME NEW a \in Approval,
               ToolAsks(a) \/ CallbackStep(a) \/ CallbackAbort(a) \/
                 \E d \in Decider, s \in Session : DecideRoute(d, s, a)
        PROVE  ReadySessionServes'
    BY <1>2, <2>3 DEF ToolAsks, CallbackStep, CallbackAbort, DecideRoute, ReadySessionServes
  <2>4. CASE UNCHANGED vars
    BY <1>2, <2>4 DEF ReadySessionServes
  <2> QED
    BY <1>2, <2>1, <2>2, <2>3, <2>4, StreamRequests, CloseRequests DEF Next
<1> QED  BY <1>1, <1>2, InductiveInvariant, PTL DEF Spec
===============================================================================
