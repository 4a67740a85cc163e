---------------------------- MODULE EmbeddedRuntime ----------------------------
(***************************************************************************)
(* Aviary in embedded mode: the session manager over EmbeddedSandboxDriver *)
(* (sandbox/embedded.py) and ClaudeCodeProvider (claude_code.py), with the *)
(* approval broker that the agent's tool callbacks wait on and the routes  *)
(* of main.py that reach all of them.  SessionManager leaves the driver    *)
(* open; here its calls are the code of driver and provider, and a step    *)
(* is again the code between two suspension points.                        *)
(*                                                                         *)
(* The SDK client is external: connect, query, receive_messages and        *)
(* disconnect each suspend and then return or raise.  Every session uses   *)
(* skills and approval_mode=broker, the configuration with most state.     *)
(* A client gives the results of its queries in the order of the queries,  *)
(* to whoever receives: it does not know about streams.                    *)
(***************************************************************************)
EXTENDS Naturals, Sequences

CONSTANTS Session, Stream, Closer, Mutex, Approval, Decider, None

VARIABLES
  \* SessionManager
  sessions, creation, locked, waiters, streamPc, streamSession, streamLock,
  closePc, closeSession,
  \* ApprovalBroker
  status, owner, future, waiter, answer, decided,
  \* EmbeddedSandboxDriver
  sessionProviders, \* the ids in _session_providers
  \* ClaudeCodeProvider; what a stream creates is named after the stream
  requests,         \* the ids in _requests
  clients,          \* _clients: the stream that connected the client, or None
  skillContexts,    \* _skill_contexts: the stream that materialized it, or None
  step,             \* where provider.stream_message is, per stream
  agent,            \* the client it works with, by the stream that connected it
  told,             \* the last decisive event the client of the stream got
  disconnecting,    \* the client that a close request awaits the disconnect of
  \* what the provider creates outside the process's memory
  link,             \* the SDK client a stream made
  unread,           \* the streams whose result is still to be received from it
  skillDir          \* the project directory a stream materialized

managerVars == <<sessions, creation, locked, waiters, streamPc, streamSession,
                 streamLock, closePc, closeSession>>
brokerVars == <<status, owner, future, waiter, answer, decided>>
providerVars == <<sessionProviders, requests, clients, skillContexts>>
streamVars == <<step, agent, told>>
worldVars == <<link, unread, skillDir>>
vars == <<managerVars, brokerVars, providerVars, streamVars, disconnecting, worldVars>>

SM == INSTANCE SessionManager
AB == INSTANCE ApprovalBroker

ASSUME NoneAssumption == None \notin SM!ManagedSession \cup Mutex \cup Session \cup Stream

Steps == {"none", "starting", "connecting", "querying", "receiving", "failed"}
Links == {"none", "connecting", "open", "closed", "lost"}

Running(t) == streamPc[t] = "running"

Init ==
  /\ SM!Init
  /\ AB!Init
  /\ sessionProviders = {}
  /\ requests = {}
  /\ clients = [s \in Session |-> None]
  /\ skillContexts = [s \in Session |-> None]
  /\ step = [t \in Stream |-> "none"]
  /\ agent = [t \in Stream |-> None]
  /\ told = [t \in Stream |-> "nothing"]
  /\ disconnecting = [c \in Closer |-> None]
  /\ link = [t \in Stream |-> "none"]
  /\ unread = [t \in Stream |-> <<>>]
  /\ skillDir = [t \in Stream |-> "none"]

-------------------------------------------------------------------------------
(* POST /v1/sessions.  No client knows the id between the two steps.       *)

CreateStart(s) ==
  /\ SM!CreateStart(s)
  /\ UNCHANGED <<brokerVars, providerVars, streamVars, disconnecting, worldVars>>

(* The driver binds the id to its provider, the provider stores the        *)
(* request; neither can fail for a provider that exists.                   *)
CreateReturn(s) ==
  /\ SM!CreateReturn(s)
  /\ sessionProviders' = sessionProviders \cup {s}
  /\ requests' = requests \cup {s}
  /\ UNCHANGED <<brokerVars, clients, skillContexts, streamVars, disconnecting, worldVars>>

-------------------------------------------------------------------------------
(* POST /v1/sessions/{id}/messages:stream.                                 *)

(* Waiting for the session lock, and what ends a stream before the driver. *)
Outside(t) ==
  /\ \/ \E s \in Session : SM!StreamNotFound(t, s) \/ SM!StreamWait(t, s)
     \/ SM!StreamLeaveQueue(t)
  /\ UNCHANGED <<brokerVars, providerVars, streamVars, disconnecting, worldVars>>

ResumeNotFound(t) ==
  /\ SM!StreamResumeNotFound(t)
  /\ UNCHANGED <<brokerVars, providerVars, streamVars, disconnecting, worldVars>>

(* With the lock, through driver and provider to the first yield.          *)
Enter(t) ==
  /\ SM!StreamResume(t) \/ \E s \in Session : SM!StreamStart(t, s)
  /\ streamSession'[t] \in sessionProviders \cap requests
  /\ step' = [step EXCEPT ![t] = "starting"]
  /\ told' = [told EXCEPT ![t] = "start"]
  /\ UNCHANGED <<brokerVars, providerVars, agent, disconnecting, worldVars>>

(* Driver or provider has forgotten the session: KeyError before anything  *)
(* was yielded, through the finally clause and the lock to main.py, which  *)
(* reports "session not found".  The session itself is READY as before.    *)
Refused(t) ==
  /\ \/ \E s \in Session \ (sessionProviders \cap requests) : SM!StreamRefused(t, s, "not_found")
     \/ /\ streamSession[t] \notin sessionProviders \cap requests
        /\ SM!StreamResumeRefused(t, "not_found")
  /\ UNCHANGED <<brokerVars, providerVars, streamVars, disconnecting, worldVars>>

(* _get_client finds the client of an earlier stream: client.query.        *)
ReuseClient(t) ==
  /\ Running(t) /\ step[t] = "starting"
  /\ clients[streamSession[t]] # None
  /\ agent' = [agent EXCEPT ![t] = clients[streamSession[t]]]
  /\ step' = [step EXCEPT ![t] = "querying"]
  /\ UNCHANGED <<managerVars, brokerVars, providerVars, told, disconnecting, worldVars>>

(* Variant to be rejected: a new client for every message.                *)
StartConnectAlways(t) ==
  /\ Running(t) /\ step[t] = "starting"
  /\ skillContexts' = [skillContexts EXCEPT ![streamSession[t]] = t]
  /\ skillDir' = [skillDir EXCEPT ![t] = "there"]
  /\ link' = [link EXCEPT ![t] = "connecting"]
  /\ step' = [step EXCEPT ![t] = "connecting"]
  /\ UNCHANGED <<managerVars, brokerVars, sessionProviders, requests, clients, agent, told,
                 disconnecting, unread>>

(* _get_client has no client: the options are built, which materializes    *)
(* the skills and registers their directory, before connect is awaited.    *)
StartConnect(t) ==
  /\ Running(t) /\ step[t] = "starting"
  /\ clients[streamSession[t]] = None
  /\ skillContexts' = [skillContexts EXCEPT ![streamSession[t]] = t]
  /\ skillDir' = [skillDir EXCEPT ![t] = "there"]
  /\ link' = [link EXCEPT ![t] = "connecting"]
  /\ step' = [step EXCEPT ![t] = "connecting"]
  /\ UNCHANGED <<managerVars, brokerVars, sessionProviders, requests, clients, agent, told,
                 disconnecting, unread>>

(* The options cannot be built: an error event.  The materializer cleans    *)
(* up after itself, but what fails later leaves its directory registered.   *)
BuildFail(t) ==
  /\ Running(t) /\ step[t] = "starting"
  /\ clients[streamSession[t]] = None
  /\ \/ UNCHANGED <<skillContexts, skillDir>>
     \/ /\ skillContexts' = [skillContexts EXCEPT ![streamSession[t]] = t]
        /\ skillDir' = [skillDir EXCEPT ![t] = "there"]
  /\ step' = [step EXCEPT ![t] = "failed"]
  /\ told' = [told EXCEPT ![t] = "error"]
  /\ UNCHANGED <<managerVars, brokerVars, sessionProviders, requests, clients, agent,
                 disconnecting, link, unread>>

(* connect returns: the client is stored, whatever became of the session,  *)
(* and queried.                                                            *)
ConnectReturn(t) ==
  /\ Running(t) /\ step[t] = "connecting"
  /\ link' = [link EXCEPT ![t] = "open"]
  /\ clients' = [clients EXCEPT ![streamSession[t]] = t]
  /\ agent' = [agent EXCEPT ![t] = t]
  /\ step' = [step EXCEPT ![t] = "querying"]
  /\ UNCHANGED <<managerVars, brokerVars, sessionProviders, requests, skillContexts,
                 told, disconnecting, unread, skillDir>>

(* Variant to be rejected: a failed connect cleans up as a close would.    *)
ConnectFailForgetting(t) ==
  /\ Running(t) /\ step[t] = "connecting"
  /\ link' = [link EXCEPT ![t] = "none"]
  /\ step' = [step EXCEPT ![t] = "failed"]
  /\ told' = [told EXCEPT ![t] = "error"]
  /\ requests' = requests \ {streamSession[t]}
  /\ UNCHANGED <<managerVars, brokerVars, sessionProviders, clients, skillContexts, agent,
                 disconnecting, unread, skillDir>>

(* Variant to be rejected: the client is remembered as absent.             *)
ConnectFailUnlinked(t) ==
  /\ Running(t) /\ step[t] = "connecting"
  /\ link' = [link EXCEPT ![t] = None]
  /\ step' = [step EXCEPT ![t] = "failed"]
  /\ told' = [told EXCEPT ![t] = "error"]
  /\ UNCHANGED <<managerVars, brokerVars, providerVars, agent, disconnecting, unread, skillDir>>

(* Variant to be rejected: the exception of connect is not caught.         *)
ConnectFailRaising(t) ==
  /\ step[t] = "connecting"
  /\ SM!StreamEnd(t, "raised")
  /\ link' = [link EXCEPT ![t] = "none"]
  /\ step' = [step EXCEPT ![t] = "none"]
  /\ UNCHANGED <<brokerVars, providerVars, agent, told, disconnecting, unread, skillDir>>

(* connect raises: an error event; the skill context stays registered.     *)
ConnectFail(t) ==
  /\ Running(t) /\ step[t] = "connecting"
  /\ link' = [link EXCEPT ![t] = "none"]
  /\ step' = [step EXCEPT ![t] = "failed"]
  /\ told' = [told EXCEPT ![t] = "error"]
  /\ UNCHANGED <<managerVars, brokerVars, providerVars, agent, disconnecting, unread, skillDir>>

QueryReturn(t) ==
  /\ Running(t) /\ step[t] = "querying"
  /\ unread' = [unread EXCEPT ![agent[t]] = Append(@, t)]
  /\ step' = [step EXCEPT ![t] = "receiving"]
  /\ UNCHANGED <<managerVars, brokerVars, providerVars, agent, told, disconnecting, link, skillDir>>

(* The agent waits for the answer to a tool call of its own.               *)
AgentWaits(t) ==
  \E a \in Approval :
    owner[a] = streamSession[t] /\ waiter[a] \in {"waiting", "expiring"}

(* A result message is mapped to an end or an error event, whichever query *)
(* it answers.  Other messages change nothing that is modelled.            *)
Result(t) ==
  /\ Running(t) /\ step[t] = "receiving" /\ ~AgentWaits(t)
  /\ unread[agent[t]] # <<>>
  /\ \E type \in {"end", "error"} :
       told' = [told EXCEPT ![t] = IF Head(unread[agent[t]]) = t THEN type ELSE "stale"]
  /\ unread' = [unread EXCEPT ![agent[t]] = Tail(@)]
  /\ UNCHANGED <<managerVars, brokerVars, providerVars, step, agent, disconnecting, link, skillDir>>

(* Variant to be rejected: the stream is over before its result is there.  *)
CompleteUnread(t) ==
  /\ step[t] = "receiving" /\ ~AgentWaits(t)
  /\ SM!StreamEnd(t, "completed")
  /\ step' = [step EXCEPT ![t] = "none"]
  /\ UNCHANGED <<brokerVars, providerVars, agent, told, disconnecting, worldVars>>

(* receive_messages is exhausted: nothing is left to be received.          *)
Complete(t) ==
  /\ step[t] = "receiving" /\ ~AgentWaits(t)
  /\ SM!StreamEnd(t, "completed")
  /\ unread' = [unread EXCEPT ![agent[t]] = <<>>]
  /\ step' = [step EXCEPT ![t] = "none"]
  /\ UNCHANGED <<brokerVars, providerVars, agent, told, disconnecting, link, skillDir>>

(* The provider's generator returns after its error event.                 *)
GiveUp(t) ==
  /\ step[t] = "failed"
  /\ SM!StreamEnd(t, "completed")
  /\ step' = [step EXCEPT ![t] = "none"]
  /\ UNCHANGED <<brokerVars, providerVars, agent, told, disconnecting, worldVars>>

(* query or receive_messages raises, outside the provider's try: nothing   *)
(* turns it into an event.                                                 *)
Raise(t) ==
  /\ step[t] \in {"querying", "receiving"}
  /\ SM!StreamEnd(t, "raised")
  /\ step' = [step EXCEPT ![t] = "none"]
  /\ UNCHANGED <<brokerVars, providerVars, agent, told, disconnecting, worldVars>>

(* The HTTP client goes away: cancelled at an await of the SDK, or         *)
(* suspended at a yield until the generator is closed.                     *)
CancelAtAwait(t) ==
  /\ step[t] \in {"connecting", "querying", "receiving"}
  /\ SM!StreamEnd(t, "disconnected")
  /\ step' = [step EXCEPT ![t] = "none"]
  /\ link' = [link EXCEPT ![t] = IF @ = "connecting" THEN "none" ELSE @]
  /\ UNCHANGED <<brokerVars, providerVars, agent, told, disconnecting, unread, skillDir>>

AbandonAtYield(t) ==
  /\ step[t] \in {"starting", "receiving", "failed"}
  /\ SM!StreamAbandon(t)
  /\ UNCHANGED <<brokerVars, providerVars, streamVars, disconnecting, worldVars>>

Finalize(t) ==
  /\ SM!StreamFinalize(t)
  /\ step' = [step EXCEPT ![t] = "none"]
  /\ UNCHANGED <<brokerVars, providerVars, agent, told, disconnecting, worldVars>>

-------------------------------------------------------------------------------
(* DELETE /v1/sessions/{id}: the manager's close, then cancel_session.     *)

(* Variant to be rejected: the client stays cached until it is disconnected. *)
ForgetKeepingClient(s) ==
  /\ requests' = requests \ {s}
  /\ skillContexts' = [skillContexts EXCEPT ![s] = None]
  /\ skillDir' = IF skillContexts[s] = None THEN skillDir
                 ELSE [skillDir EXCEPT ![skillContexts[s]] = "removed"]
  /\ UNCHANGED clients

(* provider.close up to its first suspension.                              *)
Forget(s) ==
  /\ clients' = [clients EXCEPT ![s] = None]
  /\ requests' = requests \ {s}
  /\ skillContexts' = [skillContexts EXCEPT ![s] = None]
  /\ skillDir' = IF skillContexts[s] = None THEN skillDir
                 ELSE [skillDir EXCEPT ![skillContexts[s]] = "removed"]

CloseNotFound(c) ==
  /\ \E s \in Session : ~SM!Present(s) /\ SM!CloseStart(c, s)
  /\ UNCHANGED <<brokerVars, providerVars, streamVars, disconnecting, worldVars>>

(* No client to disconnect: the whole route runs in one step.              *)
CloseAtOnce(c) ==
  /\ \E s \in sessionProviders :
       /\ clients[s] = None
       /\ SM!CloseAtOnce(c, s)
       /\ Forget(s)
       /\ sessionProviders' = sessionProviders \ {s}
       /\ AB!CancelSession(s)
  /\ UNCHANGED <<streamVars, disconnecting, link, unread>>

CloseStart(c) ==
  /\ \E s \in sessionProviders :
       /\ SM!Present(s) /\ clients[s] # None
       /\ SM!CloseStart(c, s)
       /\ Forget(s)
       /\ disconnecting' = [disconnecting EXCEPT ![c] = clients[s]]
  /\ UNCHANGED <<brokerVars, sessionProviders, streamVars, link, unread>>

(* Variant to be rejected: approvals were cancelled before the close began. *)
CloseReturnCancelledBefore(c) ==
  /\ SM!CloseReturn(c)
  /\ link' = [link EXCEPT ![disconnecting[c]] = "closed"]
  /\ disconnecting' = [disconnecting EXCEPT ![c] = None]
  /\ sessionProviders' = sessionProviders \ {closeSession[c]}
  /\ UNCHANGED <<brokerVars, requests, clients, skillContexts, streamVars, unread, skillDir>>

CloseReturn(c) ==
  /\ SM!CloseReturn(c)
  /\ link' = [link EXCEPT ![disconnecting[c]] = "closed"]
  /\ disconnecting' = [disconnecting EXCEPT ![c] = None]
  /\ sessionProviders' = sessionProviders \ {closeSession[c]}
  /\ AB!CancelSession(closeSession[c])
  /\ UNCHANGED <<requests, clients, skillContexts, streamVars, unread, skillDir>>

(* Variant to be rejected: the driver forgets the session in a finally.    *)
CloseFailForgotten(c) ==
  /\ SM!CloseFail(c, "failed")
  /\ link' = [link EXCEPT ![disconnecting[c]] = "lost"]
  /\ disconnecting' = [disconnecting EXCEPT ![c] = None]
  /\ sessionProviders' = sessionProviders \ {closeSession[c]}
  /\ UNCHANGED <<brokerVars, requests, clients, skillContexts, streamVars, unread, skillDir>>

(* disconnect raises: driver and manager keep the session.                 *)
CloseFail(c) ==
  /\ SM!CloseFail(c, "failed")
  /\ link' = [link EXCEPT ![disconnecting[c]] = "lost"]
  /\ disconnecting' = [disconnecting EXCEPT ![c] = None]
  /\ UNCHANGED <<brokerVars, providerVars, streamVars, unread, skillDir>>

-------------------------------------------------------------------------------
(* Tool callbacks of live clients, and the broker's own steps.             *)

ToolAsks(a) ==
  /\ \E t \in Stream : link[t] = "open" /\ AB!RequestApproval(a, streamSession[t])
  /\ UNCHANGED <<managerVars, providerVars, streamVars, disconnecting, worldVars>>

(* wait_for_decision goes on: a result, the timer, the expiry.             *)
CallbackStep(a) ==
  /\ AB!Deliver(a) \/ AB!TimeOut(a) \/ AB!Expire(a)
  /\ UNCHANGED <<managerVars, providerVars, streamVars, disconnecting, worldVars>>

CallbackAbort(a) ==
  /\ AB!Abort(a)
  /\ UNCHANGED <<managerVars, providerVars, streamVars, disconnecting, worldVars>>

(* The route does not ask the manager whether the session exists.          *)
DecideRoute(d, s, a) ==
  /\ \/ AB!DecideNotFound(d, s, a) \/ AB!DecideLate(d, s, a)
     \/ \E approve \in BOOLEAN : AB!Decide(d, s, a, approve)
  /\ UNCHANGED <<managerVars, providerVars, streamVars, disconnecting, worldVars>>

-------------------------------------------------------------------------------
Next ==
  \/ \E s \in Session : CreateStart(s) \/ CreateReturn(s)
  \/ \E t \in Stream :
       \/ Outside(t) \/ ResumeNotFound(t) \/ Enter(t) \/ Refused(t)
       \/ ReuseClient(t) \/ StartConnect(t) \/ BuildFail(t) \/ ConnectReturn(t) \/ ConnectFail(t)
       \/ QueryReturn(t) \/ Result(t) \/ Complete(t) \/ GiveUp(t) \/ Raise(t)
       \/ CancelAtAwait(t) \/ AbandonAtYield(t) \/ Finalize(t)
  \/ \E c \in Closer :
       CloseNotFound(c) \/ CloseAtOnce(c) \/ CloseStart(c) \/ CloseReturn(c) \/ CloseFail(c)
  \/ \E a \in Approval :
       \/ ToolAsks(a) \/ CallbackStep(a) \/ CallbackAbort(a)
       \/ \E d \in Decider, s \in Session : DecideRoute(d, s, a)

Spec == Init /\ [][Next]_vars

FromQueue(t) ==
  /\ streamPc[t] = "waiting"
  /\ Enter(t) \/ Refused(t) \/ ResumeNotFound(t)

(* A stream that has delivered a result is over when receive_messages ends  *)
(* or when its client, which sees what it asked for, goes away.             *)
Part(t) ==
  /\ told[t] \in {"end", "error", "stale"}
  /\ Complete(t) \/ CancelAtAwait(t) \/ AbandonAtYield(t)

(* The event loop runs what is ready, timers fire, the SDK's connect and   *)
(* query return, an agent that nothing keeps waiting produces a result,    *)
(* and served clients part.  receive_messages need not end, and no client  *)
(* needs to decide, to close, or to leave before it is served.             *)
Fairness ==
  /\ \A t \in Stream :
       /\ WF_vars(FromQueue(t))
       /\ WF_vars(ReuseClient(t) \/ StartConnect(t) \/ BuildFail(t))
       /\ WF_vars(ConnectReturn(t) \/ ConnectFail(t))
       /\ WF_vars(QueryReturn(t))
       /\ WF_vars(Result(t))
       /\ WF_vars(Part(t))
       /\ WF_vars(GiveUp(t))
       /\ WF_vars(Finalize(t))
  /\ \A a \in Approval : WF_vars(CallbackStep(a))

FairSpec == Spec /\ Fairness

-------------------------------------------------------------------------------
(* Properties.                                                             *)

(* The types of the variables that driver and provider add.                *)
TypeOK ==
  /\ sessionProviders \subseteq Session
  /\ requests \subseteq Session
  /\ clients \in [Session -> Stream \cup {None}]
  /\ skillContexts \in [Session -> Stream \cup {None}]
  /\ step \in [Stream -> Steps]
  /\ agent \in [Stream -> Stream \cup {None}]
  /\ told \in [Stream -> {"nothing", "start", "error", "end", "stale"}]
  /\ disconnecting \in [Closer -> Stream \cup {None}]
  /\ link \in [Stream -> Links]
  /\ unread \in [Stream -> Seq(Stream)]
  /\ skillDir \in [Stream -> {"none", "there", "removed"}]

Live(t) ==
  /\ link[t] \in {"connecting", "open"}
  /\ \A c \in Closer : disconnecting[c] # t

(* A session never has two agents at once, apart from one that is already  *)
(* being disconnected: _get_client tests the cache long before it fills it, *)
(* and only the session lock keeps two streams from connecting meanwhile.   *)
OneLiveClient ==
  \A t, u \in Stream : Live(t) /\ Live(u) /\ streamSession[t] = streamSession[u] => t = u

(* Manager and driver agree on which sessions exist, also after a close    *)
(* that failed and while several close requests race: a session that GET   *)
(* reports can be closed.                                                  *)
RegistriesAgree ==
  \A s \in Session : SM!KnownToClients(s) => (SM!Present(s) <=> s \in sessionProviders)

(* The client cached for a session that exists still has the skills        *)
(* directory that it was started with.                                     *)
SkillsOutliveClient ==
  \A s \in Session :
    SM!Present(s) /\ clients[s] # None => skillDir[clients[s]] = "there"

(* No approval stays open when every agent of its session is gone: one is  *)
(* connected still, or its disconnect failed.  Closes that succeed leave   *)
(* none behind, those asked for during the disconnect included, also when  *)
(* another close was faster and the session had gone meanwhile.            *)
PendingHasAgent ==
  \A a \in Approval : status[a] = "pending" =>
    \E t \in Stream : streamSession[t] = owner[a] /\ link[t] \in {"open", "lost"}

(* The provider knows each session that GET reports and so lets it stream  *)
(* messages, whatever connects, builds and queries fail.  A close forgets  *)
(* the request before it disconnects: while one is under way, and after    *)
(* one that failed, a session that is reported ready refuses all messages. *)
ReadySessionServes ==
  \A s \in Session :
    SM!KnownToClients(s) /\ SM!Present(s) /\ s \notin requests =>
      \E c \in Closer : closeSession[c] = s /\ closePc[c] \in {"closing", "failed"}

(* A stream is given the result of an earlier message only if the stream   *)
(* of that message was cut short: client and SDK go on, and nobody has     *)
(* received what the agent answered.                                       *)
AnswersAreOwn ==
  \A t \in Stream : told[t] = "stale" =>
    \E u \in Stream \ {t} :
      streamSession[u] = streamSession[t] /\ streamPc[u] \in {"disconnected", "raised"}

(* Nobody waits for a session for ever, even if its agent asks for         *)
(* approvals that no client ever decides: the broker's timeouts unblock    *)
(* the agent, hence the stream, hence the lock.                            *)
QueueDrains ==
  \A t \in Stream : streamPc[t] = "waiting" ~> streamPc[t] # "waiting"

(* docs/product-design.md: a session is the unit of cleanup.  Once it is   *)
(* closed, and no request for it is under way, no agent client is open and *)
(* no skills directory is left.                                            *)
ClosedSessionHoldsNothing ==
  \A s \in Session :
    /\ SM!KnownToClients(s) /\ ~SM!Present(s)
    /\ \A t \in Stream : SM!InDriver(t) => streamSession[t] # s
    /\ \A c \in Closer : closePc[c] = "closing" => closeSession[c] # s
    => \A t \in Stream : streamSession[t] = s => link[t] # "open" /\ skillDir[t] # "there"

(* A stream that ends or breaks before the agent was asked has told its    *)
(* client so: when options, skills or connect fail, the last event is an   *)
(* error event.                                                            *)
SetupFailureIsTold ==
  \A t \in Stream :
    streamPc[t] \in {"completed", "raised"} /\ agent[t] = None => told[t] = "error"
===============================================================================
