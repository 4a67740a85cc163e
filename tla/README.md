# Aviary in TLA+

Aviary puts an HTTP and SSE interface in front of coding agents. A client opens
a *session*, streams messages to it, decides about the tool calls its agent
wants to make, and closes it. The service is one asyncio process; what is hard
in it is what may happen between two `await`s. This directory holds TLA+ models
of that control code (`src/src/aviary/`), the TLC configurations that check
them, and proofs that TLAPS checks.

    tlc -workers 2 -config MCSessionManager.cfg MCSessionManager
    tlapm SessionManagerProofs.tla

## 1. The system

| component | state | operations | what makes it correct |
|---|---|---|---|
| session manager (`session_manager.py`) | `_sessions`: id → record with status and an `asyncio.Lock` | create, get, stream, interrupt, close | one stream per session at a time, in order of arrival; READY/RUNNING tells the truth; what is closed stays closed; nobody queues for ever |
| approval broker (`approvals.py`) | `_approvals`: id → record with status and a future | create/request, wait, decide, list, cancel_session | settled once, by the owning session or by time; no tool without consent on record; every call answered |
| embedded driver (`sandbox/embedded.py`) | `_session_providers` | create, stream, interrupt, close | knows the same sessions as the manager |
| Claude Code provider (`providers/claude_code.py`) | `_requests`, `_clients`, `_skill_contexts` | create, stream, interrupt, close | one live SDK client per session; skills live as long as the client; closed means disconnected |
| skill materializer (`skill_sources.py`) | a temporary directory | materialize, cleanup | nothing left after a failure; no duplicate skill name |
| docker driver (`sandbox/docker.py`) | `_sessions`, workspaces | create, stream, interrupt, close | a served session has its container and its workspace; closing removes them |
| docker CLI client (`sandbox/docker_cli.py`) | `_containers`, `_specs` | create, stream, interrupt, close as `docker` subprocesses | every running container is on record; events belong to the session |
| workspace allocator (`sandbox/workspace.py`) | directories | allocate, release | stays inside its base; honours the retention |
| runtime worker and CLI (`runtime/`) | none between commands | query, interrupt, close, health, serve | every error becomes an event, told before the output ends; no event of another session and no secret leaves the container |
| runtime protocol (`runtime/protocol.py`) | none | encode and decode commands and events | lines within the limits arrive, lines beyond them do not pass unnoticed |
| HTTP routes (`main.py`) | none | map requests to the above | KeyError is 404 or an error event, approvals are cancelled after a close |
| schemas (`schemas.py`) | none | validate requests | what is accepted can be served |
| settings (`settings.py`) | read once | choose the driver | aliases of a mode select the same driver |

How they interact. The routes call the manager and the broker. The manager
calls *one* of two drivers. In embedded mode driver, provider and SDK client run
in the service process, and the SDK calls back into the broker. In
managed-container mode each session has a docker container, and each query is a
process that `docker exec` starts in it. A stream is a chain of asynchronous
generators, from the route down to the SDK client or the subprocess: a client
that disconnects cancels whichever of them awaits, or, if all are suspended at a
`yield`, drops the chain for the event loop to close later.

Hard behaviours, with the line where each bites, are listed under "hazards" in
`PROJECT.json`: records read before an await and used after it, closes that run
beside streams and beside each other, timers racing decisions, docker commands
and SDK calls that fail half way, clients that vanish while they hold or await
the lock, queues that must drain; and, outside the process, pipes that fill,
lines beyond a limit, processes that outlive their reader, and a request that is
taken apart in one process and rebuilt in another.

## 2. The modules

| module | models | kind |
|---|---|---|
| `SerialSessions` | what the manager promises: per session a queue and at most one stream being served | abstract |
| `SessionManager` | `session_manager.py`, its routes, `asyncio.Lock`; the driver is left open | detailed |
| `SessionManagerProofs`, `SessionManagerRefinement` | inductive invariant, safety, refinement of `SerialSessions` | proofs |
| `ApprovalLedger` | what the broker promises: one consent per call, no tool without it | abstract |
| `ApprovalBroker` | `approvals.py` with `asyncio.wait_for` | detailed |
| `ApprovalBrokerProofs` | inductive invariant, safety, refinement of `ApprovalLedger` | proofs |
| `EmbeddedRuntime` | manager ∘ embedded driver ∘ provider, with the broker and the decide and close routes | composition |
| `EmbeddedRuntimeProofs` | inductive invariant, safety; implements `SessionManager` and `ApprovalBroker` | proofs |
| `ManagedRuntime` | manager ∘ docker driver ∘ workspaces ∘ docker client, with daemon and query processes | composition |
| `ManagedRuntimeProofs` | inductive invariant, safety; implements `SessionManager` | proofs |
| `EventChannel` | what a streamed query promises its reader: all events, in order, or a break | abstract |
| `RuntimeProtocol` | one query: `runtime/cli.py`, `worker.py`, `protocol.py`, the pipes, and the reader in `docker_cli.py` | detailed |
| `RuntimeProtocolProofs` | inductive invariant, safety, refinement of `EventChannel` | proofs |
| `SkillSources` | `skill_sources.py`: sources become one project directory | detailed |
| `SessionConfiguration` | a request from `schemas.py` through the driver's guard, the container and the worker to the options of the agent; uses `SkillSources` | pipeline |
| `SessionConfigurationProofs` | inductive invariant, safety of the pipeline and of the skill sources | proofs |
| `MC*` | the instances for TLC | |

**Steps.** asyncio switches tasks only where a coroutine suspends, so an action
is the code between two suspensions. `SessionManager._lock` and
`ApprovalBroker._lock` are never held across one; they therefore never have a
waiter, acquiring them does not suspend, and the blocks they guard merge with
the code around them. The lock of a session *is* held across suspensions:
`locked` and `waiters` are `asyncio.Lock._locked` and `_waiters`, a release
leaves the lock free for the first waiter, which takes it in a later step
(`Woken`), and a message that arrives in between queues (`AcquiredAtOnce`).

**SessionManager.** `sessions[s]` is the record or `None`; `creation` says where
`create_session` is, since an id that no response has carried is in nobody's
request. `streamPc` follows one POST: *waiting* for the lock, *running* in the
driver, *abandoned* by a client that left at a `yield`, then an outcome.
`Leave` is the `finally` clause with the release. `CloseStart` and
`CloseReturn`/`CloseFail` are the code before and after the driver's `close`.
A driver may also answer before it suspends; then its answer falls into the step
that asked: `CreateRefused`, `StreamRefused`, `StreamResumeRefused`,
`CloseAtOnce`, `CloseRefused`. With these, whatever the manager does under
either driver is an action of this module, and the compositions use no others.
`interrupt` and the read-only operations change nothing here and are no actions.

**ApprovalBroker.** A record has `status`, `owner` and `future`; `waiter` is the
tool callback. `Deliver`, `TimeOut` and `Expire` are the resumptions of
`wait_for`: when the timer fires, the future is cancelled, the coroutine
suspends, and only then does `wait_for_decision` record the expiry. `Abort` is
the callback being cancelled by the SDK.

**EmbeddedRuntime** instantiates both (`SM!`, `AB!`) over shared variables and
adds the caches of driver and provider, `step` (where `stream_message` is:
starting, connecting, querying, receiving), and the world outside: `link`, the
SDK client a stream made, `unread`, the queries whose results that client still
holds, and `skillDir`. `agent` is the client a stream works with, which may be
one an earlier stream left: a result it then reads may be the answer to somebody
else's question (`told` = "stale"). Every session uses skills and
`approval_mode=broker`, the configuration that has most state. `told` records
the last decisive event a client received.

**ManagedRuntime** instantiates the manager and adds the registries of driver
and client, `closeStep` (exec, rm, removed), and the world: `workspace`,
`container` as the daemon sees it, and `query`, the process of each stream.
Every docker command may fail, before it did anything or after (`docker run` may
report failure although the container runs, `docker rm` although it is gone); a
container may die; a query goes on when nobody
reads it. The approvals of managed mode live and die in the worker process, so
the broker has no part in this module.

**RuntimeProtocol** looks into one query of `ManagedRuntime`. `worker` is the
process, from the command line it reads to its exit status; `stdout`, `cut` and
`stderr` are what the pipes hold; `reader` is the stream in Aviary's process, up
to the way it ended. Of a line only its length counts, of an event its type and
its session. A query breaks off in four ways: the provider fails (`Fail`), it
emits an event of another session (`Foreign`), an event cannot be encoded or
written (`Unwritable`, with exit status 1), or the process is killed. Three limits meet: the worker's on
commands, the decoder's on events, and `StreamReader`'s, which the code never
sets. Standard error is read only after standard output has ended, so a process
that fills it waits (`stuck`). `Killed` may cut a line in two.

**SkillSources** takes one source per step; whatever step fails, the `except`
clause is part of the same action. Of a tree only the places of its `SKILL.md`
files count. All S3 sources are copied to one directory (`copied`), which is
searched again after each. What `.claude/skills` holds are links (`links`; copies
where the file system refuses a link), so a source that is copied later may
overwrite the files of a skill that is registered already (`replaced`).

**SessionConfiguration** follows one request from station to station:
validation, the driver's guard, profile and workspace, `docker run`, the
worker's reading of its environment, `_build_options`, the materializer and the
tool callback. There is no concurrency in it. What is hard is that the stations
are in six files and disagree about which field counts: the policy, the flat
field, or the environment of the container.

## 3. The runs

| run | instance | shows |
|---|---|---|
| `sm` | 2 sessions, 3 streams, 2 closes, 3 locks | types, `RInv`, `Serialized`, `StatusTracksStream`, `ClosedIsFinal`; `SerialSessions` is implemented |
| `ab` | 2 approvals, 2 sessions, 2 decisions | types, `IInv`, `AllowedOnlyIfApproved`, `DenialOnRecord`, `SettledOnceByOwner`, `EveryCallAnswered`; `ApprovalLedger` is implemented |
| `emb` | 1 session, 2 streams, 2 closes, 1 approval, 1 decision | `OneLiveClient`, `RegistriesAgree`, `SkillsOutliveClient`, `PendingHasAgent`, `ReadySessionServes`, `AnswersAreOwn`, `SetupFailureIsTold` |
| `emb_live` | the same with 1 close | `QueueDrains` with agents that wait for approvals |
| `mgd` | 1 session, 2 streams, 2 closes | `ServedSessionIntact`, `ClosedLeavesNothing`, `RunningIsRecorded`, `QueriesOverlapOnlyIfCut`, `QueueDrains` |
| `rt` | lines of length 1 to 3, limits 1, 2 and 2, room for 2 lines and 1 complaint | `FailureIsTold`, `ReaderKeepsUp`; `EventChannel` is implemented |
| `cfg` | some 6000 requests in 4 modes | `AcceptedIsUsable`, `ManagedConfined`, `SkillsReachAgent`, `SkillsExactly`, `FailureLeavesNothing`, `RefusedForCause` |

Five runs end in a counterexample: the code does not do what its documents,
comments or tests say.

| run | what happens |
|---|---|
| `ab_race` | the timer fires, then a client approves before the expiry is recorded: the API answers *approved*, the tool is denied |
| `emb_cleanup` | a session is closed while its client connects: the client is stored for a session that is gone and never disconnected (a skills directory that is registered after the close stays likewise) |
| `mgd_owner` | `docker exec … close` or `docker rm` fails: the driver forgets the session, the manager does not; it is reported *ready* and can be neither used nor closed. If it is `docker rm` that fails, the workspace is deleted from under a running container |
| `rt_limit` | an event line is longer than 64 KiB but within `MAX_EVENT_LINE_BYTES`: `readline` raises and the stream breaks |
| `cfg_policy` | in managed mode `auto_deny` is accepted and never handed to the worker: the agent runs without the callback |

**Bounds.** The sets of the configurations are the only bounds, except for
`MaxEvents` in `RuntimeProtocol`, after which a provider sends no more messages.
Each request is made once, so a model stops when all are used
(`CHECK_DEADLOCK FALSE`). Three streams are the least with a holder, a woken
waiter and a newcomer; two sessions and three locks let a lock of a closed
session be mistaken for a new one; two closes race; two approvals let
`cancel_session` meet a settled and a pending one. Sessions share nothing but
the registries, so the compositions, whose interest is inside a session, have
one. In `SessionManager` a lock object is recycled once nothing refers to it
(`FreshLock`), so that a small `Mutex` stands for a fresh object each time. In
`rt` a line is within `readline`'s limit, between that and the protocol's, or
beyond both; four events overfill the pipe, so the writer has to wait for its
reader, and one complaint is all that standard error holds. `cfg` varies one
group of fields at a time (policy; fields of their own; tool lists; pairs of
skill sources over trees with up to two skills, in the S3 copy up to three
names): the code reads no field of one group together with one of another,
except where a policy goes before a flat field, and these are in one group.
Symmetry is used where no liveness property is checked and, in `sm`, no
constant of the permuted sets is told apart by a definition the run checks.

**Fairness.** The event loop runs whatever is ready: woken waiters, done futures,
expired timers, and the finalizers of dropped generators (`StreamFinalize`).
`emb_live` assumes beyond that that the SDK's `connect` and `query` return or
raise, that an agent which nothing keeps waiting produces a result, and that a
client which has its result leaves or the message stream ends;
`receive_messages` of a connected client need not end by itself, so the code
alone does not guarantee the last one. `mgd` assumes that `docker exec` starts
its process or fails and that a client does not read for ever. `rt` assumes that
the loop reads what has arrived and that a process which has nothing left to do
exits; neither that a provider ends nor that anybody makes room in standard
error. Nobody is assumed to decide, to close, or to leave the queue. Under this,
timeouts are what unblocks an agent whose approval nobody decides. The manager
by itself has no liveness run: whether its queue drains depends on the driver,
and both drivers are in the compositions.

**Variants.** Definitions marked "Variant to be rejected" are faulty forms of
the definition after them (a dropped guard, a lock not released, an unchecked
exit status). Each checked property rejects one of them; `PROJECT.json` has the
pairs under "mutants".

## 4. The proofs

For every value of the constants, TLAPS checks:

* `SessionManagerProofs`: `IInv` is inductive; types, `Serialized`,
  `StatusTracksStream` and `ClosedIsFinal` follow. `Serialized` is not inductive:
  it needs that all active streams of a session hold or await the *same* lock
  object as its record (`LocksApart`), that a lock is taken exactly while one
  stream in the driver has it (`LockHeld`), and that ids become known only once
  created (`Registered`, `ActiveStreams`). There is one lemma per kind of change
  (a record added, a lock taken, a lock released, a record dropped, a queue
  joined, a request over); `NextIInv` applies them to the actions.
* `SessionManagerRefinement`: `ServesInOrder`, that is, the manager implements
  `SerialSessions`. The mapping takes the queue of a session from the waiters of
  its record's lock, and empties it when the record goes: those who wait then
  are only told so later, which is a stutter. It needs `RInv`, which adds to
  `IInv` that nobody queues for a session still being created.
* `ApprovalBrokerProofs`: `IInv`, which ties record, future and waiter together
  between the steps of `wait_for`; types, `AllowedOnlyIfApproved`,
  `DenialOnRecord`, `SettledOnceByOwner`, and the refinement of
  `ApprovalLedger`.

* `RuntimeProtocolProofs`: `IInv`; types, `FailureIsTold`, and
  the refinement of `EventChannel`, for any lengths of lines, any limits, any
  room and any number of events. While the stream reads, what it has yielded
  followed by what the pipe holds is what was written, item by item
  (`PrefixYielded`, `RestInPipe`); past the end of the output nothing is left
  (`AllYielded`); and a process that broke off wrote its error event last
  (`ErrorIsLast`). Together they put the error event last in the hands of
  whoever reads to the end.
* `ManagedRuntimeProofs`: `IInv`; types, `ServedSessionIntact`,
  `ClosedLeavesNothing`, `RunningIsRecorded`. The argument: what a session has
  in driver, client and daemon it gets once, when its creation returns, but for
  the container of a `docker run` that reported failure, of which nobody has a
  record (`CreatedOnce`), and ids are not used twice; a query runs only in a container
  that runs (`QueriesInContainers`), hence none outlives a removal; and what a
  close has removed stays removed (`ClosesKnown`).
* `EmbeddedRuntimeProofs`: `IInv`, that is, the manager's invariant and `Own`;
  types, `OneLiveClient`, `RegistriesAgree`, `SkillsOutliveClient`,
  `AnswersAreOwn`, `SetupFailureIsTold`, `PendingHasAgent` and
  `ReadySessionServes`.
* `SessionConfigurationProofs`: `IInv`; types and all six properties of `cfg`,
  for any set of requests, skills and sources.

**From the manager to the compositions.** A composition sets the manager's
variables only through the manager's actions. So `ManagerImplemented`, that is,
`Spec => SM!Spec`, needs of a composition no more than that its drivers hold ids
of sessions, and every theorem about `SessionManager` then holds in it:
`ManagerPromises` lists them for both modes, refinement of `SerialSessions`
included. `SM` is the instance that the model uses and `MP` that of the proof
module; `SameStep` and `SameInit` say that they are the same. The invariants of
the compositions rest on this: in embedded mode `OneLiveClient` needs
`Serialized`, since two streams of one session would connect two clients, and in
managed mode `QueriesOverlapOnlyIfCut` follows from `Serialized` and from what
holds of one query alone, that it has a reader or lost it (`QueriesAreRead`).
`BrokerImplemented` and `BrokerPromises` say the same of the approval broker in
embedded mode. There the invariant is needed: `cancel_session`, which runs in
the step that ends a close, is one of the broker's for a session that exists.

**Why the invariant of `EmbeddedRuntime` has these parts.** `Registries` says
`RegistriesAgree` of every id, known to clients or not: the driver serves it
exactly from the end of its creation until its close. `Streams` says where a stream is in the
provider while the manager counts it as running. `Clients` is the heart:
`_clients` holds every client that is open and not being disconnected, and
nobody connects while it holds one. `Skills` adds
that while a stream connects, the directory its client will use is there unless
the session has gone, which is where `emb_cleanup` finds its counterexample.
`AnswersAreOwn` is about a result that may be somebody else's: it needs to know
whose results a client still has to give (`Unread`), and that a stream talks to
a client of its own session (`Agents`). `PendingHasAgent` has an invariant of
its own on top: a close that disconnects works on a client of the session it
closes (`ClosersOwn`), so that the step which takes an agent away is one that
cancels the approvals of its session. `ReadySessionServes` is inductive by itself
beside `IInv`.

**Why that of `SessionConfiguration` has these.** Each station leaves a fact
about what it handed on: the guard about the effective policies (`Effective`),
the driver about the workspace (`Workspaces`), `_build_options` about the
options (`OptionsOfRequest`). For the materializer (`SkillInv`), `registered` is
the disjoint union of what the sources taken so far contribute
(`TakenAreRegistered`), and the directory all S3 sources are copied to shows
nothing when it is searched that is not registered already (`CopyIsRegistered`):
so a second S3 source is refused or finds its own skills only (`FoundIsItsOwn`).
Of their files `LinksAreKnown` says that links lead to what S3 sources that were
taken have, and that what was overwritten was in two of them.

Assumptions on constants: `None` is no value of the other sets
(`NoneAssumption`, in the manager, in the broker and in both compositions);
lengths of lines are numbers and there are some (`LengthsAreNumbers`), and so is
the room in standard error (`RoomIsNumber`); skill sources are trees
(`SourcesAreTrees`) and requests are bodies that `schemas.py` describes
(`RequestsAreBodies`).

Model-checked only: liveness (`EveryCallAnswered`, `QueueDrains` in both modes,
`ReaderKeepsUp`), since the provers treat neither fairness nor ENABLED, and the
five counterexamples.

## 5. Not modelled, and the plan

Wording, logging and payloads; the mapping of message blocks to events; the
numeric bounds of `schemas.py`, which are one flag; argument lists of docker
but for what differs between sessions; paths and their checks (ids are
generated). The SDK, docker, starlette and asyncio are external and modelled
from how the code uses them. `interrupt` changes no state of the service; in
managed mode it and `close` start a process whose provider was created a moment
ago and knows no client, which the documents call a best effort. `rmtree` with
`ignore_errors` is taken to succeed, and a `connect` that fails or is cancelled
to leave no agent process behind: that is up to the SDK.

The redaction of secrets (`redact_mapping`, `redact_secrets`) is not modelled: it
is a few patterns over text, which let other forms of a secret pass, and
what they match is a question for tests. Nor are the hosts of an allowlist:
`ManagedConfined` says that a container then has docker's whole bridge network,
the hosts being in its environment for whoever may enforce them. The `stuck`
state of `RuntimeProtocol`, a process that fills standard error while its output
is read, is in the model, and `ReaderKeepsUp` excludes it: nothing in the code
ends it.

Seen while modelling, and left as it is in the models:

* In embedded mode an exception of `query` or `receive_messages` ends the
  response without an error event (`Raise`); docs/claude-code-provider.md
  describes error events. `SetupFailureIsTold` says how far the promise holds.
* A message may be answered with what is left of an earlier one whose client
  went away (`AnswersAreOwn`), and in managed mode its query may run beside
  that of an earlier one (`QueriesOverlapOnlyIfCut`).
* A close whose `disconnect` raises leaves a session that GET reports as ready and
  whose messages are answered "session not found", until it is closed once more
  (the exception of `ReadySessionServes`).
* A `docker run` that reports failure although its container runs leaves that
  container: nobody has a record of it, its workspace is deleted, and no request
  can name its session (the exception of `RunningIsRecorded`).
* Two S3 sources with a directory at the same place: if the second one is
  accepted for another skill, its copy overwrites files of a skill of the first
  that is linked already (the exception of `SkillsExactly`).
* Two S3 sources of one session are always refused if the first has skills
  that are found again (`RefusedForCause`).
* In managed mode the tool lists of a request, the disallowed ones included, and
  its skills do not reach the agent either (`ManagedConfined`); properties of
  `SessionConfiguration` about skills therefore speak of the request the provider
  works with.
* An approval asked for while a close disconnects, if that disconnect then
  fails, stays pending until it times out (`PendingHasAgent` admits it).
* `filesystem=read_only` is accepted in managed mode and the workspace is
  mounted writable; managed events carry the session id as conversation id; a
  failing `mkdir` before the materializer's `try` may leave a directory.

Next, in this order:

1. `RuntimeProtocol` as a refinement of the query steps of `ManagedRuntime`: the
   composition takes a query's output as one event, the protocol module shows
   how it gets there.
2. Action properties of the compositions beside the manager's: what a close may
   not do to a session that another close is at work on.
3. The skill sources as an abstract specification of their own, which the
   pipeline is shown to implement.
