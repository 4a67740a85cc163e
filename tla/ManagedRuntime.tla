----------------------------- MODULE ManagedRuntime -----------------------------
(***************************************************************************)
(* Aviary in managed-container mode: the session manager over              *)
(* DockerSandboxDriver (sandbox/docker.py), LocalWorkspaceAllocator        *)
(* (sandbox/workspace.py) and DockerCliRuntimeClient (sandbox/             *)
(* docker_cli.py).  Every docker command is a subprocess that suspends the *)
(* caller and may fail; a step is the code between two suspensions.        *)
(*                                                                         *)
(* The docker daemon is external.  A query is an aviary-runtime process of *)
(* its own inside the container, started by docker exec: it lives on when  *)
(* nobody reads its events any more, and dies with the container.          *)
(***************************************************************************)
EXTENDS Naturals, Sequences

CONSTANTS Session, Stream, Closer, Mutex, None

VARIABLES
  \* SessionManager
  sessions, creation, locked, waiters, streamPc, streamSession, streamLock,
  closePc, closeSession,
  driverSessions, \* the ids in DockerSandboxDriver._sessions
  containers,     \* the ids in DockerCliRuntimeClient._containers and _specs
  step,           \* where the runtime client's stream_message is, per stream
  closeStep,      \* where the runtime client's close is, per close request
  execFailed,     \* whether its docker exec ... close raised
  \* what the code manages outside the process's memory
  workspace,      \* the directory of the session, and whether it is to be kept
  container,      \* its container, as the docker daemon sees it
  query           \* the aviary-runtime query process of the stream

managerVars == <<sessions, creation, locked, waiters, streamPc, streamSession,
                 streamLock, closePc, closeSession>>
registryVars == <<driverSessions, containers>>
closeVars == <<closeStep, execFailed>>
vars == <<managerVars, registryVars, step, closeVars, workspace, container, query>>

SM == INSTANCE SessionManager

ASSUME NoneAssumption == None \notin SM!ManagedSession \cup Mutex \cup Session

Running(t) == streamPc[t] = "running"

(* The request's workspace_retention: "delete", or "snapshot" or "keep".   *)
Workspaces == {"temporary", "kept"}
HasWorkspace(s) == workspace[s] \in Workspaces

(* Variant to be rejected: a released workspace has no record any more.    *)
ReleaseUnrecorded(s) ==
  workspace' = [workspace EXCEPT ![s] = IF @ = "kept" THEN "kept" ELSE None]

(* LocalWorkspaceAllocator.release.                                        *)
Release(s) ==
  workspace' = [workspace EXCEPT ![s] = IF @ = "kept" THEN "kept" ELSE "deleted"]

Init ==
  /\ SM!Init
  /\ driverSessions = {} /\ containers = {}
  /\ step = [t \in Stream |-> "none"]
  /\ closeStep = [c \in Closer |-> "none"]
  /\ execFailed = [c \in Closer |-> FALSE]
  /\ workspace = [s \in Session |-> "none"]
  /\ container = [s \in Session |-> "none"]
  /\ query = [t \in Stream |-> "none"]

-------------------------------------------------------------------------------
(* POST /v1/sessions.                                                      *)

(* The policy is refused, or the workspace allocated, the spec not built   *)
(* and the workspace released: registered and taken back in one step.      *)
CreateRefused(s) ==
  /\ SM!CreateRefused(s)
  /\ \E left \in {"none", "deleted", "kept"} : workspace' = [workspace EXCEPT ![s] = left]
  /\ UNCHANGED <<registryVars, step, closeVars, container, query>>

(* Up to docker run.                                                       *)
CreateStart(s) ==
  /\ SM!CreateStart(s)
  /\ \E w \in Workspaces : workspace' = [workspace EXCEPT ![s] = w]
  /\ UNCHANGED <<registryVars, step, closeVars, container, query>>

CreateReturn(s) ==
  /\ SM!CreateReturn(s)
  /\ container' = [container EXCEPT ![s] = "running"]
  /\ containers' = containers \cup {s}
  /\ driverSessions' = driverSessions \cup {s}
  /\ UNCHANGED <<step, closeVars, workspace, query>>

(* The docker run command reports failure: before or after it created the  *)
(* container, or with the container running, its own time limit or its     *)
(* connection to the daemon being what failed.  Nobody removes what it     *)
(* left.                                                                   *)
CreateFail(s) ==
  /\ SM!CreateFail(s)
  /\ \E left \in {"none", "exited", "running"} : container' = [container EXCEPT ![s] = left]
  /\ Release(s)
  /\ UNCHANGED <<registryVars, step, closeVars, query>>

-------------------------------------------------------------------------------
(* POST /v1/sessions/{id}/messages:stream.                                 *)

(* Waiting for the session lock, and what ends a stream before the driver. *)
Outside(t) ==
  /\ \/ \E s \in Session : SM!StreamNotFound(t, s) \/ SM!StreamWait(t, s)
     \/ SM!StreamLeaveQueue(t)
  /\ UNCHANGED <<registryVars, step, closeVars, workspace, container, query>>

ResumeNotFound(t) ==
  /\ SM!StreamResumeNotFound(t)
  /\ UNCHANGED <<registryVars, step, closeVars, workspace, container, query>>

(* With the lock, through the driver to docker exec ... query.             *)
Enter(t) ==
  /\ SM!StreamResume(t) \/ \E s \in Session : SM!StreamStart(t, s)
  /\ streamSession'[t] \in driverSessions \cap containers
  /\ step' = [step EXCEPT ![t] = "exec"]
  /\ UNCHANGED <<registryVars, closeVars, workspace, container, query>>

(* The driver has forgotten the session: KeyError, through the finally     *)
(* clause and the lock to main.py, which reports "session not found".      *)
Refused(t) ==
  /\ \/ \E s \in Session \ (driverSessions \cap containers) : SM!StreamRefused(t, s, "not_found")
     \/ /\ streamSession[t] \notin driverSessions \cap containers
        /\ SM!StreamResumeRefused(t, "not_found")
  /\ UNCHANGED <<registryVars, step, closeVars, workspace, container, query>>

(* The daemon starts the process, in a container that runs.                *)
QueryStart(t) ==
  /\ Running(t) /\ step[t] = "exec"
  /\ container[streamSession[t]] = "running"
  /\ query' = [query EXCEPT ![t] = "running"]
  /\ step' = [step EXCEPT ![t] = "reading"]
  /\ UNCHANGED <<managerVars, registryVars, closeVars, workspace, container>>

(* The docker exec command fails: its exit status raises.                  *)
ExecFail(t) ==
  /\ step[t] = "exec"
  /\ SM!StreamEnd(t, "raised")
  /\ step' = [step EXCEPT ![t] = "none"]
  /\ UNCHANGED <<registryVars, closeVars, workspace, container, query>>

(* A line that is too long, no event, or another session's: ValueError.    *)
(* The process is neither killed nor waited for.                           *)
BadLine(t) ==
  /\ step[t] = "reading"
  /\ SM!StreamEnd(t, "raised")
  /\ step' = [step EXCEPT ![t] = "none"]
  /\ UNCHANGED <<registryVars, closeVars, workspace, container, query>>

(* Variant to be rejected: the stream ends with the result of the query.   *)
EofAtResult(t) ==
  /\ step[t] = "reading" /\ query[t] # "none"
  /\ SM!StreamEnd(t, "completed")
  /\ step' = [step EXCEPT ![t] = "none"]
  /\ UNCHANGED <<registryVars, closeVars, workspace, container, query>>

(* End of the output, then the exit status.                                *)
Eof(t) ==
  /\ step[t] = "reading"
  /\ \/ query[t] = "done" /\ SM!StreamEnd(t, "completed")
     \/ query[t] = "failed" /\ SM!StreamEnd(t, "raised")
  /\ step' = [step EXCEPT ![t] = "none"]
  /\ UNCHANGED <<registryVars, closeVars, workspace, container, query>>

(* The HTTP client goes away: CancelledError at an await of the subprocess, *)
(* which may just have been started, or the generators are dropped at a     *)
(* yield and closed later.                                                  *)
CancelAtAwait(t) ==
  /\ step[t] \in {"exec", "reading"}
  /\ SM!StreamEnd(t, "disconnected")
  /\ \/ UNCHANGED query
     \/ /\ step[t] = "exec" /\ container[streamSession[t]] = "running"
        /\ query' = [query EXCEPT ![t] = "running"]
  /\ step' = [step EXCEPT ![t] = "none"]
  /\ UNCHANGED <<registryVars, closeVars, workspace, container>>

AbandonAtYield(t) ==
  /\ step[t] = "reading"
  /\ SM!StreamAbandon(t)
  /\ UNCHANGED <<registryVars, step, closeVars, workspace, container, query>>

Finalize(t) ==
  /\ SM!StreamFinalize(t)
  /\ step' = [step EXCEPT ![t] = "none"]
  /\ UNCHANGED <<registryVars, closeVars, workspace, container, query>>

-------------------------------------------------------------------------------
(* DELETE /v1/sessions/{id}.                                               *)

(* Not in the manager, or not in the driver: KeyError, a 404.              *)
CloseNotFound(c) ==
  /\ \E s \in Session :
       \/ ~SM!Present(s) /\ SM!CloseStart(c, s)
       \/ s \notin driverSessions /\ SM!CloseRefused(c, s, "not_found")
  /\ UNCHANGED <<registryVars, step, closeVars, workspace, container, query>>

(* Variant to be rejected: the workspace is released before the container. *)
CloseStartReleasing(c) ==
  /\ \E s \in driverSessions \cap containers :
       SM!Present(s) /\ SM!CloseStart(c, s) /\ Release(s)
  /\ closeStep' = [closeStep EXCEPT ![c] = "exec"]
  /\ UNCHANGED <<registryVars, step, execFailed, container, query>>

(* Up to docker exec ... close.                                            *)
CloseStart(c) ==
  /\ \E s \in driverSessions \cap containers : SM!Present(s) /\ SM!CloseStart(c, s)
  /\ closeStep' = [closeStep EXCEPT ![c] = "exec"]
  /\ UNCHANGED <<registryVars, step, execFailed, workspace, container, query>>

(* docker exec has ended, well or not; the finally clause runs docker rm.  *)
CloseExecuted(c) ==
  /\ closeStep[c] = "exec"
  /\ \E failed \in BOOLEAN : execFailed' = [execFailed EXCEPT ![c] = failed]
  /\ closeStep' = [closeStep EXCEPT ![c] = "rm"]
  /\ UNCHANGED <<managerVars, registryVars, step, workspace, container, query>>

(* The outer finally of the driver, around whatever the client raised.     *)
DriverForgets(c) ==
  /\ Release(closeSession[c])
  /\ driverSessions' = driverSessions \ {closeSession[c]}
  /\ closeStep' = [closeStep EXCEPT ![c] = "none"]
  /\ UNCHANGED <<step, execFailed, container, query>>

(* docker rm succeeded: the client forgets the container, and the failure  *)
(* of docker exec, if any, goes on as the result of the whole close.       *)
CloseReturn(c) ==
  /\ closeStep[c] = "removed"
  /\ containers' = containers \ {closeSession[c]}
  /\ DriverForgets(c)
  /\ IF execFailed[c] THEN SM!CloseFail(c, "failed") ELSE SM!CloseReturn(c)

(* Variant to be rejected: the exit status of docker rm is not checked.    *)
CloseFailUnchecked(c) ==
  /\ closeStep[c] \in {"rm", "removed"}
  /\ containers' = containers \ {closeSession[c]}
  /\ DriverForgets(c)
  /\ SM!CloseReturn(c)

(* Variant to be rejected: the client forgets the container all the same.  *)
CloseFailForgetting(c) ==
  /\ closeStep[c] \in {"rm", "removed"}
  /\ containers' = containers \ {closeSession[c]}
  /\ DriverForgets(c)
  /\ SM!CloseFail(c, "failed")

(* docker rm reports an error, also when another close removed the         *)
(* container: the client keeps its entry, the driver does not.             *)
CloseFail(c) ==
  /\ closeStep[c] \in {"rm", "removed"}
  /\ UNCHANGED containers
  /\ DriverForgets(c)
  /\ SM!CloseFail(c, "failed")

-------------------------------------------------------------------------------
(* The docker daemon and the processes in the containers.                  *)

(* No process of the container survives.                                   *)
Killed(s) ==
  [t \in Stream |-> IF streamSession[t] = s /\ query[t] = "running" THEN "failed" ELSE query[t]]

Removal(c) ==
  /\ closeStep[c] = "rm"
  /\ closeStep' = [closeStep EXCEPT ![c] = "removed"]
  /\ container' = [container EXCEPT ![closeSession[c]] = "removed"]
  /\ query' = Killed(closeSession[c])
  /\ UNCHANGED <<managerVars, registryVars, step, execFailed, workspace>>

(* The container dies of itself, of its memory limit for one.              *)
ContainerDies(s) ==
  /\ container[s] = "running"
  /\ container' = [container EXCEPT ![s] = "exited"]
  /\ query' = Killed(s)
  /\ UNCHANGED <<managerVars, registryVars, step, closeVars, workspace>>

QueryEnds(t) ==
  /\ query[t] = "running"
  /\ \E result \in {"done", "failed"} : query' = [query EXCEPT ![t] = result]
  /\ UNCHANGED <<managerVars, registryVars, step, closeVars, workspace, container>>

-------------------------------------------------------------------------------
Next ==
  \/ \E s \in Session :
       CreateRefused(s) \/ CreateStart(s) \/ CreateReturn(s) \/ CreateFail(s) \/ ContainerDies(s)
  \/ \E t \in Stream :
       \/ Outside(t) \/ ResumeNotFound(t) \/ Enter(t) \/ Refused(t)
       \/ QueryStart(t) \/ ExecFail(t) \/ BadLine(t) \/ Eof(t) \/ QueryEnds(t)
       \/ CancelAtAwait(t) \/ AbandonAtYield(t) \/ Finalize(t)
  \/ \E c \in Closer :
       \/ CloseNotFound(c) \/ CloseStart(c) \/ CloseExecuted(c) \/ Removal(c)
       \/ CloseReturn(c) \/ CloseFail(c)

Spec == Init /\ [][Next]_vars

FromQueue(t) ==
  /\ streamPc[t] = "waiting"
  /\ Enter(t) \/ Refused(t) \/ ResumeNotFound(t)

(* A query that is being read is over when its process ends or when its    *)
(* client goes away.                                                       *)
Part(t) ==
  /\ step[t] = "reading" /\ Running(t)
  /\ QueryEnds(t) \/ CancelAtAwait(t) \/ AbandonAtYield(t)

(* The event loop runs what is ready, docker exec starts the process or    *)
(* fails, and a client that is served does not read for ever.  Queries     *)
(* need not end by themselves, and no client needs to close, or to leave   *)
(* before it is served.                                                    *)
Fairness ==
  \A t \in Stream :
    /\ WF_vars(FromQueue(t))
    /\ WF_vars(QueryStart(t) \/ ExecFail(t))
    /\ WF_vars(Part(t))
    /\ WF_vars(Eof(t))
    /\ WF_vars(Finalize(t))

FairSpec == Spec /\ Fairness

-------------------------------------------------------------------------------
(* Properties.                                                             *)

(* The types of the variables that driver and runtime client add.          *)
TypeOK ==
  /\ driverSessions \subseteq Session /\ containers \subseteq Session
  /\ step \in [Stream -> {"none", "exec", "reading"}]
  /\ closeStep \in [Closer -> {"none", "exec", "rm", "removed"}]
  /\ execFailed \in [Closer -> BOOLEAN]
  /\ workspace \in [Session -> {"none", "deleted"} \cup Workspaces]
  /\ container \in [Session -> {"none", "running", "exited", "removed"}]
  /\ query \in [Stream -> {"none", "running", "done", "failed"}]

BeingRemoved(s) == \E c \in Closer : closeStep[c] = "removed" /\ closeSession[c] = s

(* While the driver serves a session, its workspace is there and its       *)
(* container has not been removed, except in the moment in which a close   *)
(* has removed it; two close requests that race are no exception.          *)
ServedSessionIntact ==
  \A s \in driverSessions :
    /\ s \in containers
    /\ HasWorkspace(s)
    /\ container[s] \in {"running", "exited"} \/ BeingRemoved(s)

(* DELETE answers 200 only if nothing of the session is left: the container *)
(* is removed, every query process in it is dead and stays so, including    *)
(* those of clients that went away and of streams that were about to start  *)
(* theirs, the workspace is released and nobody holds an entry.             *)
ClosedLeavesNothing ==
  \A c \in Closer :
    LET s == closeSession[c] IN
    closePc[c] = "closed" =>
      /\ container[s] = "removed"
      /\ \A t \in Stream : streamSession[t] = s => query[t] # "running"
      /\ workspace[s] # "temporary"
      /\ s \notin driverSessions \cup containers
      /\ ~SM!Present(s)

(* A container that runs is on record in the runtime client, which keeps   *)
(* the entry as long as docker rm has not succeeded, whatever closes race  *)
(* and fail.  One exception: its docker run reported failure, and then     *)
(* nobody ever had a record of it.                                         *)
RunningIsRecorded ==
  \A s \in Session :
    container[s] = "running" => s \in containers \/ creation[s] = "failed"

(* Nobody waits for a session for ever, whatever becomes of its container, *)
(* of its driver entry or of the clients before it in the queue.           *)
QueueDrains ==
  \A t \in Stream : streamPc[t] = "waiting" ~> streamPc[t] # "waiting"

(* README.md: one session -> one sandbox -> one workspace.  A session that *)
(* GET reports and nobody is closing has a container and a workspace.      *)
SessionOwnsSandbox ==
  \A s \in Session :
    SM!KnownToClients(s) /\ SM!Present(s)
      /\ (\A c \in Closer : closePc[c] = "closing" => closeSession[c] # s)
    => container[s] \in {"running", "exited"} /\ HasWorkspace(s)

(* Two queries of a session are at work at once only if the stream of one  *)
(* was cut short, by its client or by a line it refused: the session lock  *)
(* is held for as long as a stream reads, not for as long as its query     *)
(* runs.                                                                   *)
QueriesOverlapOnlyIfCut ==
  \A t, u \in Stream :
    query[t] = "running" /\ query[u] = "running" /\ streamSession[t] = streamSession[u] /\ t # u
      => {streamPc[t], streamPc[u]} \cap {"disconnected", "raised"} # {}
===============================================================================
