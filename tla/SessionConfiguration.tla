-------------------------- MODULE SessionConfiguration --------------------------
(***************************************************************************)
(* What becomes of the configuration in POST /v1/sessions: it is validated *)
(* (schemas.py), guarded and turned into a container (sandbox/docker.py,   *)
(* sandbox/docker_cli.py), read again from the container's environment by  *)
(* a worker (runtime/worker.py), and turned into the options of the agent  *)
(* when the first message arrives (providers/claude_code.py), with the     *)
(* skills that SkillSources materializes.  In embedded mode the provider   *)
(* gets the request itself.  One step is one of these stations.            *)
(*                                                                         *)
(* A string is there or not; of a value that the server or the caller can  *)
(* provide it matters which of them did.                                   *)
(***************************************************************************)
EXTENDS Naturals, Sequences

CONSTANTS
  Request,      \* the requests that clients send
  Name, Source, \* of SkillSources
  None

ASSUME SourcesAreTrees ==
  /\ Source \subseteq [kind : {"local", "s3"}, address : {"good", "missing", "wrong"}, there : BOOLEAN,
                       label : Name, root : BOOLEAN, top : SUBSET Name, project : BOOLEAN, nested : SUBSET Name]
  /\ \A source \in Source : source.nested # {} => source.project

VARIABLES
  mode,       \* AVIARY_SANDBOX_MODE
  request,    \* the body of the request
  stage,      \* the station that comes next, or the end
  workspace,  \* the server's directory for the session, in managed mode
  container,  \* what docker run is told, in managed mode
  effective,  \* the request the provider works with
  options,    \* ClaudeAgentOptions
  \* SkillSources
  sources, taken, copied, registered, links, replaced, projectDir, outcome

skillVars == <<sources, taken, copied, registered, links, replaced, projectDir, outcome>>
vars == <<mode, request, stage, workspace, container, effective, options, skillVars>>

SK == INSTANCE SkillSources

SandboxMode == {"embedded", "managed-container", "local-unsafe", "docker-cli"}
ExecutionMode == {"default", "read_only", "approve_edits", "auto", "bypass"}
ApprovalMode == {"provider_native", "broker", "auto_deny"}
FilesystemPolicy == {"workspace_only", "read_only", "unrestricted"}
NetworkPolicy == {"deny_by_default", "allowlist", "unrestricted"}

(* What pydantic lets through; nothing is said of the fields that are any  *)
(* string or any list.                                                     *)
ASSUME RequestsAreBodies ==
  \A r \in Request :
    /\ r.policy.execution \in ExecutionMode /\ r.policy.approval \in ApprovalMode
    /\ r.policy.network \in NetworkPolicy
    /\ r.skills.sources \in Seq(Source)

Stages == {"posted", "create", "worker", "configure", "materialize", "attach",
           "invalid", "refused", "unusable", "no_skills", "ready"}

(* normalize_sandbox_mode and build_sandbox_driver.                        *)
Driver == IF mode \in {"embedded", "local-unsafe"} THEN "embedded" ELSE "managed"

Init ==
  /\ mode \in SandboxMode
  /\ request \in Request
  /\ stage = "posted"
  /\ workspace = "none"
  /\ container = None /\ effective = None /\ options = None
  /\ SK!Init

-------------------------------------------------------------------------------
(* POST /v1/sessions.                                                      *)

(* SkillSource.validate_source: a path that is absolute, or S3's URI.      *)
ValidSource(source) == source.address = "good"

(* SkillConfig.validate_names: no name is blank.                           *)
ValidNames(skills) == skills.names # "blank"

(* The bounds of the numbers in generation, policy and sandbox, the        *)
(* conversation_id, and the skills.                                        *)
Valid ==
  /\ request.inBounds
  /\ request.conversation # "blank"
  /\ ValidNames(request.skills)
  /\ \A i \in DOMAIN request.skills.sources : ValidSource(request.skills.sources[i])

Parse ==
  /\ stage = "posted"
  /\ stage' = IF Valid THEN "create" ELSE "invalid"
  /\ UNCHANGED <<mode, request, workspace, container, effective, options, skillVars>>

(* EmbeddedSandboxDriver and ClaudeCodeProvider keep the request.          *)
CreateEmbedded ==
  /\ stage = "create" /\ Driver = "embedded"
  /\ effective' = request
  /\ stage' = "configure"
  /\ UNCHANGED <<mode, request, workspace, container, options, skillVars>>

(* Variant to be rejected: networks are left to the runtime client.        *)
GuardedButNetwork(policy) ==
  policy.execution # "bypass" /\ policy.filesystem # "unrestricted"

(* _validate_managed_policy.                                               *)
Guarded(policy) ==
  /\ policy.execution # "bypass"
  /\ policy.filesystem # "unrestricted"
  /\ policy.network # "unrestricted"
  /\ policy.network = "allowlist" => policy.hosts

(* _get_profile: build_sandbox_driver configures a single one.             *)
ProfileKnown == request.profile \in {"none", "default"}

Released == IF request.retention = "delete" THEN "deleted" ELSE "kept"

(* Variant to be rejected: the workspace of an unknown profile stays.      *)
RefuseManagedLeaving ==
  /\ stage = "create" /\ Driver = "managed"
  /\ \/ ~Guarded(request.policy) /\ UNCHANGED workspace
     \/ Guarded(request.policy) /\ ~ProfileKnown /\ workspace' = "allocated"
  /\ stage' = "refused"
  /\ UNCHANGED <<mode, request, container, effective, options, skillVars>>

(* DockerSandboxDriver.create_session: the policy is refused before the    *)
(* workspace is allocated, the profile after it.                           *)
RefuseManaged ==
  /\ stage = "create" /\ Driver = "managed"
  /\ \/ ~Guarded(request.policy) /\ UNCHANGED workspace
     \/ Guarded(request.policy) /\ ~ProfileKnown /\ workspace' = Released
  /\ stage' = "refused"
  /\ UNCHANGED <<mode, request, container, effective, options, skillVars>>

(* _network_mode, which raises for any other policy.                       *)
Network(policy) ==
  CASE policy.network = "deny_by_default" -> "none"
    [] policy.network = "allowlist" -> "bridge"
    [] OTHER -> "unsupported"

(* _managed_env: the values the caller chooses have keys of their own.     *)
ManagedEnv ==
  [AVIARY_WORKSPACE |-> "server", AVIARY_MODEL |-> request.model,
   ANTHROPIC_BASE_URL |-> request.baseUrl, AVIARY_API_KEY_REF |-> request.keyRef]

(* _build_container_spec and _build_run_args.  User, capabilities, root    *)
(* file system and the mount of the workspace, which is writable, are the  *)
(* same for every container.                                               *)
CreateManaged ==
  /\ stage = "create" /\ Driver = "managed"
  /\ Guarded(request.policy) /\ ProfileKnown
  /\ container' = [network |-> Network(request.policy), hosts |-> request.policy.hosts,
                   env |-> ManagedEnv]
  /\ IF container'.network = "unsupported"
       THEN stage' = "unusable" /\ workspace' = Released
       ELSE stage' = "worker" /\ workspace' = "allocated"
  /\ UNCHANGED <<mode, request, effective, options, skillVars>>

-------------------------------------------------------------------------------
(* The first message.                                                      *)

(* CreateSessionRequest with nothing given.                                *)
DefaultRequest ==
  [inBounds |-> TRUE, conversation |-> "none", model |-> "none", baseUrl |-> "none", keyRef |-> "none", cwd |-> "none",
   env |-> "none", profile |-> "none", retention |-> "delete",
   policy |-> [execution |-> "default", approval |-> "provider_native", allowed |-> {},
               disallowed |-> {}, filesystem |-> "workspace_only",
               network |-> "deny_by_default", hosts |-> FALSE],
   permission |-> "none", allowed |-> {}, disallowed |-> {}, settings |-> {},
   skills |-> [names |-> "none", sources |-> <<>>, auto |-> TRUE]]

(* Variant to be rejected: the worker forwards what the caller asked for.  *)
WorkerRequestForwarding(env) ==
  [request EXCEPT !.cwd = env.AVIARY_WORKSPACE, !.env = "none", !.skills = DefaultRequest.skills,
                  !.policy.approval = "provider_native"]

(* RuntimeEnvironment.from_mapping and RuntimeWorker._build_request: the   *)
(* request that can be read from the environment of the container.         *)
WorkerRequest(env) ==
  [DefaultRequest EXCEPT !.model = env.AVIARY_MODEL, !.cwd = env.AVIARY_WORKSPACE,
                         !.baseUrl = env.ANTHROPIC_BASE_URL, !.keyRef = env.AVIARY_API_KEY_REF]

StartWorker ==
  /\ stage = "worker"
  /\ effective' = WorkerRequest(container.env)
  /\ stage' = "configure"
  /\ UNCHANGED <<mode, request, workspace, container, options, skillVars>>

(* Variant to be rejected: the mode is passed on under Aviary's own name.  *)
PermissionModeUnmapped(r) ==
  IF r.permission # "none" THEN r.permission ELSE r.policy.execution

(* _map_permission_mode: the flat field goes before the policy.            *)
PermissionMode(r) ==
  IF r.permission # "none" THEN r.permission
  ELSE CASE r.policy.execution = "default" -> "none"
         [] r.policy.execution = "read_only" -> "plan"
         [] r.policy.execution = "approve_edits" -> "acceptEdits"
         [] r.policy.execution = "auto" -> "auto"
         [] r.policy.execution = "bypass" -> "bypassPermissions"

(* The lists of the policy go before the flat ones.                        *)
Disallowed(r) == IF r.policy.disallowed # {} THEN r.policy.disallowed ELSE r.disallowed
Asked(r) == IF r.policy.allowed # {} THEN r.policy.allowed ELSE r.allowed

(* SkillConfig.is_enabled: a list of names that is empty counts as none.   *)
SkillsEnabled(r) == r.skills.names = "given" \/ r.skills.sources # <<>>

Allowed(r) ==
  IF SkillsEnabled(r) /\ r.skills.auto /\ "Skill" \notin Disallowed(r)
    THEN Asked(r) \cup {"Skill"} ELSE Asked(r)

(* _build_options up to the skills.  Of the environment it matters who     *)
(* chose the gateway: runtime.base_url goes before runtime.env and env.    *)
Configure ==
  /\ stage = "configure"
  /\ options' = [permission |-> PermissionMode(effective),
                 allowed |-> Allowed(effective), disallowed |-> Disallowed(effective),
                 gateway |-> IF effective.baseUrl # "none" THEN effective.baseUrl ELSE effective.env,
                 cwd |-> effective.cwd, settings |-> effective.settings,
                 skillDir |-> FALSE, callback |-> "none"]
  /\ SK!Begin(effective.skills.sources)
  /\ stage' = "materialize"
  /\ UNCHANGED <<mode, request, workspace, container, effective>>

(* FilesystemSkillMaterializer.materialize.                                *)
Materialize ==
  /\ stage = "materialize"
  /\ SK!Next
  /\ UNCHANGED <<mode, request, stage, workspace, container, effective, options>>

(* materialize raises: an error event.                                     *)
SkillsFail ==
  /\ stage = "materialize" /\ outcome \in {"unmade", "refused", "faulted"}
  /\ stage' = "no_skills"
  /\ UNCHANGED <<mode, request, workspace, container, effective, options, skillVars>>

(* Variant to be rejected: setting sources of the caller are left alone.   *)
SkillsReturnKeeping ==
  /\ stage = "materialize" /\ outcome \in {"nothing", "done"}
  /\ options' = IF outcome = "nothing" THEN options
                ELSE [options EXCEPT !.skillDir = TRUE,
                                     !.settings = IF @ = {} THEN {"project"} ELSE @]
  /\ stage' = "attach"
  /\ UNCHANGED <<mode, request, workspace, container, effective, skillVars>>

(* The directory is added, and the settings in it are read.                *)
SkillsReturn ==
  /\ stage = "materialize" /\ outcome \in {"nothing", "done"}
  /\ options' = IF outcome = "nothing" THEN options
                ELSE [options EXCEPT !.skillDir = TRUE, !.settings = @ \cup {"project"}]
  /\ stage' = "attach"
  /\ UNCHANGED <<mode, request, workspace, container, effective, skillVars>>

(* _build_can_use_tool.  default_provider_registry gives the provider a    *)
(* broker, the worker's default_provider_factory does not.                 *)
Callback(r) ==
  CASE r.policy.approval = "provider_native" -> "none"
    [] r.policy.approval = "auto_deny" -> "deny_all"
    [] r.policy.approval = "broker" -> IF Driver = "embedded" THEN "brokered" ELSE "missing"

Attach ==
  /\ stage = "attach"
  /\ options' = [options EXCEPT !.callback = Callback(effective)]
  /\ stage' = IF options'.callback = "missing" THEN "unusable" ELSE "ready"
  /\ UNCHANGED <<mode, request, workspace, container, effective, skillVars>>

Next ==
  \/ Parse \/ CreateEmbedded \/ RefuseManaged \/ CreateManaged
  \/ StartWorker \/ Configure \/ Materialize \/ SkillsFail \/ SkillsReturn \/ Attach

Spec == Init /\ [][Next]_vars

-------------------------------------------------------------------------------
(* Properties.                                                             *)

(* Stations, what they leave behind, and the options of the agent.         *)
TypeOK ==
  /\ mode \in SandboxMode /\ stage \in Stages
  /\ workspace \in {"none", "allocated", "deleted", "kept"}
  /\ effective \in {None, request, WorkerRequest(ManagedEnv)}
  /\ options # None =>
       /\ options.permission \in
            {effective.permission, "none", "plan", "acceptEdits", "auto", "bypassPermissions"}
       /\ options.callback \in {"none", "deny_all", "brokered", "missing"}

(* What one station accepts the later ones can serve: docker_cli knows     *)
(* every network the driver lets pass, no container is asked for approvals *)
(* through a broker it does not have, although its session may have been   *)
(* created with one, and the asserts of _resolve_source hold.              *)
AcceptedIsUsable ==
  /\ stage # "unusable"
  /\ \A i \in DOMAIN sources : sources[i].address = "good"

(* A request cannot choose the conditions of an agent in a container but   *)
(* for three of them.  The network is docker's bridge exactly if the       *)
(* policy is an allowlist that names hosts (the names themselves only      *)
(* reach the container as AVIARY_ALLOWED_HOSTS, and nothing here keeps     *)
(* the agent to them), and none otherwise; the gateway is the one of the   *)
(* field base_url; the model and the key reference are passed on.  The     *)
(* driver's guard reads the policy only: whatever the request says in      *)
(* permission_mode, env, cwd, provider_options, its tool lists and skills  *)
(* must go astray between driver and worker, so that the mode is the       *)
(* SDK's default, the directory the server's, and no settings are read.    *)
ManagedConfined ==
  Driver = "managed" /\ stage = "ready" =>
    /\ container.network =
         IF request.policy.network = "allowlist" /\ request.policy.hosts THEN "bridge" ELSE "none"
    /\ options.permission = "none" /\ options.allowed = {}
    /\ options.cwd = "server" /\ options.settings = {} /\ ~options.skillDir
    /\ options.gateway = request.baseUrl

(* An agent that starts with skill sources can use them: the directory is  *)
(* there with all of their skills, it is among the agent's directories,    *)
(* its settings are read, and the tool is allowed, unless the caller said  *)
(* otherwise.  The sources are those of the request the provider works     *)
(* with: a container's has none, whatever the client asked for.            *)
SkillsReachAgent ==
  stage = "ready" /\ effective.skills.sources # <<>> =>
    /\ projectDir = "there" /\ taken = Len(effective.skills.sources)
    /\ options.skillDir /\ "project" \in options.settings
    /\ "Skill" \in options.allowed \cup options.disallowed \/ ~effective.skills.auto

(* Of SkillSources, under the configurations that reach it.                *)
SkillsExactly == SK!SkillsExactly
RefusedForCause == SK!RefusedForCause

(* Nothing stays behind of a session that cannot be had: no container, no  *)
(* workspace but one that is to be kept, although the profile is looked up *)
(* after the workspace was allocated, and none of the skills that were     *)
(* registered before one failed.                                           *)
FailureLeavesNothing ==
  /\ stage \in {"invalid", "refused"} =>
       container = None /\ projectDir = "none" /\ workspace \in {"none", Released}
  /\ SK!FailureLeavesNothing

(* docs/claude-code-provider.md: approval_mode=auto_deny installs a        *)
(* callback that denies every permission request.  A session that was      *)
(* created with it runs with it.                                           *)
AskedPolicyApplies ==
  stage = "ready" /\ request.policy.approval = "auto_deny" => options.callback = "deny_all"
===============================================================================
