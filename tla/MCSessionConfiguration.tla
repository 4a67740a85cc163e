------------------------ MODULE MCSessionConfiguration ------------------------
(* Small instances of SessionConfiguration for TLC.  Each set of requests  *)
(* varies one group of fields and leaves the others at their defaults.     *)
EXTENDS SessionConfiguration

CONSTANTS a, b

Names == {a, b, "source"}

Trees ==
  {s \in [kind : {"local", "s3"}, address : {"good", "missing", "wrong"}, there : BOOLEAN, label : {a}, root : BOOLEAN,
          top : SUBSET {a, b}, project : BOOLEAN, nested : SUBSET {b}] :
     /\ s.nested # {} => s.project
     /\ ~s.there \/ s.address # "good" => ~s.there /\ ~s.root /\ s.top = {} /\ ~s.project}

Policies ==
  [execution : ExecutionMode, approval : ApprovalMode, allowed : {{}}, disallowed : {{}},
   filesystem : FilesystemPolicy, network : NetworkPolicy, hosts : BOOLEAN]

PolicyRequests ==
  {[DefaultRequest EXCEPT !.policy = p, !.permission = f] :
     p \in Policies, f \in {"none", "bypassPermissions"}}

FieldRequests ==
  {[DefaultRequest EXCEPT !.inBounds = i, !.conversation = c, !.profile = p, !.retention = k, !.baseUrl = u,
                          !.cwd = "caller", !.env = e, !.settings = s] :
     i \in BOOLEAN, c \in {"given", "blank"}, p \in {"none", "default", "other"}, k \in {"delete", "keep"},
     u \in {"none", "field"}, e \in {"none", "env"}, s \in SUBSET {"user", "project"}}

Tools == SUBSET {"Skill", "Bash"}

ToolRequests ==
  {[DefaultRequest EXCEPT !.policy.allowed = pa, !.policy.disallowed = pd, !.allowed = fa,
                          !.disallowed = fd, !.skills.names = n, !.skills.auto = x] :
     pa \in Tools, pd \in Tools, fa \in Tools, fd \in Tools, n \in {"none", "empty", "blank", "given"},
     x \in BOOLEAN}

SkillRequests ==
  {[DefaultRequest EXCEPT !.skills.sources = s, !.settings = {"user"}] :
     s \in {<<x>> : x \in Trees} \cup {<<x, y>> : x, y \in Trees}}

Requests == PolicyRequests \cup FieldRequests \cup ToolRequests \cup SkillRequests
===============================================================================
