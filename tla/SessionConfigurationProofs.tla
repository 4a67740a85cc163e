---------------------- MODULE SessionConfigurationProofs ----------------------
(***************************************************************************)
(* Theorems about what becomes of a request, for every set of requests and *)
(* of skill sources.                                                       *)
(***************************************************************************)
EXTENDS SessionConfiguration, TLAPS

-------------------------------------------------------------------------------
(* Skill sources.                                                          *)

Tree == [root : BOOLEAN, top : SUBSET Name, project : BOOLEAN, nested : SUBSET Name]

(* What the S3 copy shows when it is searched has been registered; it is   *)
(* empty until the first S3 source was taken.                              *)
CopyIsRegistered ==
  /\ copied \in Tree
  /\ copied.nested # {} => copied.project
  /\ \/ copied = SK!NoFiles
     \/ /\ \E i \in 1..taken : sources[i].kind = "s3"
        /\ SK!Discover(copied, "source") # {}
        /\ SK!Discover(copied, "source") \subseteq registered

(* The sources that were taken contributed their skills, all of them and   *)
(* no others, under names of their own.                                    *)
TakenAreRegistered ==
  /\ sources \in Seq(Source) /\ taken \in 0..Len(sources)
  /\ registered = UNION {SK!SkillsOf(sources[i]) : i \in 1..taken}
  /\ \A i \in 1..taken : SK!SkillsOf(sources[i]) # {}
  /\ \A i, j \in 1..taken :
       i # j => SK!SkillsOf(sources[i]) \cap SK!SkillsOf(sources[j]) = {}

(* How far materialize is, and what it leaves.                             *)
Materializing ==
  /\ outcome \in {"idle", "nothing", "unmade", "working", "refused", "faulted", "done"}
  /\ outcome \in {"idle", "nothing"} => projectDir = "none"
  /\ outcome = "nothing" => sources = <<>>
  /\ outcome = "working" => projectDir = "there"
  /\ outcome \in {"working", "done"} => sources # <<>>
  /\ outcome = "done" => taken = Len(sources)
  /\ SK!FailureLeavesNothing

(* The S3 copy is made of S3 sources that were taken; links lead to what   *)
(* is in it, and what was written twice was in two of them.                *)
LinksAreKnown ==
  /\ \A place \in SK!Places(copied) \cup links :
       \E i \in 1..taken : sources[i].kind = "s3" /\ place \in SK!Places(sources[i])
  /\ \A place \in replaced :
       \E i, j \in 1..taken :
         /\ i < j /\ sources[i].kind = "s3" /\ sources[j].kind = "s3"
         /\ place \in SK!Places(sources[i]) \cap SK!Places(sources[j])

SkillInv ==
  CopyIsRegistered /\ TakenAreRegistered /\ LinksAreKnown /\ Materializing /\ SK!RefusedForCause

(* A search of the S3 copy finds the skills of the source that was copied  *)
(* last, or something that is registered already.                          *)
LEMMA FoundIsItsOwn ==
  ASSUME NEW x \in Source, CopyIsRegistered, x.kind = "s3" => copied = SK!NoFiles \/
       SK!Found(x) \cap registered = {}
  PROVE  SK!Found(x) = SK!SkillsOf(x)
<1> USE SourcesAreTrees
<1>1. CASE x.kind = "local"
  BY <1>1 DEF SK!Found, SK!SkillsOf
<1>2. CASE x.kind = "s3" /\ copied = SK!NoFiles
  BY <1>2 DEF SK!Found, SK!SkillsOf, SK!NoFiles, SK!Merged, SK!Discover
<1>3. CASE x.kind = "s3" /\ copied # SK!NoFiles
  <2>1. /\ SK!Discover(copied, "source") # {}
        /\ SK!Discover(copied, "source") \cap SK!Found(x) = {}
    BY <1>3 DEF CopyIsRegistered
  <2>2. CASE x.root
    BY <1>3, <2>2 DEF SK!Found, SK!SkillsOf, SK!Merged, SK!Discover
  <2>3. CASE ~x.root
    BY <1>3, <2>1, <2>3 DEF SK!Found, SK!SkillsOf, SK!Merged, SK!Discover, CopyIsRegistered,
                            Tree
  <2> QED  BY <2>2, <2>3
<1> QED  BY <1>1, <1>2, <1>3

(* The copy after a source was taken.                                      *)
LEMMA TakeKeepsCopy ==
  ASSUME SkillInv, SK!Take
  PROVE  CopyIsRegistered'
<1> DEFINE x == sources[taken + 1]
<1> USE SourcesAreTrees DEF SkillInv
<1>1. x \in Source /\ taken + 1 \in 1..taken' /\ taken' = taken + 1 /\
         sources' = sources /\ taken \in Nat
  BY DEF SK!Take, TakenAreRegistered
<1>2. CASE x.kind = "local"
  BY <1>1, <1>2 DEF SK!Take, SK!CopiedWith, CopyIsRegistered
<1>3. CASE x.kind = "s3"
  <2>1. copied' = SK!Merged(copied, x)
    BY <1>3 DEF SK!Take, SK!CopiedWith
  <2>2. copied' \in Tree /\ (copied'.nested # {} => copied'.project)
    BY <1>1, <2>1 DEF SK!Merged, CopyIsRegistered, Tree
  <2>3. SK!Discover(copied', "source") = SK!Found(x)
    BY <1>3, <2>1 DEF SK!Found
  <2>4. SK!Found(x) # {} /\ SK!Found(x) \subseteq registered'
    BY DEF SK!Take
  <2>5. \E i \in 1..taken' : sources'[i].kind = "s3"
    BY <1>1, <1>3
  <2> QED  BY <2>2, <2>3, <2>4, <2>5 DEF CopyIsRegistered, SK!Discover
<1> QED  BY <1>1, <1>2, <1>3

(* The skills that a source adds are its own and new.                      *)
LEMMA TakeKeepsNames ==
  ASSUME SkillInv, SK!Take
  PROVE  TakenAreRegistered'
<1> DEFINE x == sources[taken + 1]
<1> USE DEF SkillInv
<1>1. /\ x \in Source /\ taken \in Nat /\ taken' = taken + 1 /\ sources' = sources
      /\ sources \in Seq(Source) /\ taken' \in 0..Len(sources)
  BY DEF SK!Take, TakenAreRegistered
<1>2. SK!Found(x) = SK!SkillsOf(x)
  BY <1>1, FoundIsItsOwn DEF SK!Take
<1>3. /\ SK!SkillsOf(x) # {} /\ SK!SkillsOf(x) \cap registered = {}
      /\ registered' = registered \cup SK!SkillsOf(x)
  BY <1>2 DEF SK!Take
<1> HIDE DEF x
<1> DEFINE S(i) == SK!SkillsOf(sources[i])
<1>4. x = sources[taken + 1] /\ S(taken + 1) = SK!SkillsOf(x)
  BY DEF x
<1> HIDE DEF S
<1>5. /\ registered = UNION {S(i) : i \in 1..taken}
      /\ \A i \in 1..taken : S(i) # {}
      /\ \A i, j \in 1..taken : i # j => S(i) \cap S(j) = {}
  BY DEF TakenAreRegistered, S
<1>6. \A i \in 1..taken' : i \in 1..taken \/ i = taken + 1
  BY <1>1
<1>7. registered' = UNION {S(i) : i \in 1..taken'}
  BY <1>1, <1>3, <1>4, <1>5, <1>6
<1>8. \A i \in 1..taken' : S(i) # {}
  BY <1>3, <1>4, <1>5, <1>6
<1>9. \A i \in 1..taken : S(i) \cap S(taken + 1) = {}
  BY <1>3, <1>4, <1>5
<1>10. \A i, j \in 1..taken' : i # j => S(i) \cap S(j) = {}
  BY <1>5, <1>6, <1>9
<1> QED  BY <1>1, <1>7, <1>8, <1>10 DEF TakenAreRegistered, S

(* Copying a source adds its places to those of the copy.                  *)
LEMMA MergedPlaces ==
  ASSUME NEW t, NEW x
  PROVE  SK!Places(SK!Merged(t, x)) = SK!Places(t) \cup SK!Places(x)
BY DEF SK!Places, SK!Merged

(* A source that overwrites files was preceded by one that had them.       *)
LEMMA TakeKeepsLinks ==
  ASSUME SkillInv, SK!Take
  PROVE  LinksAreKnown'
<1> DEFINE x == sources[taken + 1]
<1> USE DEF SkillInv
<1>1. /\ taken \in Nat /\ taken' = taken + 1 /\ sources' = sources
      /\ taken + 1 \in 1..taken' /\ \A i \in 1..taken : i \in 1..taken' /\ i < taken + 1
  BY DEF SK!Take, TakenAreRegistered
<1>2. x.kind = "s3" => copied' = SK!Merged(copied, x)
  BY DEF SK!Take, SK!CopiedWith
<1>3. x.kind # "s3" => UNCHANGED <<copied, links, replaced>>
  BY DEF SK!Take, SK!CopiedWith, SK!Link
<1>4. x.kind = "s3" =>
        /\ links' \subseteq links \cup SK!Places(copied')
        /\ replaced' = replaced \cup (links \cap SK!Places(x))
  BY <1>2 DEF SK!Take, SK!Link, SK!Searched
<1>5. x.kind = "s3" => SK!Places(copied') = SK!Places(copied) \cup SK!Places(x)
  BY <1>2, MergedPlaces
<1> HIDE DEF x
<1>6. x = sources'[taken + 1]
  BY <1>1 DEF x
<1>7. ASSUME NEW place \in SK!Places(copied') \cup links'
      PROVE  \E i \in 1..taken' : sources'[i].kind = "s3" /\ place \in SK!Places(sources'[i])
  <2>1. CASE place \in SK!Places(copied) \cup links
    BY <1>1, <2>1 DEF LinksAreKnown
  <2>2. CASE x.kind = "s3" /\ place \in SK!Places(x)
    BY <1>1, <1>6, <2>2
  <2> QED  BY <1>3, <1>4, <1>5, <1>7, <2>1, <2>2
<1>8. ASSUME NEW place \in replaced'
      PROVE  \E i, j \in 1..taken' :
               /\ i < j /\ sources'[i].kind = "s3" /\ sources'[j].kind = "s3"
               /\ place \in SK!Places(sources'[i]) \cap SK!Places(sources'[j])
  <2>1. CASE place \in replaced
    BY <1>1, <2>1 DEF LinksAreKnown
  <2>2. CASE x.kind = "s3" /\ place \in links \cap SK!Places(x)
    <3>1. PICK i \in 1..taken : sources[i].kind = "s3" /\ place \in SK!Places(sources[i])
      BY <2>2 DEF LinksAreKnown
    <3> QED  BY <1>1, <1>6, <2>2, <3>1
  <2> QED  BY <1>3, <1>4, <1>8, <2>1, <2>2
<1> QED  BY <1>7, <1>8 DEF LinksAreKnown

(* A source is refused for itself, for one that was taken, or because both *)
(* are in S3.                                                              *)
LEMMA RefuseHasCause ==
  ASSUME SkillInv, SK!Refuse
  PROVE  SK!RefusedForCause'
<1> DEFINE x == sources[taken + 1]
<1> USE DEF SkillInv
<1>1. /\ x \in Source /\ taken \in Nat /\ taken < Len(sources)
      /\ sources' = sources /\ sources \in Seq(Source)
      /\ taken + 1 \in DOMAIN sources
      /\ \A i \in 1..taken : i \in DOMAIN sources /\ i # taken + 1
  BY DEF SK!Refuse, SK!GiveUp, TakenAreRegistered
<1>2. CASE ~x.there
  BY <1>1, <1>2 DEF SK!RefusedForCause
<1>3. CASE x.kind = "s3" /\ copied # SK!NoFiles
  <2>1. PICK i \in 1..taken : sources[i].kind = "s3"
    BY <1>3 DEF CopyIsRegistered
  <2> QED  BY <1>1, <1>3, <2>1 DEF SK!RefusedForCause
<1>4. CASE x.there /\ (x.kind = "s3" => copied = SK!NoFiles)
  <2>1. SK!Found(x) = SK!SkillsOf(x)
    BY <1>1, <1>4, FoundIsItsOwn
  <2>2. SK!SkillsOf(x) = {} \/ SK!SkillsOf(x) \cap registered # {}
    BY <1>4, <2>1 DEF SK!Refuse
  <2>3. CASE SK!SkillsOf(x) = {}
    BY <1>1, <2>3 DEF SK!RefusedForCause
  <2>4. CASE SK!SkillsOf(x) \cap registered # {}
    <3>1. PICK i \in 1..taken : SK!SkillsOf(x) \cap SK!SkillsOf(sources[i]) # {}
      BY <2>4 DEF TakenAreRegistered
    <3> QED  BY <1>1, <3>1 DEF SK!RefusedForCause
  <2> QED  BY <2>2, <2>3, <2>4
<1> QED  BY <1>2, <1>3, <1>4

(* No step of materialize breaks the invariant, or changes what was asked.  *)
LEMMA MaterializeKeepsSkillInv ==
  ASSUME SkillInv, SK!Next
  PROVE  SkillInv' /\ sources' = sources
<1>1. CASE SK!Nothing
  BY <1>1 DEF SK!Nothing, SkillInv, CopyIsRegistered, TakenAreRegistered, LinksAreKnown,
              Materializing, SK!FailureLeavesNothing, SK!RefusedForCause
<1>2. CASE SK!MakeFail
  BY <1>2 DEF SK!MakeFail, SkillInv, CopyIsRegistered, TakenAreRegistered, LinksAreKnown,
              Materializing, SK!FailureLeavesNothing, SK!RefusedForCause
<1>3. CASE SK!Make
  BY <1>3 DEF SK!Make, SkillInv, CopyIsRegistered, TakenAreRegistered, LinksAreKnown,
              Materializing, SK!FailureLeavesNothing, SK!RefusedForCause
<1>4. CASE SK!Take
  <2>1. Materializing' /\ SK!RefusedForCause' /\ sources' = sources
    BY <1>4 DEF SK!Take, SkillInv, Materializing, SK!FailureLeavesNothing, SK!RefusedForCause
  <2> QED  BY <1>4, <2>1, TakeKeepsCopy, TakeKeepsNames, TakeKeepsLinks DEF SkillInv
<1>5. CASE SK!Refuse
  <2>1. CopyIsRegistered' /\ TakenAreRegistered' /\ LinksAreKnown' /\ Materializing' /\
           sources' = sources
    BY <1>5 DEF SK!Refuse, SK!GiveUp, SkillInv, CopyIsRegistered, TakenAreRegistered,
                LinksAreKnown, Materializing, SK!FailureLeavesNothing
  <2> QED  BY <1>5, <2>1, RefuseHasCause DEF SkillInv
<1>6. CASE SK!Fault
  BY <1>6 DEF SK!Fault, SK!GiveUp, SkillInv, CopyIsRegistered, TakenAreRegistered,
              LinksAreKnown, Materializing, SK!FailureLeavesNothing, SK!RefusedForCause
<1>7. CASE SK!Finish
  <2>1. UNCHANGED <<sources, taken, copied, registered, links, replaced>>
    BY <1>7 DEF SK!Finish
  <2>2. CopyIsRegistered' /\ TakenAreRegistered' /\ LinksAreKnown'
    BY <2>1 DEF SkillInv, CopyIsRegistered, TakenAreRegistered, LinksAreKnown
  <2>3. Materializing' /\ SK!RefusedForCause'
    BY <1>7 DEF SK!Finish, SkillInv, Materializing, SK!FailureLeavesNothing, SK!RefusedForCause
  <2> QED  BY <2>1, <2>2, <2>3 DEF SkillInv
<1> QED  BY <1>1, <1>2, <1>3, <1>4, <1>5, <1>6, <1>7 DEF SK!Next

(* On success every source was taken.                                      *)
LEMMA DoneIsExact == SkillInv => SK!SkillsExactly
<1> SUFFICES ASSUME SkillInv, outcome = "done" PROVE SK!SkillsExactly
  BY DEF SK!SkillsExactly
<1>1. taken = Len(sources) /\ DOMAIN sources = 1..taken
  BY DEF SkillInv, Materializing, TakenAreRegistered
<1> QED  BY <1>1 DEF SkillInv, TakenAreRegistered, LinksAreKnown, SK!SkillsExactly

-------------------------------------------------------------------------------
(* The stations.                                                           *)

(* The options, with the skills directory or without.                      *)
OptionsFor(r, skills, callback) ==
  [permission |-> PermissionMode(r), allowed |-> Allowed(r), disallowed |-> Disallowed(r),
   gateway |-> IF r.baseUrl # "none" THEN r.baseUrl ELSE r.env, cwd |-> r.cwd,
   settings |-> IF skills THEN r.settings \cup {"project"} ELSE r.settings,
   skillDir |-> skills, callback |-> callback]

(* Which request the provider works with, and what stands behind it.       *)
Effective ==
  /\ stage \notin {"posted", "invalid"} => Valid
  /\ stage \in {"posted", "invalid", "create", "refused"} => container = None
  /\ stage \in {"posted", "invalid", "create", "refused", "worker"} => effective = None
  /\ stage = "worker" => Driver = "managed"
  /\ stage \in {"worker", "configure", "materialize", "no_skills", "attach", "ready"} /\
       Driver = "managed" =>
       /\ Guarded(request.policy)
       /\ container = [network |-> Network(request.policy), hosts |-> request.policy.hosts,
                       env |-> ManagedEnv]
  /\ stage \in {"configure", "materialize", "no_skills", "attach", "ready"} =>
       effective = IF Driver = "embedded" THEN request ELSE WorkerRequest(ManagedEnv)

(* What is left of a session that was refused.                             *)
Workspaces ==
  /\ workspace \in {"none", "allocated", "deleted", "kept"}
  /\ stage \in {"posted", "invalid", "create"} => workspace = "none"
  /\ stage = "refused" => workspace \in {"none", Released}

(* The options are those of the effective request.                         *)
OptionsOfRequest ==
  /\ stage \in {"posted", "invalid", "create", "refused", "worker", "configure"} =>
       options = None /\ sources = <<>> /\ outcome = "idle"
  /\ stage \in {"materialize", "no_skills", "attach", "ready"} =>
       sources = effective.skills.sources
  /\ stage \in {"materialize", "no_skills"} => options = OptionsFor(effective, FALSE, "none")
  /\ stage \in {"attach", "ready"} => outcome \in {"nothing", "done"}
  /\ stage = "attach" => options = OptionsFor(effective, outcome = "done", "none")
  /\ stage = "ready" => options = OptionsFor(effective, outcome = "done", Callback(effective))

IInv ==
  /\ mode \in SandboxMode /\ request \in Request /\ stage \in Stages \ {"unusable"}
  /\ Effective /\ Workspaces /\ OptionsOfRequest /\ SkillInv

USE DEF vars, skillVars, SK!vars

(* A policy that the driver lets pass has a network that docker_cli knows. *)
LEMMA GuardedHasNetwork ==
  ASSUME NEW r \in Request, Guarded(r.policy)
  PROVE  Network(r.policy) =
           IF r.policy.network = "allowlist" /\ r.policy.hosts THEN "bridge" ELSE "none"
BY RequestsAreBodies DEF Guarded, Network, NetworkPolicy

(* What the effective request is known to be.                              *)
LEMMA EffectiveIsBody ==
  ASSUME IInv, stage \in {"configure", "materialize", "no_skills", "attach", "ready"}
  PROVE  /\ effective.policy.execution \in ExecutionMode
         /\ effective.policy.approval \in ApprovalMode
         /\ effective.skills.sources \in Seq(Source)
         /\ Driver = "managed" => effective.policy.approval = "provider_native"
         /\ Driver \in {"embedded", "managed"}
<1>1. CASE Driver = "embedded"
  BY <1>1, RequestsAreBodies DEF IInv, Effective
<1>2. CASE Driver # "embedded"
  <2>1. effective = WorkerRequest(ManagedEnv)
    BY <1>2 DEF IInv, Effective
  <2>2. /\ effective.policy.execution = "default"
        /\ effective.policy.approval = "provider_native"
        /\ effective.skills.sources = <<>>
    BY <2>1 DEF WorkerRequest, DefaultRequest
  <2> QED  BY <1>2, <2>2 DEF Driver, ExecutionMode, ApprovalMode
<1> QED  BY <1>1, <1>2

(* Every station keeps the invariant.                                      *)
LEMMA NextIInv == IInv /\ [Next]_vars => IInv'
<1> SUFFICES ASSUME IInv, [Next]_vars PROVE IInv'
  OBVIOUS
<1> USE DEF IInv, Stages
<1>1. SkillInv'
  <2>1. CASE UNCHANGED skillVars
    <3>1. CopyIsRegistered' /\ TakenAreRegistered'
      BY <2>1 DEF SkillInv, CopyIsRegistered, TakenAreRegistered
    <3>2. LinksAreKnown'
      BY <2>1 DEF SkillInv, LinksAreKnown
    <3>3. Materializing' /\ SK!RefusedForCause'
      BY <2>1 DEF SkillInv, Materializing, SK!FailureLeavesNothing, SK!RefusedForCause
    <3> QED  BY <3>1, <3>2, <3>3 DEF SkillInv
  <2>2. CASE Configure
    <3>1. sources' \in Seq(Source) /\ UNCHANGED <<taken, copied, registered, links,
             replaced, projectDir, outcome>>
      BY <2>2, EffectiveIsBody DEF Configure, SK!Begin
    <3>2. sources = <<>> /\ outcome = "idle"
      BY <2>2 DEF Configure, OptionsOfRequest
    <3>3. taken = 0 /\ copied = SK!NoFiles
      BY <3>2 DEF SkillInv, TakenAreRegistered, CopyIsRegistered
    <3>4. LinksAreKnown'
      BY <3>1, <3>3 DEF SkillInv, LinksAreKnown
    <3> QED  BY <3>1, <3>2, <3>3, <3>4 DEF SkillInv, CopyIsRegistered, TakenAreRegistered,
                                     Materializing, SK!FailureLeavesNothing, SK!RefusedForCause
  <2>3. CASE Materialize
    BY <2>3, MaterializeKeepsSkillInv DEF Materialize
  <2> QED  BY <2>1, <2>2, <2>3 DEF Next, Parse, CreateEmbedded, RefuseManaged, CreateManaged,
                                   StartWorker, SkillsFail, SkillsReturn, Attach
<1>2. CASE UNCHANGED vars
  <2>1. Effective'
    BY <1>2 DEF Effective, Driver, Valid, ManagedEnv
  <2>2. Workspaces' /\ OptionsOfRequest'
    BY <1>2 DEF Workspaces, OptionsOfRequest, OptionsFor, Callback, Driver, Released
  <2> QED  BY <1>1, <1>2, <2>1, <2>2
<1>3. CASE Parse
  BY <1>1, <1>3 DEF Parse, Effective, Workspaces, OptionsOfRequest, Driver, Valid, Released
<1>4. CASE CreateEmbedded
  BY <1>1, <1>4 DEF CreateEmbedded, Effective, Workspaces, OptionsOfRequest, Driver, Valid,
                    Released
<1>5. CASE RefuseManaged
  BY <1>1, <1>5 DEF RefuseManaged, Effective, Workspaces, OptionsOfRequest, Driver, Valid,
                    Released
<1>6. CASE CreateManaged
  <2>1. Network(request.policy) # "unsupported"
    BY <1>6, GuardedHasNetwork DEF CreateManaged
  <2>2. container'.network = Network(request.policy)
    BY <1>6 DEF CreateManaged
  <2>3. stage' = "worker" /\ workspace' = "allocated"
    BY <1>6, <2>1, <2>2 DEF CreateManaged
  <2> QED  BY <1>1, <1>6, <2>3 DEF CreateManaged, Effective, Workspaces, OptionsOfRequest,
                                   Driver, Valid, ManagedEnv
<1>7. CASE StartWorker
  <2>1. container.env = ManagedEnv
    BY <1>7 DEF StartWorker, Effective
  <2> QED  BY <1>1, <1>7, <2>1 DEF StartWorker, Effective, Workspaces, OptionsOfRequest,
                                   Driver, Valid, ManagedEnv, WorkerRequest
<1>8. CASE Configure
  BY <1>1, <1>8 DEF Configure, SK!Begin, Effective, Workspaces, OptionsOfRequest, OptionsFor,
                    Driver, Valid, ManagedEnv
<1>9. CASE Materialize
  BY <1>1, <1>9, MaterializeKeepsSkillInv DEF Materialize, Effective, Workspaces,
                                              OptionsOfRequest, Driver, Valid, ManagedEnv
<1>10. CASE SkillsFail
  BY <1>1, <1>10 DEF SkillsFail, Effective, Workspaces, OptionsOfRequest, Driver, Valid,
                     ManagedEnv
<1>11. CASE SkillsReturn
  <2>1. Effective' /\ Workspaces' /\ stage' = "attach" /\ UNCHANGED <<mode, request>>
    BY <1>11 DEF SkillsReturn, Effective, Workspaces, Driver, Valid, ManagedEnv
  <2>2. options = OptionsFor(effective, FALSE, "none")
    BY <1>11 DEF SkillsReturn, OptionsOfRequest
  <2>3. options' = OptionsFor(effective, outcome = "done", "none")
    BY <1>11, <2>2 DEF SkillsReturn, OptionsFor
  <2>4. OptionsOfRequest'
    BY <1>11, <2>1, <2>3 DEF SkillsReturn, OptionsOfRequest
  <2> QED  BY <1>1, <2>1, <2>4
<1>12. CASE Attach
  <2>1. Callback(effective) # "missing"
    BY <1>12, EffectiveIsBody DEF Attach, Callback, ApprovalMode, Driver
  <2>2. options = OptionsFor(effective, outcome = "done", "none")
    BY <1>12 DEF Attach, OptionsOfRequest
  <2>3. options' = OptionsFor(effective, outcome = "done", Callback(effective))
    BY <1>12, <2>2 DEF Attach, OptionsFor
  <2>4. stage' = "ready"
    BY <1>12, <2>1, <2>3 DEF Attach, OptionsFor
  <2> QED  BY <1>1, <1>12, <2>3, <2>4 DEF Attach, Effective, Workspaces, OptionsOfRequest,
                                          OptionsFor, Callback, Driver, Valid, ManagedEnv
<1> QED  BY <1>2, <1>3, <1>4, <1>5, <1>6, <1>7, <1>8, <1>9, <1>10, <1>11, <1>12 DEF Next

(* The inductive invariant holds: each station of a session creation hands  *)
(* on what the next one relies on.                                         *)
THEOREM InductiveInvariant == Spec => []IInv
<1>1. Init => IInv
  BY DEF Init, SK!Init, IInv, Stages, SkillInv, CopyIsRegistered, Tree, SK!NoFiles,
         TakenAreRegistered, LinksAreKnown, SK!Places, Materializing, SK!FailureLeavesNothing,
         SK!RefusedForCause, Effective, Workspaces, OptionsOfRequest
<1> QED  BY <1>1, NextIInv, PTL DEF Spec

-------------------------------------------------------------------------------
(* The parts of the invariant give every variable its range.               *)
LEMMA IsTypeOK == IInv => TypeOK
<1> SUFFICES ASSUME IInv PROVE TypeOK
  OBVIOUS
<1> USE DEF IInv
<1>1. effective \in {None, request, WorkerRequest(ManagedEnv)}
  BY DEF Effective, Stages
<1>2. ASSUME options # None
      PROVE  /\ options.permission \in
                  {effective.permission, "none", "plan", "acceptEdits", "auto",
                       "bypassPermissions"}
             /\ options.callback \in {"none", "deny_all", "brokered", "missing"}
  <2>1. stage \in {"materialize", "no_skills", "attach", "ready"}
    BY <1>2 DEF OptionsOfRequest, Stages
  <2>2. options.permission = PermissionMode(effective)
    BY <2>1 DEF OptionsOfRequest, OptionsFor
  <2>3. options.callback \in {"none", Callback(effective)}
    BY <2>1 DEF OptionsOfRequest, OptionsFor
  <2>4. PermissionMode(effective) \in
          {effective.permission, "none", "plan", "acceptEdits", "auto", "bypassPermissions"}
    BY <2>1, EffectiveIsBody DEF PermissionMode, ExecutionMode
  <2>5. Callback(effective) \in {"none", "deny_all", "brokered", "missing"}
    BY <2>1, EffectiveIsBody DEF Callback, ApprovalMode
  <2> QED  BY <2>2, <2>3, <2>4, <2>5
<1> QED  BY <1>1, <1>2 DEF TypeOK, Workspaces

(* Every variable keeps its type; the permission mode is the caller's own  *)
(* string or one that _permission_mode_for_request puts in its place.      *)
THEOREM TypeCorrect == Spec => []TypeOK
BY InductiveInvariant, IsTypeOK, PTL

(* What the API accepts, docker_cli, the worker and _resolve_source can    *)
(* work with: none of their last-resort errors is reached.                 *)
THEOREM AcceptedAlwaysUsable == Spec => []AcceptedIsUsable
<1>1. IInv => AcceptedIsUsable
  <2> SUFFICES ASSUME IInv, NEW i \in DOMAIN sources PROVE stage # "unusable" /\
           sources[i].address = "good"
    BY DEF AcceptedIsUsable, IInv
  <2> USE DEF IInv
  <2>1. stage \in {"configure", "materialize", "no_skills", "attach", "ready"} /\
           sources = effective.skills.sources
    BY DEF OptionsOfRequest, Stages
  <2>2. CASE Driver = "embedded"
    BY <2>1, <2>2 DEF Effective, Valid, ValidSource
  <2>3. CASE Driver # "embedded"
    <3>1. effective = WorkerRequest(ManagedEnv)
      BY <2>1, <2>3 DEF Effective
    <3>2. sources = <<>>
      BY <2>1, <3>1 DEF WorkerRequest, DefaultRequest
    <3> QED  BY <3>2
  <2> QED  BY <2>2, <2>3
<1> QED  BY <1>1, InductiveInvariant, PTL

(* Of what _build_container_spec, the worker and _build_options make of a  *)
(* managed session, a request decides only between no network and the      *)
(* whole bridge, and the gateway.                                          *)
THEOREM ManagedAlwaysConfined == Spec => []ManagedConfined
<1>1. IInv => ManagedConfined
  <2> SUFFICES ASSUME IInv, Driver = "managed", stage = "ready" PROVE ManagedConfined
    BY DEF ManagedConfined
  <2> USE DEF IInv
  <2>1. /\ Guarded(request.policy)
        /\ container.network = Network(request.policy)
    BY DEF Effective
  <2>2. effective = WorkerRequest(ManagedEnv)
    BY DEF Effective
  <2>3. /\ effective.permission = "none" /\ effective.policy.execution = "default"
        /\ effective.cwd = "server" /\ effective.settings = {} /\ effective.env = "none"
        /\ effective.baseUrl = request.baseUrl /\ effective.skills.sources = <<>>
    BY <2>2 DEF WorkerRequest, ManagedEnv, DefaultRequest
  <2>4. sources = <<>> /\ options = OptionsFor(effective, outcome = "done", Callback(effective))
    BY <2>3 DEF OptionsOfRequest
  <2>5. outcome # "done"
    BY <2>4 DEF SkillInv, Materializing
  <2>6. /\ options.permission = "none" /\ options.cwd = "server" /\ options.settings = {}
        /\ ~options.skillDir /\ options.gateway = request.baseUrl
    BY <2>3, <2>4, <2>5 DEF OptionsFor, PermissionMode
  <2>7. options.allowed = {}
    <3>1. effective.policy.allowed = {} /\ effective.allowed = {} /\ ~SkillsEnabled(effective)
      BY <2>2 DEF WorkerRequest, DefaultRequest, SkillsEnabled
    <3> QED  BY <2>4, <3>1 DEF OptionsFor, Allowed, Asked
  <2> QED  BY <2>1, <2>6, <2>7, GuardedHasNetwork DEF ManagedConfined
<1> QED  BY <1>1, InductiveInvariant, PTL

(* A session whose provider was given skill sources and that became ready  *)
(* has all of them in a directory that its agent reads, and the tool.      *)
THEOREM SkillsAlwaysReachAgent == Spec => []SkillsReachAgent
<1>1. IInv => SkillsReachAgent
  <2> SUFFICES ASSUME IInv, stage = "ready",
           effective.skills.sources # <<>> PROVE SkillsReachAgent
    BY DEF SkillsReachAgent
  <2> USE DEF IInv
  <2>1. sources = effective.skills.sources /\ outcome = "done"
    BY DEF OptionsOfRequest, SkillInv, Materializing
  <2>2. projectDir = "there" /\ taken = Len(effective.skills.sources)
    BY <2>1 DEF SkillInv, Materializing, SK!FailureLeavesNothing
  <2>3. options = OptionsFor(effective, TRUE, Callback(effective))
    BY <2>1 DEF OptionsOfRequest
  <2>4. SkillsEnabled(effective)
    BY DEF SkillsEnabled
  <2> QED  BY <2>2, <2>3, <2>4 DEF SkillsReachAgent, OptionsFor, Allowed
<1> QED  BY <1>1, InductiveInvariant, PTL

(* Materialized skills have the names of the sources' skills, each from    *)
(* one source, and its files unless a later S3 source has the same place.  *)
THEOREM SkillsAlwaysExact == Spec => []SkillsExactly
<1>1. IInv => SkillsExactly
  BY DoneIsExact DEF IInv, SkillsExactly
<1> QED  BY <1>1, InductiveInvariant, PTL

(* materialize raises only for a source that is missing or empty, that     *)
(* repeats a skill, or that shares the S3 copy with another one.           *)
THEOREM RefusedAlwaysForCause == Spec => []RefusedForCause
<1>1. IInv => RefusedForCause
  BY DEF IInv, SkillInv, RefusedForCause
<1> QED  BY <1>1, InductiveInvariant, PTL

(* A session that was refused, or whose skills failed, leaves no container *)
(* and no skills directory, and no workspace but one that is to be kept.   *)
THEOREM FailureAlwaysLeavesNothing == Spec => []FailureLeavesNothing
<1>1. IInv => FailureLeavesNothing
  BY DEF IInv, Effective, Workspaces, OptionsOfRequest, SkillInv, Materializing,
         FailureLeavesNothing
<1> QED  BY <1>1, InductiveInvariant, PTL
===============================================================================
