------------------------------ MODULE SkillSources ------------------------------
(***************************************************************************)
(* FilesystemSkillMaterializer (skill_sources.py): the skill sources of a  *)
(* session become one project directory with every skill in it.  It runs   *)
(* without a suspension; a step is the work on one source, and every step  *)
(* may fail with an error of the file system or of the object store.       *)
(*                                                                         *)
(* Of a directory tree it matters where there is a SKILL.md: at its root,  *)
(* in which directories below it, and in which below .claude/skills, if    *)
(* that exists.  A source is such a tree with the name of its directory    *)
(* and its address, a path or an S3 URI.  A skill is not its name alone:   *)
(* what .claude/skills holds are links, and the files they lead to in the  *)
(* S3 copy are written again by a later source that has them too.          *)
(***************************************************************************)
EXTENDS Naturals, Sequences

CONSTANTS
  Name,    \* the names of skill directories; "source" is the S3 copy's
  Source   \* the skill sources there are: trees with label, kind and address

VARIABLES
  sources,     \* the sources of the configuration, in order
  taken,       \* how many of them have been registered
  copied,      \* the tree below s3-sources/source
  registered,  \* the names in .claude/skills
  links,       \* the directories of the S3 copy that they lead to
  replaced,    \* those of them whose files a later source has overwritten
  projectDir,  \* the temporary directory
  outcome      \* how materialize ends

vars == <<sources, taken, copied, registered, links, replaced, projectDir, outcome>>

NoFiles == [root |-> FALSE, top |-> {}, project |-> FALSE, nested |-> {}]

Init ==
  /\ sources = <<>>
  /\ taken = 0
  /\ copied = NoFiles
  /\ registered = {}
  /\ links = {} /\ replaced = {}
  /\ projectDir = "none"
  /\ outcome = "idle"

-------------------------------------------------------------------------------
(* _discover_skill_dirs: the names of the directories it returns, none if  *)
(* it raises.                                                              *)
Discover(tree, label) ==
  IF tree.root THEN {label} ELSE IF tree.project THEN tree.nested ELSE tree.top

(* The S3 copy after another source has been copied: all sources go to the *)
(* same directory.                                                         *)
Merged(tree, source) ==
  [root |-> tree.root \/ source.root, top |-> tree.top \cup source.top,
   project |-> tree.project \/ source.project, nested |-> tree.nested \cup source.nested]

(* _materialize_s3_source, and no copy for a local source.                 *)
CopiedWith(source) == IF source.kind = "s3" THEN Merged(copied, source) ELSE copied

(* Variant to be rejected: local sources are copied to that directory too. *)
FoundInCopy(source) == Discover(Merged(copied, source), source.label)

(* The skills that are discovered in a source.                             *)
Found(source) ==
  IF source.kind = "s3" THEN Discover(Merged(copied, source), "source")
                        ELSE Discover(source, source.label)

(* The directories of a tree that hold a SKILL.md, each with its place.    *)
Places(tree) ==
  (IF tree.root THEN {<<"root", "source">>} ELSE {}) \cup
  ({"top"} \X tree.top) \cup ({"nested"} \X tree.nested)

(* Those of them that Discover returns.                                    *)
Searched(tree) ==
  {place \in Places(tree) :
     place[1] = IF tree.root THEN "root" ELSE IF tree.project THEN "nested" ELSE "top"}

(* _register_skill_dir links a skill into .claude/skills, or copies it     *)
(* where the file system refuses the link; what is linked into the S3 copy *)
(* shows from then on whatever is written there.                           *)
Link(source) ==
  /\ \E linked \in SUBSET (IF source.kind = "s3" THEN Searched(Merged(copied, source)) ELSE {}) :
       links' = links \cup linked
  /\ replaced' = replaced \cup (IF source.kind = "s3" THEN links \cap Places(source) ELSE {})

(* materialize is called.                                                  *)
Begin(config) ==
  /\ sources' = config
  /\ UNCHANGED <<taken, copied, registered, links, replaced, projectDir, outcome>>

(* No sources: nothing to materialize.                                     *)
Nothing ==
  /\ outcome = "idle" /\ sources = <<>>
  /\ outcome' = "nothing"
  /\ UNCHANGED <<sources, taken, copied, registered, links, replaced, projectDir>>

(* mkdtemp, or the mkdir after it, which stands before the try block.      *)
MakeFail ==
  /\ outcome = "idle" /\ sources # <<>>
  /\ outcome' = "unmade"
  /\ \E left \in {"none", "there"} : projectDir' = left
  /\ UNCHANGED <<sources, taken, copied, registered, links, replaced>>

Make ==
  /\ outcome = "idle" /\ sources # <<>>
  /\ outcome' = "working" /\ projectDir' = "there"
  /\ UNCHANGED <<sources, taken, copied, registered, links, replaced>>

(* Variant to be rejected: a name that is taken is skipped.                *)
TakeSkippingDuplicates ==
  /\ outcome = "working" /\ taken < Len(sources)
  /\ LET source == sources[taken + 1] IN
       /\ source.there /\ Found(source) # {}
       /\ registered' = registered \cup Found(source)
       /\ copied' = CopiedWith(source) /\ Link(source)
  /\ taken' = taken + 1
  /\ UNCHANGED <<sources, projectDir, outcome>>

(* A source is resolved, copied if it is in S3, searched, and its skills   *)
(* are linked under their names.                                           *)
Take ==
  /\ outcome = "working" /\ taken < Len(sources)
  /\ LET source == sources[taken + 1] IN
       /\ source.there
       /\ Found(source) # {} /\ Found(source) \cap registered = {}
       /\ registered' = registered \cup Found(source)
       /\ copied' = CopiedWith(source) /\ Link(source)
  /\ taken' = taken + 1
  /\ UNCHANGED <<sources, projectDir, outcome>>

(* Variant to be rejected: the directory is left to the caller.            *)
GiveUpLeaving(reason) ==
  /\ outcome = "working"
  /\ outcome' = reason
  /\ UNCHANGED <<sources, taken, copied, registered, links, replaced, projectDir>>

(* The except clause around the loop.                                      *)
GiveUp(reason) ==
  /\ outcome = "working"
  /\ outcome' = reason /\ projectDir' = "removed"
  /\ UNCHANGED <<sources, taken, copied, registered, links, replaced>>

(* The source is not there, has no skills, or has one whose name is taken. *)
Refuse ==
  /\ taken < Len(sources)
  /\ LET source == sources[taken + 1] IN
       ~source.there \/ Found(source) = {} \/ Found(source) \cap registered # {}
  /\ GiveUp("refused")

(* Copying or linking fails.                                               *)
Fault == taken < Len(sources) /\ GiveUp("faulted")

Finish ==
  /\ outcome = "working" /\ taken = Len(sources)
  /\ outcome' = "done"
  /\ UNCHANGED <<sources, taken, copied, registered, links, replaced, projectDir>>

Next == Nothing \/ MakeFail \/ Make \/ Take \/ Refuse \/ Fault \/ Finish

Over == outcome \in {"nothing", "unmade", "refused", "faulted", "done"}

-------------------------------------------------------------------------------
(* Properties.                                                             *)

(* The skills of a source, looked at for itself.                           *)
SkillsOf(source) ==
  Discover(source, IF source.kind = "s3" THEN "source" ELSE source.label)

(* On success the session has the names of exactly the skills of its       *)
(* sources, each of which contributes some, and none hides another:        *)
(* although the S3 sources pile up in one directory that is searched anew  *)
(* for each of them.  Behind each name are the files of the source that    *)
(* contributed it, but for the one way in which they can be lost: a later  *)
(* S3 source has a directory at the same place of its tree.                *)
SkillsExactly ==
  outcome = "done" =>
    /\ registered = UNION {SkillsOf(sources[i]) : i \in DOMAIN sources}
    /\ \A i \in DOMAIN sources : SkillsOf(sources[i]) # {}
    /\ \A i, j \in DOMAIN sources :
         i # j => SkillsOf(sources[i]) \cap SkillsOf(sources[j]) = {}
    /\ \A place \in replaced :
         \E i, j \in DOMAIN sources :
           /\ i < j /\ sources[i].kind = "s3" /\ sources[j].kind = "s3"
           /\ place \in Places(sources[i]) \cap Places(sources[j])

(* Whichever step of materialize fails, and however late, nothing stays    *)
(* behind; except that a mkdir that fails before the try block may leave   *)
(* the empty directory.                                                    *)
FailureLeavesNothing ==
  /\ outcome \in {"refused", "faulted"} => projectDir = "removed"
  /\ outcome = "done" => projectDir = "there"

(* Sources are refused for a reason their author can see: one is missing   *)
(* or has no skills, or two share a name.  The exception is two S3 sources *)
(* of one session, which are refused although each is good.                *)
RefusedForCause ==
  outcome = "refused" =>
    \/ \E i \in DOMAIN sources : ~sources[i].there \/ SkillsOf(sources[i]) = {}
    \/ \E i, j \in DOMAIN sources :
         i # j /\ \/ SkillsOf(sources[i]) \cap SkillsOf(sources[j]) # {}
                  \/ sources[i].kind = "s3" /\ sources[j].kind = "s3"
===============================================================================
