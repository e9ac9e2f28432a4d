------------------------------ MODULE SkillInstall ------------------------------
(*****************************************************************************)
(* Installing a skill that the agent has staged in its workspace: what          *)
(* SkillInstallationService does to the directory of the skill, and the two    *)
(* ways to it through TaskRunner, the tool and the request of a client.        *)
(*                                                                           *)
(* The directory belongs to the runtime, not to a run: all runs load their     *)
(* skills from it.  Copying and removing a directory take a step for each file, *)
(* and the process may die between any two of them.  The reports of an         *)
(* installation are in RunArtifacts, what its approval does to the run is in    *)
(* RunLifecycle.                                                             *)
(*****************************************************************************)
EXTENDS Naturals, Sequences, FiniteSets

CONSTANTS
  Runs,
  Threads,      \* request threads and executions that install
  Bundles,      \* what may be staged: records with valid, scripts and a version
  Overlap,      \* installations overlap, and the staged files change under them
  MaxChanges,   \* bounds the changes of what is staged
  MaxQuestions, \* bounds the approval requests
  MaxCrashes

Policy == INSTANCE PolicyEngine WITH SafeClasses <- {}, DenyClasses <- {}, WebMode <- "allow"

Modes == {"fail_if_exists", "replace"}

VARIABLES
  source,    \* the staged bundle
  changes,
  target,    \* directory of the skill: is it there, and which files of which bundle are
  staging,   \* the directory beside it, ".<skill>.installing"
  job,       \* [Threads -> the installation the thread is at]
  questions, \* the approval rows: run, mode, how they were asked, whether they are open
  grants,    \* [Runs -> boundary keys]
  skills,    \* [Runs -> "none", "loaded" or "error": what the run's start made of the directory]
  crashes

svars == <<source, changes, target, staging, job, questions, grants, skills, crashes>>

Parts(b) == {<<b, "SKILL.md">>, <<b, "rest">>}
Absent   == [there |-> FALSE, parts |-> {}]
Empty    == [there |-> TRUE, parts |-> {}]
Whole(d) == d.there /\ \E b \in Bundles : d.parts = Parts(b)

NoJob == [at |-> "idle", run |-> CHOOSE r \in Runs : TRUE, mode |-> "replace", via |-> "tool",
          valid |-> FALSE, scripts |-> FALSE, overwrite |-> FALSE]

TypeOK ==
  /\ source \in Bundles /\ changes \in 0..MaxChanges /\ crashes \in 0..MaxCrashes
  /\ \A d \in {target, staging} :
       d.there \in BOOLEAN /\ d.parts \subseteq UNION {Parts(b) : b \in Bundles}
  /\ \A t \in Threads :
       /\ job[t].at \in {"idle", "validate", "check", "decide", "clear", "make", "copy",
                         "remove", "rename"}
       /\ job[t].run \in Runs /\ job[t].mode \in Modes /\ job[t].via \in {"tool", "client"}
  /\ Len(questions) <= MaxQuestions
  /\ skills \in [Runs -> {"none", "loaded", "error"}]

Init ==
  /\ source \in Bundles /\ changes = 0
  /\ target = Absent /\ staging = Absent
  /\ job = [t \in Threads |-> NoJob] /\ questions = <<>>
  /\ grants = [r \in Runs |-> {}] /\ skills = [r \in Runs |-> "none"]
  /\ crashes = 0

-----------------------------------------------------------------------------
Quiet == \A t \in Threads : job[t].at = "idle"

Goes(t, where) == job' = [job EXCEPT ![t].at = where]
Ends(t)        == job' = [job EXCEPT ![t] = NoJob]

Disk    == <<target, staging>>
Outside == <<source, changes, skills, crashes>>

(* _install_skill_via_tool and _install_skill_via_runtime_method.              *)
Request(t, r, mode, via) ==
  /\ job[t].at = "idle" /\ (Overlap \/ Quiet)
  /\ job' = [job EXCEPT ![t] = [NoJob EXCEPT !.at = "validate", !.run = r, !.mode = mode, !.via = via]]
  /\ UNCHANGED <<Disk, Outside, questions, grants>>

(* prepare_install and _validate_skill: the staged files are read.  What is      *)
(* not there is not valid, and neither is what has no SKILL.md, a symbolic      *)
(* link, or a secret.                                                        *)
Validate(t) ==
  /\ job[t].at = "validate"
  /\ job' = [job EXCEPT ![t].at = "check", ![t].valid = source.valid, ![t].scripts = source.scripts]
  /\ UNCHANGED <<Disk, Outside, questions, grants>>

(* Mutant of Check: a skill that exists is not noticed.                        *)
CheckNothing(t) ==
  /\ job[t].at = "check"
  /\ IF ~job[t].valid THEN Ends(t) ELSE Goes(t, "decide")
  /\ UNCHANGED <<Disk, Outside, questions, grants>>

(* The target is looked at; a failed validation ends the installation.         *)
Check(t) ==
  LET conflict == target.there /\ job[t].mode = "fail_if_exists" IN
  /\ job[t].at = "check"
  /\ IF ~job[t].valid \/ conflict THEN Ends(t)
     ELSE job' = [job EXCEPT ![t].at = "decide", ![t].overwrite = target.there]
  /\ UNCHANGED <<Disk, Outside, questions, grants>>

(* _skill_install_operation_context.                                         *)
OperationOf(j) ==
  [type |-> "skill.install", scope |-> "primary_agent", role |-> "none", skill |-> "skill",
   mode |-> j.mode, scripts |-> j.scripts, overwrite |-> j.overwrite, escapes |-> FALSE]

(* The policy's word; what needs an approval is asked, and the thread ends:      *)
(* with an answer to the client, or with the suspended run.                    *)
Decide(t) ==
  LET j == job[t]
      decision == Policy!Evaluate(OperationOf(j), grants[j.run])
  IN
  /\ j.at = "decide"
  /\ CASE decision = "ALLOW" -> Goes(t, "clear") /\ UNCHANGED questions
       [] decision = "DENY"  -> Ends(t) /\ UNCHANGED questions
       [] decision = "REQUIRE_APPROVAL" ->
            /\ Len(questions) < MaxQuestions
            /\ questions' = Append(questions,
                 [run |-> j.run, mode |-> j.mode, via |-> j.via,
                  key |-> Policy!Boundary(OperationOf(j)), open |-> TRUE])
            /\ Ends(t)
  /\ UNCHANGED <<Disk, Outside, grants>>

(* task.approve.  _approve_skill_install writes the grant and installs again,    *)
(* as the client had asked, in the same thread; a run that has been suspended   *)
(* is resumed, and its agent calls the tool again or does not.                 *)
Approve(t, i) ==
  LET q == questions[i] IN
  /\ job[t].at = "idle" /\ q.open /\ (Overlap \/ Quiet)
  /\ questions' = [questions EXCEPT ![i].open = FALSE]
  /\ grants' = [grants EXCEPT ![q.run] = @ \cup {q.key}]
  /\ IF q.via = "client"
     THEN job' = [job EXCEPT ![t] = [NoJob EXCEPT !.at = "validate", !.run = q.run,
                                                 !.mode = q.mode, !.via = "client"]]
     ELSE UNCHANGED job
  /\ UNCHANGED <<Disk, Outside>>

Reject(i) ==
  /\ questions[i].open
  /\ questions' = [questions EXCEPT ![i].open = FALSE]
  /\ UNCHANGED <<Disk, Outside, job, grants>>

-----------------------------------------------------------------------------
(* execute_install.  rmtree removes the files and then the directory.          *)
RemoveSome(d) ==
  IF d.parts = {} THEN {Absent} ELSE {[d EXCEPT !.parts = @ \ {p}] : p \in d.parts}

Clear(t) ==
  /\ job[t].at = "clear"
  /\ IF staging.there THEN staging' \in RemoveSome(staging) /\ UNCHANGED job
     ELSE Goes(t, "make") /\ UNCHANGED staging
  /\ UNCHANGED <<target, Outside, questions, grants>>

(* copytree makes the directory, which must not be there,                      *)
Make(t) ==
  /\ job[t].at = "make"
  /\ IF staging.there THEN Ends(t) /\ UNCHANGED staging
     ELSE staging' = Empty /\ Goes(t, "copy")
  /\ UNCHANGED <<target, Outside, questions, grants>>

(* Mutant of Copy: the files are copied to where they belong.                  *)
CopyToTarget(t) ==
  /\ job[t].at = "copy"
  /\ IF Parts(source) \subseteq target.parts THEN Ends(t) /\ UNCHANGED target
     ELSE /\ \E p \in Parts(source) \ target.parts :
               target' = [there |-> TRUE, parts |-> {p} \cup
                           {q \in target.parts : q[2] # p[2]}]
          /\ UNCHANGED job
  /\ UNCHANGED <<staging, Outside, questions, grants>>

(* and copies file by file.  If the directory is gone, or the target is not     *)
(* removed in time, the installation ends with an error.                      *)
Copy(t) ==
  /\ job[t].at = "copy"
  /\ IF ~staging.there THEN Ends(t) /\ UNCHANGED staging
     ELSE IF Parts(source) \subseteq staging.parts THEN Goes(t, "remove") /\ UNCHANGED staging
     ELSE /\ \E p \in Parts(source) \ staging.parts : staging' = [staging EXCEPT !.parts = @ \cup {p}]
          /\ UNCHANGED job
  /\ UNCHANGED <<target, Outside, questions, grants>>

Remove(t) ==
  /\ job[t].at = "remove"
  /\ IF target.there THEN target' \in RemoveSome(target) /\ UNCHANGED job
     ELSE Goes(t, "rename") /\ UNCHANGED target
  /\ UNCHANGED <<staging, Outside, questions, grants>>

Rename(t) ==
  /\ job[t].at = "rename"
  /\ IF staging.there /\ target.parts = {}
     THEN target' = staging /\ staging' = Absent
     ELSE UNCHANGED Disk
  /\ Ends(t)
  /\ UNCHANGED <<Outside, questions, grants>>

-----------------------------------------------------------------------------
(* load_primary_skills at the start of a run: a directory without SKILL.md is    *)
(* a SkillRegistryError; names that begin with a dot are passed over.          *)
StartRun(r) ==
  /\ skills[r] = "none"
  /\ skills' = [skills EXCEPT ![r] =
       IF target.there /\ \A p \in target.parts : p[2] # "SKILL.md" THEN "error" ELSE "loaded"]
  /\ UNCHANGED <<source, changes, crashes, Disk, job, questions, grants>>

(* The agent changes what is staged.                                         *)
Stage(b) ==
  /\ changes < MaxChanges /\ b # source /\ (Overlap \/ Quiet)
  /\ source' = b /\ changes' = changes + 1
  /\ UNCHANGED <<Disk, job, questions, grants, skills, crashes>>

(* The process dies.  What was asked for stays open.                          *)
Crash ==
  /\ crashes < MaxCrashes /\ ~Quiet
  /\ crashes' = crashes + 1
  /\ job' = [t \in Threads |-> NoJob]
  /\ UNCHANGED <<source, changes, skills, Disk, questions, grants>>

Install(t) ==
  \/ Validate(t) \/ Check(t) \/ Decide(t)
  \/ Clear(t) \/ Make(t) \/ Copy(t) \/ Remove(t) \/ Rename(t)

Next ==
  \/ \E t \in Threads :
       \/ \E r \in Runs, mode \in Modes, via \in {"tool", "client"} : Request(t, r, mode, via)
       \/ Install(t)
       \/ \E i \in DOMAIN questions : Approve(t, i)
  \/ \E i \in DOMAIN questions : Reject(i)
  \/ \E r \in Runs : StartRun(r)
  \/ \E b \in Bundles : Stage(b)
  \/ Crash

Spec == Init /\ [][Next]_svars

-----------------------------------------------------------------------------
(* Whenever the process dies, what an installation has put at the target is a    *)
(* whole skill: it is copied beside it, and renamed.                           *)
NeverHalfInstalled ==
  [][target'.parts \ target.parts # {} => Whole(target')]_svars

(* A skill is taken away, and one with scripts is put there, only within what    *)
(* the user has granted to some run, although the staged files and the target   *)
(* may be different when the approval is given from what they were when it was  *)
(* asked for.                                                                *)
Granted(mode) ==
  \E r \in Runs : Policy!Boundary(OperationOf([NoJob EXCEPT !.mode = mode])) \in grants[r]

ChangedWithConsent ==
  [][ /\ Whole(target) /\ ~Whole(target') => Granted("replace")
      /\ (\E b \in Bundles : b.scripts /\ <<b, "rest">> \in target'.parts \ target.parts) =>
           \E mode \in Modes : Granted(mode) ]_svars
=============================================================================
