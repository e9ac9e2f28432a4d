---------------------------- MODULE SequentialProofs ----------------------------
(*****************************************************************************)
(* Proofs about a run whose client sends the next call when the last one is   *)
(* over, except that it may interrupt the run at any time: Overlap is within  *)
(* {interrupt}.  The numbers of calls, approvals and boundaries are arbitrary. *)
(* At the end, the same run when its process dies and starts again any number *)
(* of times.                                                                 *)
(*****************************************************************************)
EXTENDS RunRefinement, RunRecovery, RunLifecycleProofs

(*****************************************************************************)
(* What any number of calls and crashes preserve.                             *)
(*****************************************************************************)
Passive == {"idle", "done", "signal", "stranded", "lost"}
Over    == {"completed", "failed"}

(* A signal only sets a cancellation object, and a thread that died does nothing;  *)
(* of the calls that do more there is one at a time.                            *)
Alone == \A c, d \in Calls : pc[c] \notin Passive /\ pc[d] \notin Passive => c = d

(* A call whose agent is at work, or was and whose outcome is not yet written.   *)
Executes(c) == pc[c] \in Harness \/ (pc[c] \in Saving /\ job[c].then # "cancelWrite")

StoresOK ==
  /\ ckpts.top <= ckpts.count
  /\ journal.last = "paused" => ~ckpts.final
  /\ effects \subseteq grants
  /\ \A b \in grants : \E a \in Approvals : scope[a] = b /\ decision[a] = "approved"

(* The record against itself and the history: what waits says so in its status     *)
(* unless that still is executing, and what is completed can be told so from the  *)
(* rows.                                                                     *)
RecordOK ==
  /\ run.pending # NoApproval => run.awaiting
  /\ run.awaiting => run.status \in {"executing", "awaiting_approval"}
  /\ run.status = "absent" => journal = NoEvents
  /\ journal.last = "completed" => run.status = "completed"
  /\ run.status = "completed" /\ NoSkillApproval =>
       /\ ~journal.open /\ journal.last \in {"completed", "other"}
       /\ ckpts.count > 0 /\ ckpts.final

(* A handler has no result, and no index beyond the rows.                       *)
Prelude == Passive \cup Handlers \cup {"begin", "mark", "announce", "enter", "running"}
FreshOK(c) ==
  /\ pc[c] \in Passive => job[c].next = 0
  /\ pc[c] \in Prelude \cup Asking => job[c].result = "none"
  /\ pc[c] \in Handlers => job[c].method # "create"
  /\ job[c].next <= ckpts.count
  /\ pc[c] = "mark" \/ Executes(c) => job[c].next = ckpts.count

(* A handler about to launch or to cancel an execution, and the execution itself,   *)
(* find a run that is not over.                                               *)
LaunchOK(c) ==
  /\ pc[c] \notin Passive => run.status # "absent"
  /\ pc[c] \in {"clear", "replying", "signalNow", "begin", "mark"} \cup Working =>
       run.status \notin Over
  /\ pc[c] \in {"clear", "replying", "begin", "mark"} => ~run.awaiting
  /\ pc[c] \in {"begin", "mark", "announce"} /\ job[c].method = "create" => ~journal.open

(* From the mark on the run is executing; its history is closed unless the agent   *)
(* has asked, and its latest checkpoint is the final one once the agent is done.   *)
ExecuteOK(c) ==
  Executes(c) =>
    /\ run.status = "executing"
    /\ pc[c] \in Saving /\ job[c].then = "running" => job[c].result = "none"
    /\ pc[c] \in Saving /\ job[c].then = "cancelRead" => job[c].result = "cancelled"
    /\ pc[c] # "askPublish" /\ job[c].result # "approval" => ~run.awaiting
    /\ pc[c] = "askPublish" \/ job[c].result = "approval" =>
         run.awaiting /\ run.pending = job[c].target
    /\ pc[c] # "announce" /\ job[c].result # "approval" => ~journal.open
    /\ pc[c] \in {"announce", "enter"} => ~run.resumable
    /\ pc[c] \notin {"announce", "enter"} =>
         journal.last = "other" \/ (journal.last = "approval" /\ job[c].result = "approval")
    /\ pc[c] \notin {"announce", "enter", "record"} =>
         (ckpts.final <=> job[c].result = "success")

(* What is written is what is going to be published.                             *)
EndOK(c) ==
  pc[c] = "publish" =>
    /\ job[c].result = "success" => run.status = "completed"
    /\ job[c].result = "failed" => run.status = "failed"
    /\ job[c].result \notin {"success", "failed"} => run.status = "paused" /\ ~ckpts.final

(* A decision is about a skill, or about what the run waits for.                   *)
DecideOK(c) ==
  /\ pc[c] \in Deciding =>
       scope[job[c].target] = SkillInstall \/ run.status \in {"executing", "awaiting_approval"}
  /\ pc[c] = "decideWrite" => decision[job[c].target] = "pending"
  /\ pc[c] = "grant" => decision[job[c].target] = "approved"
  /\ pc[c] = "rejectState" => scope[job[c].target] # SkillInstall
  /\ pc[c] = "skillPublish" /\ job[c].arg = "asked" =>
       scope[job[c].target] = SkillInstall

StageOK(c) == FreshOK(c) /\ LaunchOK(c) /\ ExecuteOK(c) /\ EndOK(c) /\ DecideOK(c)

SInv == Kept /\ Alone /\ StoresOK /\ RecordOK /\ \A c \in Calls : StageOK(c)

(*****************************************************************************)
(* What holds besides as long as the process does not die.                     *)
(*****************************************************************************)
(* The run waits for an approval that is open in the store and in the history.     *)
Waits ==
  /\ run.awaiting /\ decision[run.pending] = "pending"
  /\ journal.open /\ journal.asked = run.pending /\ journal.last \notin Over

(* Threads that are on their way to change the status, and threads that answer an  *)
(* approval.                                                                 *)
Leaving   == {"begin", "mark", "cancelRead", "cancelWrite"} \cup Saving
Answering == {"decided", "grant", "resumeCheck", "rejectState", "clear"} \cup Leaving

(* Why a record that is not over has its status: a thread will change it, an       *)
(* approval is open, or the history tells what a restart makes of it.  The last   *)
(* case is a run that a dead thread left executing: it waits for an open approval,  *)
(* or what its thread appended last was the event of a checkpoint or of a tool.    *)
StatusOK ==
  /\ run.status = "accepted" => \E c \in Calls : pc[c] \in Leaving
  /\ run.status \in {"paused", "awaiting_approval", "cancelled"} => run.resumable
  /\ run.awaiting => run.resumable
  /\ NoSkillApproval /\ run.status = "awaiting_approval" =>
       Waits \/ \E c \in Calls : pc[c] \in Answering
  /\ NoSkillApproval /\ run.status = "paused" =>
       /\ ~journal.open /\ ~ckpts.final
       /\ \/ journal.last \in {"paused", "other"} /\ journal.paused = run.pause
          \/ \E c \in Calls : pc[c] = "publish"
  /\ NoSkillApproval /\ run.status = "executing" =>
       \/ Waits \/ \E c \in Calls : pc[c] \in Answering \cup Working
       \/ ~run.awaiting /\ ~journal.open /\ (run.resumable => journal.last = "other")

AnswerOK(c) ==
  /\ pc[c] \in Asking => decision[job[c].target] = "pending"
  /\ job[c].result = "approval" /\ pc[c] # "cancelPublish" =>
       /\ decision[job[c].target] = "pending"
       /\ journal.open /\ journal.asked = job[c].target /\ journal.last \notin Over
  /\ pc[c] = "publish" /\ job[c].result \notin {"success", "failed"} =>
       run.pause = PauseReason(job[c].result)
  /\ pc[c] \in {"grant", "resumeCheck"} /\ NoSkillApproval =>
       run.status \in {"executing", "awaiting_approval"} /\ ~run.awaiting
  /\ pc[c] \in Deciding \cup {"resumeCheck"} /\ NoSkillApproval => run.resumable
  /\ pc[c] \in Deciding => run.status \notin {"absent", "accepted"}

XInv == SInv /\ ExecutingIsResumable /\ StatusOK /\ \A c \in Calls : AnswerOK(c)

-----------------------------------------------------------------------------
(*****************************************************************************)
(* Who acts, and what he leaves alone.                                        *)
(*****************************************************************************)
Sole(c) == \A d \in Calls \ {c} : pc[d] \in Passive

(* Only a signal is sent while another call is at work.                         *)
LEMMA SoleStep ==
  ASSUME Typed, Alone, Overlap \subseteq {"interrupt"}, NEW c \in Calls, Request(c) \/ Step(c),
         FreshOK(c)
  PROVE  \/ /\ UNCHANGED <<run, decision, scope, grants, effects, ckpts, journal>>
            /\ pc[c] \in Passive /\ pc'[c] \in Passive
            /\ job'[c].next = 0 /\ job'[c].result = "none" /\ job'[c].method # "create"
         \/ Sole(c)
<1> USE DEF Typed, TypeOK
<1>1. CASE pc[c] \notin Passive
  BY <1>1 DEF Alone, Sole
<1>2. CASE Request(c) /\ Quiet
  BY <1>2 DEF Quiet, Active, Dead, Sole, Passive
<1>3. CASE Request(c) /\ ~Quiet
  <2>1. PICK arg \in {"bare", "reason"} : Interrupt(c, arg)
    BY <1>3 DEF Request, Create, Resume, Reply, InstallSkill, Cancel, Approve, AskSkillInstall,
       Arrive
  <2> QED BY <2>1 DEF Interrupt, Arrive, NoJob, memory, durable, Passive
<1>4. CASE Signal(c) /\ pc[c] = "signal"
  BY <1>4 DEF Signal, Return, End, NoJob, memory, durable, Passive
<1>5. ASSUME Step(c), pc[c] \in Passive, ~Signal(c) PROVE FALSE
  BY <1>5 DEF Step, Handle, Execute, Passive, ClearCancellation, ReplyLaunch, DecideRead,
     DecideWrite, ApplyDecision, Grant, ResumeApproved, RejectRun, PublishSkill, CancelRead,
     CancelWrite, PublishCancelled, Begin, Mark, Announce, Lose, Enter, Record, NoteCheckpoint,
     PublishCheckpoint, MarkWaiting, PublishAsked, Yield, Break, Strand, Settle, WriteOutcome,
     PublishOutcome, PerformOperation, AskApproval
<1> QED BY <1>1, <1>2, <1>3, <1>4, <1>5 DEF Passive, Signal

(* A call that does nothing finds what it needs whatever the others do.         *)
LEMMA PassiveStage ==
  ASSUME Typed', NEW d \in Calls, pc'[d] \in Passive, FreshOK(d)'
  PROVE  StageOK(d)' /\ AnswerOK(d)'
<1>1. pc'[d] \in {"idle", "done", "signal", "stranded", "lost"} BY DEF Passive
<1>2. job'[d].result = "none" BY DEF FreshOK, Prelude
<1>3. LaunchOK(d)' BY <1>1 DEF LaunchOK, Passive, Working, Harness, Saving
<1>4. ExecuteOK(d)' BY <1>1 DEF ExecuteOK, Executes, Harness, Saving
<1>5. EndOK(d)' BY <1>1 DEF EndOK
<1>6. DecideOK(d)' BY <1>1 DEF DecideOK, Deciding
<1>7. AnswerOK(d)' BY <1>1, <1>2 DEF AnswerOK, Asking, Deciding
<1> QED BY <1>3, <1>4, <1>5, <1>6, <1>7 DEF StageOK

(* The rows of a run only grow in number.                                    *)
LEMMA RowsGrow ==
  ASSUME Typed, NEW c \in Calls, Request(c) \/ Step(c)
  PROVE  ckpts'.count >= ckpts.count
<1>1. CASE Record(c) BY <1>1 DEF Record, Saved, Typed, TypeOK
<1>2. CASE ~Record(c)
  BY <1>2, StoreWriters
  DEF Typed, TypeOK, DecideWrite, Grant, AskSkillInstall, PerformOperation,
     AskApproval
<1> QED BY <1>1, <1>2

(* A run without approvals for skills never had any.                          *)
LEMMA SkillsStay ==
  ASSUME Typed, NEW c \in Calls, Request(c) \/ Step(c), NoSkillApproval'
  PROVE  NoSkillApproval
BY StoresGrow DEF NoSkillApproval


-----------------------------------------------------------------------------
(*****************************************************************************)
(* The steps of the one call that is at work.  The second part of each claim   *)
(* is about a process that lives.                                            *)
(*****************************************************************************)
Lives(c) == StatusOK /\ AnswerOK(c)

Carried(c) == /\ StoresOK' /\ RecordOK' /\ StageOK(c)'
              /\ Lives(c) => StatusOK' /\ AnswerOK(c)'

(* The facts that every step starts from.                                     *)
LEMMA Given ==
  ASSUME SInv, NEW c \in Calls
  PROVE  /\ job[c] \in Jobs /\ pc \in [Calls -> PCs] /\ job \in [Calls -> Jobs]
         /\ run \in Runs /\ journal \in Journals
         /\ ckpts \in [count : Nat, top : Nat, final : BOOLEAN]
         /\ decision \in [Approvals -> {"absent", "pending", "approved", "rejected"}]
         /\ scope \in [Approvals -> Boundaries \cup {SkillInstall}]
         /\ JobOK(c) /\ AskedOK(c) /\ CkptOK(c) /\ StageOK(c) /\ StoresOK /\ RecordOK
         /\ ResumableHasCheckpoint /\ AwaitingNamesApproval
BY DEF SInv, Kept, Typed, TypeOK

(* The arrival of a call while no other one is at work.                      *)
LEMMA RequestStep ==
  ASSUME SInv, NEW c \in Calls, Sole(c), Request(c)
  PROVE  Carried(c)
<1> USE
DEF Runs, Journals, Jobs, Sole, Passive, Over, Prelude, Asking, Deciding, Working, Harness,
   Saving,
        Handlers, Executes, StoresOK, RecordOK, StageOK, FreshOK, LaunchOK, ExecuteOK, EndOK,
        DecideOK, Waits,
        Leaving, Answering, Lives, StatusOK, AnswerOK, JobOK, AskedOK,
        CkptOK
<1>t. pc \in [Calls -> PCs] /\ job \in [Calls -> Jobs] BY Given
<1>n. NoSkillApproval' => NoSkillApproval BY SkillsStay DEF SInv, Kept
<1>w. pc[c] = "idle" => \A d \in Calls : pc[d] \in Passive OBVIOUS
<1>1. CASE Create(c)
  <2>1. /\ pc[c] = "idle" /\ pc'[c] = "begin"
        /\ job'[c].method = "create" /\ job'[c].result = "none" /\ job'[c].next = 0
    BY <1>1, <1>t DEF Arrive, NoJob, Create
  <2>2. run' = [status |-> "accepted", awaiting |-> FALSE, pending |-> NoApproval,
                resumable |-> FALSE, pause |-> "none"]
    BY <1>1 DEF Create, Accepted, NoRun
  <2>3. run.status = "absent" /\ journal = NoEvents BY <1>1, Given DEF Create
  <2>5. journal' = [last |-> "other", open |-> FALSE, asked |-> NoApproval, paused |-> "none"]
    BY <1>1, <2>3 DEF Create, Publish, AppendEvent, Plain, NoEvents
  <2>4. UNCHANGED <<decision, scope, grants, effects, ckpts>> BY <1>1 DEF Create
  <2>s. StoresOK' /\ RecordOK' BY <2>1, <2>2, <2>3, <2>4, <2>5, Given
  <2>g. StageOK(c)' BY <2>1, <2>2, <2>3, <2>4, <2>5, Given
  <2>v. Lives(c) => StatusOK' /\ AnswerOK(c)' BY <2>1, <2>2, <2>3, <2>4, <2>5, Given
  <2> QED BY <2>s, <2>g, <2>v DEF Carried
<1>2. CASE Resume(c) \/ Reply(c)
  <2>1. /\ pc[c] = "idle" /\ pc'[c] \in {"clear", "replying"}
        /\ job'[c].method # "create" /\ job'[c].result = "none" /\ job'[c].next = 0
    BY ZenonT(60), <1>2, <1>t DEF Arrive, NoJob, Resume, Reply
  <2>2. run.status \notin {"absent", "completed", "failed"} /\ ~run.awaiting
    BY <1>2 DEF Resume, Reply, CanResume, CanReply
  <2>3. UNCHANGED <<run, decision, scope, grants, effects, ckpts, journal>>
    BY <1>2 DEF Resume, Reply, memory, durable
  <2>s. StoresOK' /\ RecordOK' BY <1>n, <2>1, <2>2, <2>3, Given DEF NoSkillApproval
  <2>g. StageOK(c)' BY <1>n, <2>1, <2>2, <2>3, Given DEF NoSkillApproval
  <2>v. Lives(c) => StatusOK' /\ AnswerOK(c)'
    BY <1>n, <2>1, <2>2, <2>3, Given DEF NoSkillApproval
  <2> QED BY <2>s, <2>g, <2>v DEF Carried
<1>3. CASE InstallSkill(c)
  <2>1. /\ pc[c] = "idle" /\ pc'[c] = "skillPublish"
        /\ job'[c].method # "create" /\ job'[c].result = "none" /\ job'[c].next = 0
        /\ job'[c].arg = "installed"
    BY <1>3, <1>t DEF Arrive, NoJob, InstallSkill
  <2>2. UNCHANGED <<run, decision, scope, grants, effects, ckpts,
  journal>> /\ run.status # "absent"
    BY <1>3 DEF InstallSkill, memory, durable
  <2>s. StoresOK' /\ RecordOK' BY <1>n, <2>1, <2>2, Given DEF NoSkillApproval
  <2>g. StageOK(c)' BY <1>n, <2>1, <2>2, Given DEF NoSkillApproval
  <2>v. Lives(c) => StatusOK' /\ AnswerOK(c)' BY <1>n, <2>1, <2>2, Given DEF NoSkillApproval
  <2> QED BY <2>s, <2>g, <2>v DEF Carried
<1>4. ASSUME NEW arg \in {"bare", "reason"}, Interrupt(c, arg) \/ Cancel(c, arg)
      PROVE  Carried(c)
  <2>1. /\ pc[c] = "idle" /\ pc'[c] \in {"signal", "signalNow"}
        /\ job'[c].method # "create" /\ job'[c].result = "none" /\ job'[c].next = 0
    BY ZenonT(60), <1>4, <1>t DEF Arrive, NoJob, Interrupt, Cancel
  <2>2. run.status \notin {"absent", "completed", "failed"}
    BY <1>4 DEF Interrupt, Cancel, CanCancel
  <2>3. UNCHANGED <<run, decision, scope, grants, effects, ckpts, journal>>
    BY <1>4 DEF Interrupt, Cancel, memory, durable
  <2>s. StoresOK' /\ RecordOK' BY <1>n, <2>1, <2>2, <2>3, Given DEF NoSkillApproval
  <2>g. StageOK(c)' BY <1>n, <2>1, <2>2, <2>3, Given DEF NoSkillApproval
  <2>a. Lives(c) => AnswerOK(c)' BY <1>n, <2>1, <2>2, <2>3, Given DEF NoSkillApproval
  <2>b. Lives(c) => StatusOK' BY SMTT(30), <1>n, <2>1, <2>2, <2>3, Given DEF NoSkillApproval
  <2>v. Lives(c) => StatusOK' /\ AnswerOK(c)' BY <2>a, <2>b
  <2> QED BY <2>s, <2>g, <2>v DEF Carried
<1>5. ASSUME NEW a \in Approvals, NEW arg \in {"approved", "rejected"}, Approve(c, a, arg)
      PROVE  Carried(c)
  <2>1. /\ pc[c] = "idle" /\ pc'[c] = "decideRead"
        /\ job'[c].method # "create" /\ job'[c].result = "none" /\ job'[c].next = 0
        /\ job'[c].target = a
    BY <1>5, <1>t DEF Arrive, NoJob, Approve
  <2>2. scope[a] = SkillInstall \/ run.status \in {"executing", "awaiting_approval"}
    BY <1>5, <2>1, <1>w, Given, NoApprovalAssumption DEF Approve, CanApprove
  <2>3. /\ UNCHANGED <<run, decision, scope, grants, effects, ckpts, journal>>
        /\ run.status # "absent"
    BY <1>5 DEF Approve, memory, durable, CanApprove
  <2>4. ASSUME StatusOK
        PROVE  run.status # "accepted" /\ (NoSkillApproval => run.resumable)
    <3>1. scope[a] = SkillInstall \/ run.awaiting
      BY <1>5, Given, NoApprovalAssumption DEF Approve, CanApprove
    <3>2. decision[a] # "absent" BY <1>5 DEF Approve
    <3> QED BY <1>w, <2>1, <2>4, <3>1, <3>2 DEF NoSkillApproval
  <2>s. StoresOK' /\ RecordOK' BY <1>n, <1>w, <2>1, <2>2, <2>3, Given DEF NoSkillApproval
  <2>g. StageOK(c)' BY <1>n, <1>w, <2>1, <2>2, <2>3, Given DEF NoSkillApproval
  <2>a. Lives(c) => AnswerOK(c)' BY <1>n, <2>1, <2>3, <2>4 DEF NoSkillApproval
  <2>b. Lives(c) => StatusOK'
    BY <1>n, <1>w, <2>1, <2>3 DEF NoSkillApproval
  <2>v. Lives(c) => StatusOK' /\ AnswerOK(c)' BY <2>a, <2>b
  <2> QED BY <2>s, <2>g, <2>v DEF Carried
<1>6. ASSUME NEW a \in Approvals, AskSkillInstall(c, a)
      PROVE  Carried(c)
  <2>1. /\ pc[c] = "idle" /\ pc'[c] = "skillPublish"
        /\ job'[c].method # "create" /\ job'[c].result = "none" /\ job'[c].next = 0
        /\ job'[c].target = a
    BY <1>6, <1>t DEF Arrive, NoJob, AskSkillInstall
  <2>2. /\ UNCHANGED <<run, grants, effects, ckpts, journal>> /\ run.status # "absent"
        /\ decision[a] = "absent" /\ decision'[a] = "pending" /\ scope'[a] = SkillInstall
        /\ \A x \in Approvals \ {a} : decision'[x] = decision[x] /\ scope'[x] = scope[x]
    BY <1>6, Given DEF AskSkillInstall, memory
  <2>3. ~NoSkillApproval' BY <2>2 DEF NoSkillApproval
  <2>s. StoresOK' /\ RecordOK' BY <2>1, <2>2, <2>3, Given
  <2>g. StageOK(c)' BY <2>1, <2>2, <2>3, Given
  <2>v. Lives(c) => StatusOK' /\ AnswerOK(c)' BY <2>1, <2>2, <2>3, Given
  <2> QED BY <2>s, <2>g, <2>v DEF Carried
<1> QED BY <1>1, <1>2, <1>3, <1>4, <1>5, <1>6 DEF Request

(* A step of a request thread while no other call is at work.                *)
LEMMA HandleStep ==
  ASSUME SInv, NEW c \in Calls, Sole(c), Handle(c)
  PROVE  Carried(c)
<1> USE
DEF Runs, Journals, Jobs, Sole, Passive, Over, Prelude, Asking, Deciding, Working, Harness,
   Saving,
        Handlers, Executes, StoresOK, RecordOK, StageOK, FreshOK, LaunchOK, ExecuteOK, EndOK,
        DecideOK, Waits,
        Leaving, Answering, Lives, StatusOK, AnswerOK, JobOK, AskedOK,
        CkptOK
<1>t. pc \in [Calls -> PCs] /\ job \in [Calls -> Jobs] BY Given
<1>n. NoSkillApproval' => NoSkillApproval BY SkillsStay DEF SInv, Kept, Step
<1>r. ASSUME Return(c) PROVE pc'[c] = "done" /\ job'[c].result = "none" /\ job'[c].next = 0
  BY <1>r, <1>t DEF Return, End, NoJob
<1>o. ASSUME Publish(Plain("other")) PROVE journal' = [journal EXCEPT !.last = "other"]
  BY <1>o, Given DEF Publish, Plain, AppendEvent
<1>y. journal \in Journals BY Given
<1>1. CASE ClearCancellation(c)
  <2>1. /\ pc[c] = "clear" /\ pc'[c] = "begin" /\ job'[c] = job[c]
        /\ UNCHANGED <<run, decision, scope, grants, effects, ckpts, journal>>
    BY <1>1, <1>t DEF ClearCancellation, Goto, durable
  <2>s. StoresOK' /\ RecordOK' BY <1>n, <2>1, Given DEF NoSkillApproval
  <2>g. StageOK(c)' BY <1>n, <2>1, Given DEF NoSkillApproval
  <2>v. Lives(c) => StatusOK' /\ AnswerOK(c)' BY <1>n, <2>1, Given DEF NoSkillApproval
  <2> QED BY <2>s, <2>g, <2>v DEF Carried
<1>2. CASE ReplyLaunch(c)
  <2>1. /\ pc[c] = "replying" /\ pc'[c] = "begin" /\ job'[c] = job[c]
        /\ UNCHANGED <<run, decision, scope, grants, effects, ckpts>>
    BY <1>2, <1>t DEF ReplyLaunch, Goto, memory
  <2>2. journal' = [journal EXCEPT !.last = "other"] BY <1>2, <1>o DEF ReplyLaunch
  <2>s. StoresOK' /\ RecordOK' BY <1>n, <2>1, <2>2, Given DEF NoSkillApproval
  <2>g. StageOK(c)' BY <1>n, <2>1, <2>2, Given DEF NoSkillApproval
  <2>v. Lives(c) => StatusOK' /\ AnswerOK(c)' BY <1>n, <2>1, <2>2, Given DEF NoSkillApproval
  <2> QED BY <2>s, <2>g, <2>v DEF Carried
<1>3. CASE Signal(c)
  <2>1. UNCHANGED <<run, decision, scope, grants, effects, ckpts, journal>>
    BY <1>3 DEF Signal, durable
  <2>2. CASE pc[c] = "signal"
    <3>1. pc'[c] = "done" /\ job'[c].result = "none" /\ job'[c].next = 0
      BY <1>3, <2>2, <1>r DEF Signal
    <3>s. StoresOK' /\ RecordOK' BY <1>n, <2>1, <2>2, <3>1, Given DEF NoSkillApproval
    <3>g. StageOK(c)' BY <1>n, <2>1, <2>2, <3>1, Given DEF NoSkillApproval
    <3>v. Lives(c) => StatusOK' /\ AnswerOK(c)'
      BY <1>n, <2>1, <2>2, <3>1, Given DEF NoSkillApproval
    <3> QED BY <3>s, <3>g, <3>v DEF Carried
  <2>3. CASE pc[c] = "signalNow"
    <3>1. pc'[c] = "cancelRead" /\ job'[c] = job[c]
      BY <1>3, <2>3, <1>t DEF Signal, Goto
    <3>s. StoresOK' /\ RecordOK' BY <1>n, <2>1, <2>3, <3>1, Given DEF NoSkillApproval
    <3>g. StageOK(c)' BY <1>n, <2>1, <2>3, <3>1, Given DEF NoSkillApproval
    <3>v. Lives(c) => StatusOK' /\ AnswerOK(c)'
      BY <1>n, <2>1, <2>3, <3>1, Given DEF NoSkillApproval
    <3> QED BY <3>s, <3>g, <3>v DEF Carried
  <2> QED BY <1>3, <2>2, <2>3 DEF Signal
<1>4. CASE DecideRead(c)
  <2>1. pc[c] = "decideRead" /\ UNCHANGED <<run, decision, scope, grants, effects, ckpts,
  journal>>
    BY <1>4 DEF DecideRead, memory, durable
  <2>2. \/ decision[job[c].target] = "pending" /\ pc'[c] = "decideWrite" /\ job'[c] = job[c]
        \/ pc'[c] = "done" /\ job'[c].result = "none" /\ job'[c].next = 0
    BY <1>4, <1>t, <1>r DEF DecideRead, Goto
  <2>s. StoresOK' /\ RecordOK' BY <1>n, <2>1, <2>2, Given DEF NoSkillApproval
  <2>g. StageOK(c)' BY <1>n, <2>1, <2>2, Given DEF NoSkillApproval
  <2>v. Lives(c) => StatusOK' /\ AnswerOK(c)' BY <1>n, <2>1, <2>2, Given DEF NoSkillApproval
  <2> QED BY <2>s, <2>g, <2>v DEF Carried
<1>5. CASE DecideWrite(c)
  <2>1. /\ pc[c] = "decideWrite" /\ pc'[c] = "decided" /\ job'[c] = job[c]
        /\ UNCHANGED <<run, scope, grants, effects, ckpts, journal>>
    BY <1>5, <1>t DEF DecideWrite, Goto, memory
  <2>2. /\ job[c].target \in Approvals /\ decision'[job[c].target] = job[c].arg
        /\ decision[job[c].target] = "pending" /\ job[c].arg \in {"approved", "rejected"}
        /\ \A a \in Approvals \ {job[c].target} : decision'[a] = decision[a]
    BY <1>5, Given DEF DecideWrite
  <2>s. StoresOK' /\ RecordOK' BY <1>n, <2>1, <2>2, Given DEF NoSkillApproval
  <2>g. StageOK(c)' BY <1>n, <2>1, <2>2, Given DEF NoSkillApproval
  <2>v. Lives(c) => StatusOK' /\ AnswerOK(c)' BY <1>n, <2>1, <2>2, Given DEF NoSkillApproval
  <2> QED BY <2>s, <2>g, <2>v DEF Carried
<1>6. CASE ApplyDecision(c)
  <2>1. /\ pc[c] = "decided" /\ job'[c] = job[c]
        /\ UNCHANGED <<decision, scope, grants, effects, ckpts, journal>>
    BY <1>6, <1>t DEF ApplyDecision, durable
  <2>2. \/ decision[job[c].target] = "approved" /\ pc'[c] = "grant"
        \/ scope[job[c].target] = SkillInstall /\ pc'[c] = "skillPublish"
        \/ scope[job[c].target] # SkillInstall /\ pc'[c] = "rejectState"
    BY <1>6, <1>t DEF ApplyDecision, AfterDecision, Goto
  <2>3. run' = [run EXCEPT !.awaiting = FALSE, !.pending = NoApproval]
    BY <1>6 DEF ApplyDecision, Decided
  <2>s. StoresOK' /\ RecordOK' BY <1>n, <2>1, <2>2, <2>3, Given DEF NoSkillApproval
  <2>g. StageOK(c)' BY <1>n, <2>1, <2>2, <2>3, Given DEF NoSkillApproval
  <2>v. Lives(c) => StatusOK' /\ AnswerOK(c)'
    BY <1>n, <2>1, <2>2, <2>3, Given DEF NoSkillApproval
  <2> QED BY <2>s, <2>g, <2>v DEF Carried
<1>7. CASE Grant(c)
  <2>1. /\ pc[c] = "grant" /\ job'[c] = job[c]
        /\ UNCHANGED <<run, decision, scope, effects, ckpts, journal>>
        /\ grants' = grants \cup {scope[job[c].target]}
    BY <1>7, <1>t DEF Grant, memory
  <2>2. \/ scope[job[c].target] # SkillInstall /\ pc'[c] = "resumeCheck"
        \/ scope[job[c].target] = SkillInstall /\ pc'[c] = "skillPublish"
    BY <1>7, <1>t DEF Grant, Goto
  <2>s. StoresOK' /\ RecordOK' BY <1>n, <2>1, <2>2, Given DEF NoSkillApproval
  <2>g. StageOK(c)' BY <1>n, <2>1, <2>2, Given DEF NoSkillApproval
  <2>v. Lives(c) => StatusOK' /\ AnswerOK(c)' BY <1>n, <2>1, <2>2, Given DEF NoSkillApproval
  <2> QED BY <2>s, <2>g, <2>v DEF Carried
<1>8. CASE ResumeApproved(c)
  <2>1. /\ pc[c] = "resumeCheck"
        /\ UNCHANGED <<run, decision, scope, grants, effects, ckpts, journal>>
    BY <1>8 DEF ResumeApproved, memory, durable
  <2>2. \/ CanResume(run) /\ pc'[c] = "clear" /\ job'[c] = job[c]
        \/ ~CanResume(run) /\ pc'[c] = "done" /\ job'[c].result = "none" /\ job'[c].next = 0
    BY <1>8, <1>t, <1>r DEF ResumeApproved, Goto
  <2>s. StoresOK' /\ RecordOK' BY <1>n, <2>1, <2>2, Given DEF NoSkillApproval, CanResume
  <2>g. StageOK(c)' BY <1>n, <2>1, <2>2, Given DEF NoSkillApproval, CanResume
  <2>v. Lives(c) => StatusOK' /\ AnswerOK(c)'
    BY <1>n, <2>1, <2>2, Given DEF NoSkillApproval, CanResume
  <2> QED BY <2>s, <2>g, <2>v DEF Carried
<1>9. CASE RejectRun(c)
  <2>1. /\ pc[c] = "rejectState" /\ pc'[c] = "publish"
        /\ job'[c] = [job[c] EXCEPT !.result = "failed"]
        /\ UNCHANGED <<decision, scope, grants, effects, ckpts, journal>>
    BY <1>9, <1>t DEF RejectRun, Goto, durable
  <2>2. run' = [run EXCEPT !.status = "failed", !.awaiting = FALSE, !.pending = NoApproval,
                           !.resumable = FALSE, !.pause = "none"]
    BY <1>9 DEF RejectRun, Failed
  <2>s. StoresOK' /\ RecordOK' BY <1>n, <2>1, <2>2, Given DEF NoSkillApproval
  <2>g. StageOK(c)' BY <1>n, <2>1, <2>2, Given DEF NoSkillApproval
  <2>v. Lives(c) => StatusOK' /\ AnswerOK(c)' BY <1>n, <2>1, <2>2, Given DEF NoSkillApproval
  <2> QED BY <2>s, <2>g, <2>v DEF Carried
<1>10. CASE PublishSkill(c)
  <2>1. /\ pc[c] = "skillPublish" /\ pc'[c] = "done" /\ job'[c].result = "none" /\ job'[c].next = 0
        /\ UNCHANGED <<run, decision, scope, grants, effects, ckpts>>
    BY <1>10, <1>r DEF PublishSkill, memory
  <2>2. CASE job[c].arg = "asked"
    <3>1. /\ journal'.last = "approval" /\ journal'.open /\ journal'.asked = job[c].target
          /\ journal'.paused = journal.paused
      BY <1>10, <2>2 DEF PublishSkill, Publish, Asked, AppendEvent
    <3>2. ~NoSkillApproval' BY <2>1, <2>2, Given DEF NoSkillApproval
    <3>s. StoresOK' /\ RecordOK' BY <2>1, <2>2, <3>1, <3>2, Given
    <3>g. StageOK(c)' BY <2>1, <2>2, <3>1, <3>2, Given
    <3>v. Lives(c) => StatusOK' /\ AnswerOK(c)' BY <2>1, <2>2, <3>1, <3>2, Given
    <3> QED BY <3>s, <3>g, <3>v DEF Carried
  <2>3. CASE job[c].arg # "asked"
    <3>1. journal' = [journal EXCEPT !.last = "other"] BY <1>10, <2>3, <1>o DEF PublishSkill
    <3>s. StoresOK' /\ RecordOK' BY <1>n, <2>1, <3>1, Given DEF NoSkillApproval
    <3>g. StageOK(c)' BY <1>n, <2>1, <3>1, Given DEF NoSkillApproval
    <3>a. Lives(c) => AnswerOK(c)' BY <1>n, <2>1, <3>1, Given DEF NoSkillApproval
    <3>b. Lives(c) => StatusOK' BY SMTT(30), <1>n, <2>1, <3>1, Given DEF NoSkillApproval
    <3>v. Lives(c) => StatusOK' /\ AnswerOK(c)' BY <3>a, <3>b
    <3> QED BY <3>s, <3>g, <3>v DEF Carried
  <2> QED BY <2>2, <2>3
<1>11. CASE CancelRead(c)
  <2>1. /\ pc[c] = "cancelRead"
        /\ UNCHANGED <<run, decision, scope, grants, effects, ckpts, journal>>
    BY <1>11 DEF CancelRead, memory, durable
  <2>2. \/ /\ run.status = "cancelled" /\ pc'[c] = "done"
           /\ job'[c].result = "none" /\ job'[c].next = 0
        \/ pc'[c] = "cancelWrite" /\ job'[c] = job[c] /\ job[c].result = "cancelled"
        \/ /\ pc'[c] = "record" /\ job'[c].then = "cancelWrite"
           /\ job'[c].next \in {job[c].next, ckpts.count}
           /\ job'[c].result = job[c].result /\ job'[c].target = job[c].target
    BY <1>11, <1>t, <1>r DEF CancelRead, Goto
  <2>s. StoresOK' /\ RecordOK' BY <1>n, <2>1, <2>2, Given DEF NoSkillApproval
  <2>g. StageOK(c)' BY <1>n, <2>1, <2>2, Given DEF NoSkillApproval
  <2>v. Lives(c) => StatusOK' /\ AnswerOK(c)' BY <1>n, <2>1, <2>2, Given DEF NoSkillApproval
  <2> QED BY <2>s, <2>g, <2>v DEF Carried
<1>12. CASE CancelWrite(c)
  <2>1. /\ pc[c] = "cancelWrite" /\ pc'[c] = "cancelPublish" /\ job'[c] = job[c]
        /\ UNCHANGED <<decision, scope, grants, effects, ckpts, journal>>
    BY <1>12, <1>t DEF CancelWrite, Goto, durable
  <2>2. /\ run'.status = "cancelled" /\ ~run'.awaiting /\ run'.pending = NoApproval
        /\ run'.resumable
    BY <1>12, Given DEF CancelWrite, Cancelled
  <2>s. StoresOK' /\ RecordOK' BY <1>n, <2>1, <2>2, Given DEF NoSkillApproval
  <2>g. StageOK(c)' BY <1>n, <2>1, <2>2, Given DEF NoSkillApproval
  <2>v. Lives(c) => StatusOK' /\ AnswerOK(c)' BY <1>n, <2>1, <2>2, Given DEF NoSkillApproval
  <2> QED BY <2>s, <2>g, <2>v DEF Carried
<1>13. CASE PublishCancelled(c)
  <2>1. /\ pc[c] = "cancelPublish" /\ pc'[c] = "done" /\ job'[c].result = "none" /\ job'[c].next = 0
        /\ UNCHANGED <<run, decision, scope, grants, effects, ckpts>>
    BY <1>13, <1>r DEF PublishCancelled, memory
  <2>2. journal' = [journal EXCEPT !.last = "other"] BY <1>13, <1>o DEF PublishCancelled
  <2>s. StoresOK' /\ RecordOK' BY <1>n, <2>1, <2>2, Given DEF NoSkillApproval
  <2>g. StageOK(c)' BY <1>n, <2>1, <2>2, Given DEF NoSkillApproval
  <2>a. Lives(c) => AnswerOK(c)' BY <1>n, <2>1, <2>2, Given DEF NoSkillApproval
  <2>b. Lives(c) => StatusOK' BY SMTT(30), <1>n, <2>1, <2>2, Given DEF NoSkillApproval
  <2>v. Lives(c) => StatusOK' /\ AnswerOK(c)' BY <2>a, <2>b
  <2> QED BY <2>s, <2>g, <2>v DEF Carried
<1> QED BY <1>1, <1>2, <1>3, <1>4, <1>5, <1>6, <1>7, <1>8, <1>9, <1>10, <1>11, <1>12, <1>13
        DEF Handle

(* A checkpoint at the next index of an execution is the latest row.             *)
LEMMA LatestRow ==
  ASSUME NEW ck \in [count : Nat, top : Nat, final : BOOLEAN], ck.top <= ck.count,
         NEW index \in Nat, index <= ck.count, NEW final \in BOOLEAN
  PROVE  /\ Saved(ck, index, final).count = ck.count + 1
         /\ Saved(ck, index, final).top <= ck.count + 1
         /\ Saved(ck, index, final).final \in {final, ck.final}
         /\ index = ck.count => Saved(ck, index, final).final = final
BY DEF Saved

(* A step of an execution thread while no other call is at work.             *)
LEMMA ExecuteStep ==
  ASSUME SInv, NEW c \in Calls, Sole(c), Execute(c)
  PROVE  Carried(c)
<1> USE
DEF Runs, Journals, Jobs, Sole, Passive, Over, Prelude, Asking, Deciding, Working, Harness,
   Saving,
        Handlers, Executes, StoresOK, RecordOK, StageOK, FreshOK, LaunchOK, ExecuteOK, EndOK,
        DecideOK, Waits,
        Leaving, Answering, Lives, StatusOK, AnswerOK, JobOK, AskedOK,
        CkptOK
<1>t. pc \in [Calls -> PCs] /\ job \in [Calls -> Jobs] BY Given
<1>n. NoSkillApproval' => NoSkillApproval BY SkillsStay DEF SInv, Kept, Step
<1>r. ASSUME Return(c) PROVE pc'[c] = "done" /\ job'[c].result = "none" /\ job'[c].next = 0
  BY <1>r, <1>t DEF Return, End, NoJob
<1>o. ASSUME Publish(Plain("other")) PROVE journal' = [journal EXCEPT !.last = "other"]
  BY <1>o, Given DEF Publish, Plain, AppendEvent
<1>s. ASSUME NEW result, NEW then, Save(c, result, then)
      PROVE  pc'[c] = "record" /\ job'[c] = [job[c] EXCEPT !.result = result, !.then = then]
  BY <1>s, <1>t DEF Save, Goto
<1>x. job[c] \in Jobs BY Given
<1>y. journal \in Journals BY Given
<1>1. CASE Begin(c)
  <2>1. /\ pc[c] = "begin" /\ pc'[c] \in {"cancelRead", "mark"}
        /\ job'[c].next = ckpts.count /\ job'[c].result = job[c].result
        /\ job'[c].target = job[c].target /\ job'[c].method = job[c].method
    BY <1>1, <1>t DEF Begin, Goto
  <2>2. UNCHANGED <<run, decision, scope, grants, effects, ckpts, journal>>
    BY <1>1 DEF Begin, memory, durable
  <2>s. StoresOK' /\ RecordOK' BY <1>n, <2>1, <2>2, Given DEF NoSkillApproval
  <2>g. StageOK(c)' BY <1>n, <2>1, <2>2, Given DEF NoSkillApproval
  <2>v. Lives(c) => StatusOK' /\ AnswerOK(c)' BY <1>n, <2>1, <2>2, Given DEF NoSkillApproval
  <2> QED BY <2>s, <2>g, <2>v DEF Carried
<1>2. CASE Mark(c)
  <2>1. /\ pc[c] = "mark" /\ pc'[c] = "announce" /\ job'[c] = job[c]
        /\ UNCHANGED <<decision, scope, grants, effects, ckpts, journal>>
    BY <1>2, <1>t DEF Mark, Goto, durable
  <2>2. run' = [run EXCEPT !.status = "executing", !.awaiting = FALSE, !.resumable = FALSE,
                           !.pause = "none"]
    BY <1>2 DEF Mark, Executing
  <2>s. StoresOK' /\ RecordOK' BY <1>n, <2>1, <2>2, Given DEF NoSkillApproval
  <2>g. StageOK(c)' BY <1>n, <2>1, <2>2, Given DEF NoSkillApproval
  <2>v. Lives(c) => StatusOK' /\ AnswerOK(c)' BY <1>n, <2>1, <2>2, Given DEF NoSkillApproval
  <2> QED BY <2>s, <2>g, <2>v DEF Carried
<1>3. CASE Announce(c)
  <2>1. /\ pc[c] = "announce" /\ pc'[c] = "enter" /\ job'[c] = job[c]
        /\ UNCHANGED <<run, decision, scope, grants, effects, ckpts>>
    BY <1>3, <1>t DEF Announce, Goto, memory
  <2>2. /\ journal'.last \in {"other", "resumed"}
        /\ journal'.open => journal.open /\ job[c].method = "create"
        /\ journal'.asked = journal.asked /\ journal'.paused = journal.paused
    BY <1>3 DEF Announce, Publish, Plain, AppendEvent
  <2>s. StoresOK' /\ RecordOK' BY <1>n, <2>1, <2>2, Given DEF NoSkillApproval
  <2>g. StageOK(c)' BY <1>n, <2>1, <2>2, Given DEF NoSkillApproval
  <2>v. Lives(c) => StatusOK' /\ AnswerOK(c)' BY <1>n, <2>1, <2>2, Given DEF NoSkillApproval
  <2> QED BY <2>s, <2>g, <2>v DEF Carried
<1>4. CASE Enter(c)
  <2>1. /\ pc[c] = "enter" /\ UNCHANGED <<run, decision, scope, grants, effects, ckpts>>
    BY <1>4 DEF Enter, memory
  <2>2. journal' = [journal EXCEPT !.last = "other"] BY <1>4, <1>o DEF Enter
  <2>3. /\ pc'[c] = "record"
        /\ \/ job'[c] = [job[c] EXCEPT !.result = "cancelled", !.then = "cancelRead"]
           \/ job'[c] = [job[c] EXCEPT !.result = "none", !.then = "running"]
    BY <1>4, <1>t DEF Enter, Save, Goto
  <2>4. /\ job'[c].next = job[c].next /\ job'[c].target = job[c].target
        /\ \/ job'[c].result = "cancelled" /\ job'[c].then = "cancelRead"
           \/ job'[c].result = "none" /\ job'[c].then = "running"
    BY <2>3, <1>x
  <2>s. StoresOK' /\ RecordOK' BY <1>n, <2>1, <2>2, <2>3, <2>4, Given DEF NoSkillApproval
  <2>g. StageOK(c)' BY <1>n, <2>1, <2>2, <2>3, <2>4, Given DEF NoSkillApproval
  <2>v. Lives(c) => StatusOK' /\ AnswerOK(c)'
    BY <1>n, <2>1, <2>2, <2>3, <2>4, Given DEF NoSkillApproval
  <2> QED BY <2>s, <2>g, <2>v DEF Carried
<1>5. CASE Record(c)
  <2>1. /\ pc[c] = "record" /\ pc'[c] = "note" /\ job'[c] = [job[c] EXCEPT !.next = job[c].next + 1]
        /\ UNCHANGED <<run, decision, scope, grants, effects, journal>>
    BY <1>5, <1>t DEF Record, Goto, memory
  <2>f. /\ ckpts'.count = ckpts.count + 1 /\ ckpts'.top <= ckpts'.count
        /\ ckpts'.final \in {job[c].then = "settle" /\ job[c].result = "success", ckpts.final}
        /\ job[c].next = ckpts.count =>
             ckpts'.final = (job[c].then = "settle" /\ job[c].result = "success")
        /\ ckpts' \in [count : Nat, top : Nat, final : BOOLEAN]
    <3>1. /\ ckpts \in [count : Nat, top : Nat, final : BOOLEAN] /\ ckpts.top <= ckpts.count
          /\ job[c].next \in Nat /\ job[c].next <= ckpts.count
      BY Given
    <3> DEFINE final == job[c].then = "settle" /\ job[c].result = "success"
    <3>2. ckpts' = Saved(ckpts, job[c].next, final) BY <1>5 DEF Record
    <3>3. final \in BOOLEAN OBVIOUS
    <3>4. /\ Saved(ckpts, job[c].next, final).count = ckpts.count + 1
          /\ Saved(ckpts, job[c].next, final).top <= ckpts.count + 1
          /\ Saved(ckpts, job[c].next, final).final \in {final, ckpts.final}
          /\ job[c].next = ckpts.count => Saved(ckpts, job[c].next, final).final = final
      <4> HIDE DEF final
      <4> QED BY <3>1, <3>3, LatestRow
    <3>5. ckpts' \in [count : Nat, top : Nat, final : BOOLEAN]
      <4> HIDE DEF final
      <4> QED BY <3>1, <3>2, <3>3, SavedType
    <3> QED BY <3>2, <3>4, <3>5
  <2>s. StoresOK' /\ RecordOK' BY <1>n, <2>1, <2>f, Given DEF NoSkillApproval
  <2>3. /\ job'[c].then = job[c].then /\ job'[c].result = job[c].result
        /\ job'[c].target = job[c].target
        /\ job[c].then \in {"running", "settle", "cancelRead", "cancelWrite"}
    BY <2>1, <1>x, Given
  <2>g. StageOK(c)'
    <3>1. FreshOK(c)' /\ LaunchOK(c)' BY <2>1, <2>f, Given
    <3>2. ExecuteOK(c)'
      <4>1. Executes(c)' <=> Executes(c) BY <2>1, <2>3
      <4>2. Executes(c) => job[c].next = ckpts.count BY <2>1, Given
      <4> QED BY <2>1, <2>3, <2>f, <4>1, <4>2, Given
    <3>3. EndOK(c)' /\ DecideOK(c)' BY <2>1
    <3> QED BY <3>1, <3>2, <3>3
  <2>a. Lives(c) => AnswerOK(c)' BY <1>n, <2>1, <2>f, Given DEF NoSkillApproval
  <2>b. Lives(c) => StatusOK' BY SMTT(30), <1>n, <2>1, <2>f, Given DEF NoSkillApproval
  <2>v. Lives(c) => StatusOK' /\ AnswerOK(c)' BY <2>a, <2>b
  <2> QED BY <2>s, <2>g, <2>v DEF Carried
<1>6. CASE NoteCheckpoint(c)
  <2>1. /\ pc[c] = "note" /\ pc'[c] = "notePublish" /\ job'[c] = job[c]
        /\ UNCHANGED <<decision, scope, grants, effects, ckpts, journal>>
    BY <1>6, <1>t DEF NoteCheckpoint, Goto, durable
  <2>2. run' = [run EXCEPT !.resumable = TRUE] BY <1>6 DEF NoteCheckpoint, Checkpointed
  <2>s. StoresOK' /\ RecordOK' BY <1>n, <2>1, <2>2, Given DEF NoSkillApproval
  <2>g. StageOK(c)' BY <1>n, <2>1, <2>2, Given DEF NoSkillApproval
  <2>v. Lives(c) => StatusOK' /\ AnswerOK(c)' BY <1>n, <2>1, <2>2, Given DEF NoSkillApproval
  <2> QED BY <2>s, <2>g, <2>v DEF Carried
<1>7. CASE PublishCheckpoint(c)
  <2>1. /\ pc[c] = "notePublish" /\ pc'[c] = job[c].then /\ job'[c] = job[c]
        /\ UNCHANGED <<run, decision, scope, grants, effects, ckpts>>
    BY <1>7, <1>t DEF PublishCheckpoint, Goto, memory
  <2>2. journal' = [journal EXCEPT !.last = "other"] BY <1>7, <1>o DEF PublishCheckpoint
  <2>3. job[c].then \in {"running", "settle", "cancelRead", "cancelWrite"} BY <2>1, Given
  <2>s. StoresOK' /\ RecordOK' BY <1>n, <2>1, <2>2, Given DEF NoSkillApproval
  <2>g. StageOK(c)' BY <1>n, <2>1, <2>2, <2>3, Given DEF NoSkillApproval
  <2>a. Lives(c) => AnswerOK(c)' BY <1>n, <2>1, <2>2, <2>3, <1>y DEF NoSkillApproval
  <2>b. Lives(c) => StatusOK'
    <3>1. /\ journal'.open = journal.open /\ journal'.asked = journal.asked
          /\ journal'.paused = journal.paused /\ journal'.last = "other"
      BY <2>2, <1>y
    <3>2. ~\E d \in Calls : pc[d] = "publish" BY <2>1
    <3>3. \E d \in Calls : pc'[d] \in Working BY <2>1, <2>3
    <3>4. \/ pc'[c] \in {"cancelRead", "cancelWrite"}
          \/ run.status = "executing"
      BY <2>1, <2>3, Given
    <3>5. Waits => Waits' BY <2>1, <3>1
    <3>6. ASSUME StatusOK, run.status \in {"accepted", "awaiting_approval"}
          PROVE  \E d \in Calls : pc'[d] \in Leaving
      BY <2>1, <3>4, <3>6
    <3> HIDE DEF Waits
    <3> QED BY <1>n, <2>1, <3>1, <3>2, <3>3, <3>5, <3>6
  <2>v. Lives(c) => StatusOK' /\ AnswerOK(c)' BY <2>a, <2>b
  <2> QED BY <2>s, <2>g, <2>v DEF Carried
<1>8. CASE MarkWaiting(c)
  <2>1. /\ pc[c] = "askState" /\ pc'[c] = "askPublish" /\ job'[c] = job[c]
        /\ UNCHANGED <<decision, scope, grants, effects, ckpts, journal>>
    BY <1>8, <1>t DEF MarkWaiting, Goto, durable
  <2>2. run' = [run EXCEPT !.awaiting = TRUE, !.pending = job[c].target, !.resumable = TRUE,
                           !.pause = "awaiting_approval"]
    BY <1>8 DEF MarkWaiting, Waiting
  <2>s. StoresOK' /\ RecordOK' BY <1>n, <2>1, <2>2, Given DEF NoSkillApproval
  <2>g. StageOK(c)' BY <1>n, <2>1, <2>2, Given DEF NoSkillApproval
  <2>v. Lives(c) => StatusOK' /\ AnswerOK(c)' BY <1>n, <2>1, <2>2, Given DEF NoSkillApproval
  <2> QED BY <2>s, <2>g, <2>v DEF Carried
<1>9. CASE PublishAsked(c)
  <2>1. /\ pc[c] = "askPublish" /\ UNCHANGED <<run, decision, scope, grants, effects, ckpts>>
    BY <1>9 DEF PublishAsked, memory
  <2>2. /\ journal'.last = "approval" /\ journal'.open /\ journal'.asked = job[c].target
        /\ journal'.paused = journal.paused
    BY <1>9 DEF PublishAsked, Publish, Asked, AppendEvent
  <2>3. \/ pc'[c] = "settle" /\ job'[c] = [job[c] EXCEPT !.result = "approval"]
        \/ pc'[c] = "record" /\ job'[c] = [job[c] EXCEPT !.result = "approval",
                                      !.then = "settle"]
    BY ZenonT(60), <1>9, <1>s, <1>t DEF PublishAsked, Goto
  <2>4. /\ pc'[c] \in {"record", "settle"} /\ (pc'[c] = "record" => job'[c].then = "settle")
        /\ job'[c].next = job[c].next /\ job'[c].target = job[c].target
        /\ job'[c].result = "approval"
    BY <2>3, <1>x
  <2>s. StoresOK' /\ RecordOK' BY <1>n, <2>1, <2>2, <2>4, Given DEF NoSkillApproval
  <2>g. StageOK(c)' BY <1>n, <2>1, <2>2, <2>4, Given DEF NoSkillApproval
  <2>v. Lives(c) => StatusOK' /\ AnswerOK(c)'
    BY <1>n, <2>1, <2>2, <2>4, Given DEF NoSkillApproval
  <2> QED BY <2>s, <2>g, <2>v DEF Carried
<1>10. CASE Yield(c)
  <2>1. pc[c] = "running" /\ UNCHANGED <<run, decision, scope, grants, effects, ckpts, journal>>
    BY <1>10 DEF Yield, memory, durable
  <2>2. PICK result \in {"cancelled", "input", "success"} : Save(c, result, "settle")
    BY <1>10 DEF Yield
  <2>3. pc'[c] = "record" /\ job'[c] = [job[c] EXCEPT !.result = result, !.then = "settle"]
    BY <2>2, <1>s
  <2>s. StoresOK' /\ RecordOK' BY <1>n, <2>1, <2>3, Given DEF NoSkillApproval
  <2>g. StageOK(c)' BY <1>n, <2>1, <2>3, Given DEF NoSkillApproval
  <2>v. Lives(c) => StatusOK' /\ AnswerOK(c)' BY <1>n, <2>1, <2>3, Given DEF NoSkillApproval
  <2> QED BY <2>s, <2>g, <2>v DEF Carried
<1>11. CASE Break(c)
  <2>1. /\ pc[c] = "running" /\ pc'[c] = "settle"
        /\ UNCHANGED <<run, decision, scope, grants, effects, ckpts, journal>>
    BY <1>11, <1>t DEF Break, Goto, memory, durable
  <2>2. PICK result \in {"failed", "upstream"} : job'[c] = [job[c] EXCEPT !.result = result]
    BY <1>11, <1>t DEF Break
  <2>s. StoresOK' /\ RecordOK' BY <1>n, <2>1, <2>2, Given DEF NoSkillApproval
  <2>g. StageOK(c)' BY <1>n, <2>1, <2>2, Given DEF NoSkillApproval
  <2>v. Lives(c) => StatusOK' /\ AnswerOK(c)' BY <1>n, <2>1, <2>2, Given DEF NoSkillApproval
  <2> QED BY <2>s, <2>g, <2>v DEF Carried
<1>12. CASE Settle(c)
  <2>1. /\ pc[c] = "settle" /\ pc'[c] \in {"cancelRead", "write"} /\ job'[c] = job[c]
        /\ UNCHANGED <<run, decision, scope, grants, effects, ckpts, journal>>
    BY <1>12, <1>t DEF Settle, Goto, memory, durable
  <2>s. StoresOK' /\ RecordOK' BY <1>n, <2>1, Given DEF NoSkillApproval
  <2>g. StageOK(c)' BY <1>n, <2>1, Given DEF NoSkillApproval
  <2>v. Lives(c) => StatusOK' /\ AnswerOK(c)' BY <1>n, <2>1, Given DEF NoSkillApproval
  <2> QED BY <2>s, <2>g, <2>v DEF Carried
<1>13. CASE WriteOutcome(c)
  <2>1. /\ pc[c] = "write" /\ UNCHANGED <<decision, scope, grants, effects, ckpts, journal>>
    BY <1>13 DEF WriteOutcome, durable
  <2>2. \/ /\ job[c].result = "approval" /\ pc'[c] = "done"
           /\ job'[c].result = "none" /\ job'[c].next = 0
        \/ job[c].result # "approval" /\ pc'[c] = "publish" /\ job'[c] = job[c]
    BY <1>13, <1>t, <1>r DEF WriteOutcome, Goto
  <2>3. CASE job[c].result = "approval"
    <3>1. run' = [run EXCEPT !.awaiting = TRUE, !.pending = job[c].target, !.resumable = TRUE,
                             !.pause = "awaiting_approval", !.status = "awaiting_approval"]
      BY <1>13, <2>3 DEF WriteOutcome, Outcome, AwaitingApproval, Waiting
    <3>s. StoresOK' /\ RecordOK' BY <1>n, <2>1, <2>2, <2>3, <3>1, Given DEF NoSkillApproval
    <3>g. StageOK(c)' BY <1>n, <2>1, <2>2, <2>3, <3>1, Given DEF NoSkillApproval
    <3>v. Lives(c) => StatusOK' /\ AnswerOK(c)'
      BY <1>n, <2>1, <2>2, <2>3, <3>1, Given DEF NoSkillApproval
    <3> QED BY <3>s, <3>g, <3>v DEF Carried
  <2>4. CASE job[c].result = "success"
    <3>1. run' = [run EXCEPT !.status = "completed", !.resumable = FALSE, !.pause = "none"]
      BY <1>13, <2>4 DEF WriteOutcome, Outcome, Completed
    <3>s. StoresOK' /\ RecordOK' BY <1>n, <2>1, <2>2, <2>4, <3>1, Given DEF NoSkillApproval
    <3>g. StageOK(c)' BY <1>n, <2>1, <2>2, <2>4, <3>1, Given DEF NoSkillApproval
    <3>v. Lives(c) => StatusOK' /\ AnswerOK(c)'
      BY <1>n, <2>1, <2>2, <2>4, <3>1, Given DEF NoSkillApproval
    <3> QED BY <3>s, <3>g, <3>v DEF Carried
  <2>5. CASE job[c].result = "failed"
    <3>1. run' = [run EXCEPT !.status = "failed", !.awaiting = FALSE, !.pending = NoApproval,
                             !.resumable = FALSE, !.pause = "none"]
      BY <1>13, <2>5 DEF WriteOutcome, Outcome, Failed
    <3>s. StoresOK' /\ RecordOK' BY <1>n, <2>1, <2>2, <2>5, <3>1, Given DEF NoSkillApproval
    <3>g. StageOK(c)' BY <1>n, <2>1, <2>2, <2>5, <3>1, Given DEF NoSkillApproval
    <3>v. Lives(c) => StatusOK' /\ AnswerOK(c)'
      BY <1>n, <2>1, <2>2, <2>5, <3>1, Given DEF NoSkillApproval
    <3> QED BY <3>s, <3>g, <3>v DEF Carried
  <2>6. CASE job[c].result \notin {"approval", "success", "failed"}
    <3>1. run' = [run EXCEPT !.status = "paused", !.awaiting = FALSE, !.pending = NoApproval,
                             !.resumable = TRUE, !.pause = PauseReason(job[c].result)]
      BY <1>13, <2>6 DEF WriteOutcome, Outcome, Suspended
    <3>s. StoresOK' /\ RecordOK' BY <1>n, <2>1, <2>2, <2>6, <3>1, Given DEF NoSkillApproval
    <3>g. StageOK(c)' BY <1>n, <2>1, <2>2, <2>6, <3>1, Given DEF NoSkillApproval
    <3>v. Lives(c) => StatusOK' /\ AnswerOK(c)'
      BY <1>n, <2>1, <2>2, <2>6, <3>1, Given DEF NoSkillApproval
    <3> QED BY <3>s, <3>g, <3>v DEF Carried
  <2> QED BY <2>3, <2>4, <2>5, <2>6
<1>14. CASE PublishOutcome(c)
  <2>1. /\ pc[c] = "publish" /\ pc'[c] = "done" /\ job'[c].result = "none" /\ job'[c].next = 0
        /\ UNCHANGED <<run, decision, scope, grants, effects, ckpts>>
    BY <1>14, <1>r DEF PublishOutcome, memory
  <2>2. /\ journal'.last = CASE job[c].result = "success" -> "completed"
                             [] job[c].result = "failed"  -> "failed"
                             [] OTHER                     -> "paused"
        /\ journal'.open => journal.open /\ journal'.last = "paused"
        /\ journal'.asked = journal.asked
        /\ job[c].result \notin {"success", "failed"} =>
             journal'.paused = PauseReason(job[c].result) /\ (journal.open => journal'.open)
    BY <1>14 DEF PublishOutcome, Publish, Plain, Paused, AppendEvent
  <2>s. StoresOK' /\ RecordOK' BY <1>n, <2>1, <2>2, Given DEF NoSkillApproval
  <2>g. StageOK(c)' BY <1>n, <2>1, <2>2, Given DEF NoSkillApproval
  <2>v. Lives(c) => StatusOK' /\ AnswerOK(c)' BY <1>n, <2>1, <2>2, Given DEF NoSkillApproval
  <2> QED BY <2>s, <2>g, <2>v DEF Carried
<1>15. ASSUME NEW b \in Boundaries \cup {SkillInstall}, PerformOperation(c, b)
       PROVE  Carried(c)
  <2>1. /\ pc[c] = "running" /\ pc'[c] = "running" /\ job'[c] = job[c] /\ b \in grants
        /\ UNCHANGED <<run, decision, scope, grants, ckpts>> /\ effects' = effects \cup {b}
    BY <1>15 DEF PerformOperation, memory
  <2>2. journal' = [journal EXCEPT !.last = "other"] BY <1>15, <1>o DEF PerformOperation
  <2>s. StoresOK' /\ RecordOK' BY <1>n, <2>1, <2>2, Given DEF NoSkillApproval
  <2>g. StageOK(c)' BY <1>n, <2>1, <2>2, Given DEF NoSkillApproval
  <2>v. Lives(c) => StatusOK' /\ AnswerOK(c)' BY <1>n, <2>1, <2>2, Given DEF NoSkillApproval
  <2> QED BY <2>s, <2>g, <2>v DEF Carried
<1>16. ASSUME NEW b \in Boundaries \cup {SkillInstall}, NEW a \in Approvals, AskApproval(c, b,
a)
       PROVE  Carried(c)
  <2>1. /\ pc[c] = "running" /\ pc'[c] = "askState" /\ job'[c] = [job[c] EXCEPT !.target = a]
        /\ UNCHANGED <<run, grants, effects, ckpts, journal>>
    BY <1>16, <1>t DEF AskApproval, Goto, memory
  <2>2. /\ decision[a] = "absent" /\ decision'[a] = "pending"
        /\ \A x \in Approvals \ {a} : decision'[x] = decision[x] /\ scope'[x] = scope[x]
    BY <1>16, Given DEF AskApproval
  <2>s. StoresOK' /\ RecordOK' BY SMTT(30), <1>n, <2>1, <2>2, Given DEF NoSkillApproval
  <2>g. StageOK(c)' BY <1>n, <2>1, <2>2, Given DEF NoSkillApproval
  <2>v. Lives(c) => StatusOK' /\ AnswerOK(c)' BY <1>n, <2>1, <2>2, Given DEF NoSkillApproval
  <2> QED BY <2>s, <2>g, <2>v DEF Carried
<1>17. CASE Strand(c) \/ Lose(c)
  <2>1. /\ \/ pc[c] = "settle" /\ pc'[c] = "stranded"
           \/ pc[c] = "enter" /\ pc'[c] = "lost"
        /\ job'[c].result = "none" /\ job'[c].next = 0
        /\ UNCHANGED <<run, decision, scope, grants, effects, ckpts, journal>>
    BY <1>17, <1>t DEF Strand, Lose, End, NoJob, memory, durable
  <2>s. StoresOK' /\ RecordOK' BY <1>n, <2>1, Given DEF NoSkillApproval
  <2>g. StageOK(c)' BY <1>n, <2>1, Given DEF NoSkillApproval
  <2>v. Lives(c) => StatusOK' /\ AnswerOK(c)' BY <1>n, <2>1, Given DEF NoSkillApproval
  <2> QED BY <2>s, <2>g, <2>v DEF Carried
<1> QED BY <1>1, <1>2, <1>3, <1>4, <1>5, <1>6, <1>7, <1>8, <1>9, <1>10, <1>11, <1>12, <1>13,
           <1>14, <1>15, <1>16, <1>17 DEF Execute

-----------------------------------------------------------------------------
(*****************************************************************************)
(* The invariants are preserved.                                             *)
(*****************************************************************************)
LEMMA InitSequential == Init => XInv
<1> SUFFICES ASSUME Init PROVE XInv
  OBVIOUS
<1>1. IInv BY InitIInv
<1>2. Alone /\ StoresOK /\ RecordOK /\ StatusOK
  BY DEF Init, NoRun, NoEvents, Alone, Passive, StoresOK, RecordOK, StatusOK
<1>3. ASSUME NEW c \in Calls PROVE StageOK(c) /\ AnswerOK(c)
  BY
  DEF Init, NoRun, NoJob, Passive, Handlers, Prelude, Asking, Deciding, Working, Harness,
     Saving,
     Executes, StageOK, FreshOK, LaunchOK, ExecuteOK, EndOK, DecideOK, AnswerOK
<1> QED BY <1>1, <1>2, <1>3 DEF XInv, SInv, Kept, IInv

(* Whichever call takes a step, it is the only one at work; the interrupt    *)
(* that a client may send at any time changes nothing that the others rely   *)
(* on.                                                                       *)
LEMMA StepSequential ==
  ASSUME SInv, Overlap \subseteq {"interrupt"}, NEW c \in Calls, Request(c) \/ Step(c)
  PROVE  SInv' /\ (XInv => XInv')
<1>t. Typed /\ Alone /\ \A d \in Calls : FreshOK(d) BY DEF SInv, Kept, StageOK
<1>k. Kept' BY KeptStep DEF SInv
<1>f. \A d \in Calls \ {c} : pc'[d] = pc[d] /\ job'[d] = job[d] BY <1>t, Frame DEF Typed
<1>g. ckpts.count \in Nat /\ ckpts'.count \in Nat /\ ckpts'.count >= ckpts.count
  BY <1>t, <1>k, RowsGrow DEF Kept, Typed, TypeOK
<1>e. ExecutingIsResumable => ExecutingIsResumable' BY <1>t, ResumableStep
<1>1. CASE /\ UNCHANGED <<run, decision, scope, grants, effects, ckpts, journal>>
           /\ pc[c] \in Passive /\ pc'[c] \in Passive
           /\ job'[c].next = 0 /\ job'[c].result = "none" /\ job'[c].method # "create"
  <2>p. \A d \in Calls : pc[d] \notin Passive => pc'[d] = pc[d]
    BY <1>1, <1>f
  <2>1. Alone' BY <1>1, <1>f, <1>t DEF Alone
  <2>2. StoresOK' BY <1>1 DEF SInv, StoresOK
  <2>3. RecordOK'
    BY <1>1 DEF SInv, RecordOK, NoSkillApproval
  <2>4. FreshOK(c)'
    BY <1>1, <1>g DEF Passive, FreshOK, Executes, Harness, Saving
  <2>5. ASSUME NEW d \in Calls PROVE StageOK(d)' /\ (XInv => AnswerOK(d)')
    <3>1. CASE d = c BY <1>1, <1>k, <2>4, <3>1, PassiveStage DEF Kept
    <3>2. CASE d # c
      <4>1. pc'[d] = pc[d] /\ job'[d] = job[d] BY <1>f, <3>2
      <4>2. StageOK(d)'
        BY <1>1, <4>1 DEF SInv, StageOK, FreshOK, LaunchOK, ExecuteOK, EndOK, DecideOK, Executes
      <4>3. ASSUME XInv PROVE AnswerOK(d)'
        BY <1>1, <4>1, <4>3 DEF XInv, AnswerOK, NoSkillApproval
      <4> QED BY <4>2, <4>3
    <3> QED BY <3>1, <3>2
  <2>6. ASSUME XInv PROVE StatusOK'
    <3>1. \A d \in Calls : pc[d] \in Answering \cup Working \cup {"publish"} => pc'[d] = pc[d]
      BY <2>p DEF Passive, Leaving, Answering, Working, Harness, Saving
    <3> QED BY <1>1, <2>6, <3>1 DEF XInv, StatusOK, Waits, Answering, NoSkillApproval
  <2> QED BY <1>k, <1>e, <2>1, <2>2, <2>3, <2>5, <2>6 DEF SInv, XInv
<1>2. CASE Sole(c)
  <2>1. Alone' BY <1>2, <1>f DEF Alone, Sole
  <2>2. Carried(c) BY <1>2, RequestStep, HandleStep, ExecuteStep DEF Step
  <2>3. ASSUME NEW d \in Calls PROVE StageOK(d)' /\ (XInv => AnswerOK(d)')
    <3>1. CASE d = c BY <2>2, <3>1 DEF Carried, Lives, XInv
    <3>2. CASE d # c
      <4>1. pc'[d] = pc[d] /\ job'[d] = job[d] /\ pc[d] \in Passive
        BY <1>2, <1>f, <3>2 DEF Sole
      <4>2. FreshOK(d)'
        BY <1>t, <1>g, <4>1 DEF FreshOK, Passive, Prelude, Executes, Harness, Saving
      <4> QED BY <1>k, <4>1, <4>2, PassiveStage DEF Kept, Passive
    <3> QED BY <3>1, <3>2
  <2>4. XInv => StatusOK' BY <2>2 DEF Carried, Lives, XInv
  <2> QED BY <1>k, <1>e, <2>1, <2>2, <2>3, <2>4 DEF SInv, XInv, Carried
<1> QED BY <1>1, <1>2, <1>t, SoleStep

(* Nothing changes, nothing is lost.                                         *)
LEMMA StutterSequential ==
  ASSUME SInv, UNCHANGED vars
  PROVE  SInv' /\ (XInv => XInv')
<1>1. Typed' BY NextTyped DEF SInv, Kept
<1>2. UNCHANGED <<run, decision, scope, grants, effects, ckpts, journal, pc, job>>
  BY DEF vars
<1>3. ASSUME NEW c \in Calls
      PROVE  AskedOK(c)' /\ CkptOK(c)' /\ StageOK(c)' /\ (XInv => AnswerOK(c)')
  BY <1>2
  DEF XInv, SInv, Kept, AskedOK, CkptOK, StageOK, FreshOK, LaunchOK, ExecuteOK, EndOK, DecideOK,
     AnswerOK, Executes, NoSkillApproval
<1>4. /\ HistoryOK' /\ ResumableHasCheckpoint' /\ AwaitingNamesApproval' /\ Alone' /\ StoresOK'
      /\ RecordOK' /\ (XInv => ExecutingIsResumable' /\ StatusOK')
  BY <1>2
  DEF XInv, SInv, Kept, HistoryOK, ResumableHasCheckpoint, AwaitingNamesApproval, Alone,
     StoresOK,
     RecordOK, ExecutingIsResumable, StatusOK, Waits, NoSkillApproval
<1> QED BY <1>1, <1>3, <1>4 DEF XInv, SInv, Kept

(* The invariant of a living process is inductive under the client's         *)
(* discipline.                                                               *)
LEMMA NextSequential ==
  ASSUME Overlap \subseteq {"interrupt"}
  PROVE  XInv /\ [Next]_vars => XInv'
<1> SUFFICES ASSUME XInv, [Next]_vars PROVE XInv'
  OBVIOUS
<1>1. CASE Next BY <1>1, StepSequential DEF Next, XInv
<1>2. CASE UNCHANGED vars BY <1>2, StutterSequential DEF XInv
<1> QED BY <1>1, <1>2

-----------------------------------------------------------------------------
(*****************************************************************************)
(* The properties of the run.                                                *)
(*****************************************************************************)
LEMMA AlwaysSequential ==
  ASSUME Overlap \subseteq {"interrupt"}
  PROVE  Spec => []XInv
BY InitSequential, NextSequential, PTL DEF Spec

(* Whoever writes a record finds one that is not over, or leaves its status.     *)
LEMMA StatusStays ==
  ASSUME SInv, NEW c \in Calls, Request(c) \/ Step(c), run.status \in {"completed", "failed"}
  PROVE  run'.status = run.status
<1>1. /\ LaunchOK(c) /\ ExecuteOK(c) /\ DecideOK(c) /\ run \in Runs
  BY DEF SInv, StageOK, Kept, Typed, TypeOK
<1>2. /\ ~Create(c) /\ ~RejectRun(c) /\ ~CancelWrite(c) /\ ~Mark(c) /\ ~WriteOutcome(c)
  BY <1>1
  DEF Create, RejectRun, CancelWrite, Mark, WriteOutcome, LaunchOK, DecideOK, Deciding, Working,
     Harness, Over
<1>3. CASE ApplyDecision(c) BY <1>1, <1>3 DEF ApplyDecision, Decided, Runs
<1>4. CASE NoteCheckpoint(c) BY <1>1, <1>4 DEF NoteCheckpoint, Checkpointed, Runs
<1>5. CASE MarkWaiting(c) BY <1>1, <1>5 DEF MarkWaiting, Waiting, Runs
<1> QED BY <1>2, <1>3, <1>4, <1>5, RunWriters

(* A run that is completed or failed is so for ever: no late execution, no         *)
(* decision on a skill and no cancellation moves it.                           *)
THEOREM SequentialTerminal ==
  ASSUME Overlap \subseteq {"interrupt"}
  PROVE  Spec => TerminalIsFinal
<1>1. XInv /\ [Next]_vars =>
        [run.status \in {"completed", "failed"} => run'.status = run.status]_vars
  BY StatusStays DEF XInv, Next
<1> QED BY <1>1, AlwaysSequential, PTL DEF Spec, TerminalIsFinal

(* A request that was decided is not decided again: who is about to write the      *)
(* decision he read as pending still finds it pending.                          *)
THEOREM SequentialDecision ==
  ASSUME Overlap \subseteq {"interrupt"}
  PROVE  Spec => DecisionIsFinal
<1>1. ASSUME XInv, NEW c \in Calls, Request(c) \/ Step(c), NEW a \in Approvals,
             decision[a] \in {"approved", "rejected"}
      PROVE  decision'[a] = decision[a]
  <2>1. /\ DecideOK(c) /\ JobOK(c)
        /\ decision \in [Approvals -> {"absent", "pending", "approved", "rejected"}]
    BY <1>1 DEF XInv, SInv, StageOK, Kept, Typed, TypeOK
  <2>2. CASE DecideWrite(c) BY <1>1, <2>1, <2>2 DEF DecideWrite, DecideOK, JobOK, Deciding
  <2>3. CASE ~DecideWrite(c)
    BY <1>1, <2>1, <2>3, StoreWriters
    DEF Grant, Record, AskSkillInstall, PerformOperation, AskApproval
  <2> QED BY <2>2, <2>3
<1>2. XInv /\ [Next]_vars =>
        [\A a \in Approvals :
           decision[a] \in {"approved", "rejected"} => decision'[a] = decision[a]]_vars
  BY <1>1 DEF Next
<1> QED BY <1>2, AlwaysSequential, PTL DEF Spec, DecisionIsFinal

(* Every boundary that was crossed was put to the user, who said yes and whose     *)
(* yes still stands.                                                         *)
THEOREM SequentialEffects ==
  ASSUME Overlap \subseteq {"interrupt"}
  PROVE  Spec => []EffectsAreApproved
<1>1. XInv => EffectsAreApproved BY DEF XInv, SInv, StoresOK, EffectsAreApproved
<1> QED BY <1>1, AlwaysSequential, PTL

(* Whenever the client has all its answers, the run is over, or can be resumed,    *)
(* or waits for a decision that is still to be given.                           *)
THEOREM SequentialNoDeadEnd ==
  ASSUME Overlap \subseteq {"interrupt"}
  PROVE  Spec => []NoDeadEnd
<1>1. ASSUME XInv, Quiet, NoSkillApproval, ~Lost
      PROVE  \/ run.status \in {"absent", "completed", "failed"}
             \/ run.status # "awaiting_approval" /\ CanResume(run)
             \/ run.awaiting /\ decision[run.pending] = "pending"
  <2>1. run.status \in Statuses BY <1>1 DEF XInv, SInv, Kept, Typed, TypeOK, Runs
  <2>2. \A c \in Calls : pc[c] \notin Working \cup Leaving \cup Answering
    BY <1>1 DEF Quiet, Active, Dead, Working, Harness, Saving, Leaving, Answering
  <2>3. run.status # "accepted" BY <1>1, <2>2 DEF XInv, StatusOK
  <2>4. CASE run.status \in {"paused", "cancelled"}
    BY <1>1, <2>4 DEF XInv, SInv, StatusOK, RecordOK, CanResume
  <2>6. CASE run.status = "executing"
    <3>1. run.resumable
      BY <1>1, <2>6 DEF XInv, ExecutingIsResumable, Lost, Quiet, Active, Dead
    <3>2. Waits \/ ~run.awaiting BY <1>1, <2>2, <2>6 DEF XInv, StatusOK
    <3> QED BY <2>6, <3>1, <3>2 DEF Waits, CanResume
  <2>5. CASE run.status = "awaiting_approval"
    BY <1>1, <2>2, <2>5 DEF XInv, StatusOK, Waits
  <2> QED BY <2>1, <2>3, <2>4, <2>5, <2>6 DEF Statuses
<1>2. XInv => NoDeadEnd BY <1>1 DEF NoDeadEnd
<1> QED BY <1>2, AlwaysSequential, PTL

(* Whenever the client has all its answers, a restart would rebuild the run as     *)
(* the client knows it, and of a run whose thread died something to go on with.    *)
THEOREM SequentialRecovery ==
  ASSUME Overlap \subseteq {"interrupt"}
  PROVE  Spec => []RecoveryFaithful
<1>0. ASSUME XInv, Quiet
      PROVE  \A c \in Calls : pc[c] \notin Working \cup Leaving \cup Answering \cup {"publish"}
  BY <1>0 DEF Quiet, Active, Dead, Working, Harness, Saving, Leaving, Answering
<1>1. ASSUME XInv, Settled
      PROVE  /\ Recovered.status = run.status
             /\ run.status = "awaiting_approval" => Recovered.pending = run.pending
             /\ CanResume(Recovered) <=> CanResume(run)
             /\ CanReply(Recovered) <=> CanReply(run)
  <2> USE <1>1 DEF Settled, Recovered
  <2>1. run \in Runs /\ journal \in Journals /\ ckpts \in [count : Nat, top : Nat,
  final : BOOLEAN]
    BY <1>1 DEF XInv, SInv, Kept, Typed, TypeOK
  <2>2. \A c \in Calls : pc[c] \notin Working \cup Leaving \cup Answering \cup {"publish"}
    BY <1>0
  <2>3. run.status # "accepted" BY <2>2 DEF XInv, StatusOK
  <2>4. CASE run.status = "completed"
    <3>1. RecoveredStatus(journal, ckpts) = "completed"
      BY <1>1, <2>1, <2>4 DEF XInv, SInv, RecordOK, RecoveredStatus
    <3> QED BY <2>4, <3>1 DEF RecoveredRun, CanResume, CanReply
  <2>5. CASE run.status = "failed"
    <3>1. RecoveredStatus(journal, ckpts) = "failed" BY <1>1, <2>5 DEF RecoveredStatus
    <3> QED BY <2>5, <3>1 DEF RecoveredRun, CanResume, CanReply
  <2>6. CASE run.status = "paused"
    <3>1. run.resumable /\ ~run.awaiting /\ ckpts.count > 0
      BY <1>1, <2>6 DEF XInv, SInv, StatusOK, RecordOK, Kept, ResumableHasCheckpoint
    <3>2. /\ ~journal.open /\ ~ckpts.final /\ journal.last \in {"paused", "other"}
          /\ journal.paused = run.pause
      BY <1>1, <2>2, <2>6 DEF XInv, StatusOK
    <3>3. RecoveredStatus(journal, ckpts) = "paused" BY <3>1, <3>2 DEF RecoveredStatus
    <3> QED BY <2>6, <3>1, <3>2, <3>3 DEF RecoveredRun, RecoveredPause, CanResume, CanReply
  <2>7. CASE run.status = "awaiting_approval"
    <3>1. Waits BY <1>1, <2>2, <2>7 DEF XInv, StatusOK
    <3>2. RecoveredStatus(journal, ckpts) = "awaiting_approval"
      BY <3>1 DEF Waits, Over, RecoveredStatus
    <3> QED BY <2>7, <3>1, <3>2 DEF Waits, RecoveredRun, CanResume, CanReply
  <2> QED BY <1>1, <2>1, <2>3, <2>4, <2>5, <2>6, <2>7 DEF Runs, Statuses
<1>2. ASSUME XInv, Abandoned
      PROVE  /\ run.awaiting <=> Recovered.status = "awaiting_approval"
             /\ run.awaiting => Recovered.pending = run.pending
             /\ CanResume(run) =>
                  CanResume(Recovered) \/ (Recovered.status = "completed" /\ ckpts.final)
  <2> USE <1>2 DEF Abandoned, Recovered
  <2>1. run \in Runs /\ journal \in Journals
    BY DEF XInv, SInv, Kept, Typed, TypeOK
  <2>2. \/ Waits
        \/ ~run.awaiting /\ ~journal.open /\ (run.resumable => journal.last = "other")
    BY <1>0 DEF XInv, StatusOK
  <2>3. CASE Waits
    <3>1. RecoveredStatus(journal, ckpts) = "awaiting_approval"
      BY <2>3 DEF Waits, Over, RecoveredStatus
    <3> QED BY <2>3, <3>1 DEF Waits, RecoveredRun, CanResume
  <2>4. CASE ~run.awaiting /\ ~journal.open /\ (run.resumable => journal.last = "other")
    <3>1. RecoveredStatus(journal, ckpts) # "awaiting_approval" BY <2>4 DEF RecoveredStatus
    <3>2. ASSUME CanResume(run)
          PROVE  CanResume(Recovered) \/ (Recovered.status = "completed" /\ ckpts.final)
      <4>1. journal.last = "other" /\ ckpts.count > 0
        BY <2>4, <3>2 DEF CanResume, XInv, SInv, Kept, ResumableHasCheckpoint
      <4>2. \/ RecoveredStatus(journal, ckpts) = "completed" /\ ckpts.final
            \/ RecoveredStatus(journal, ckpts) = "paused"
        BY <2>4, <4>1 DEF RecoveredStatus
      <4> QED BY <4>1, <4>2 DEF RecoveredRun, CanResume
    <3>3. Recovered.status # "awaiting_approval" BY <3>1 DEF RecoveredRun
    <3> QED BY <2>4, <3>2, <3>3
  <2> QED BY <2>2, <2>3, <2>4
<1>3. XInv => RecoveryFaithful BY <1>1, <1>2 DEF RecoveryFaithful
<1> QED BY <1>3, AlwaysSequential, PTL

-----------------------------------------------------------------------------
(*****************************************************************************)
(* The refinement of GovernedRun.                                            *)
(*****************************************************************************)
(* Whether an executing run is deserted is decided by the threads at work.       *)
LEMMA SamePhase ==
  ASSUME NEW c \in Calls, pc[c] \in Working <=> pc'[c] \in Working,
         \A d \in Calls \ {c} : pc'[d] = pc[d], run'.status = run.status
  PROVE  Phase' = Phase
<1>1. Deserted' <=> Deserted BY DEF Deserted
<1> QED BY <1>1 DEF Phase

(* A step that writes neither a status nor a request is a stutter, unless a    *)
(* thread begins or ends to work on an executing run.                         *)
LEMMA Stutter ==
  ASSUME UNCHANGED <<decision, scope, grants, effects>>, run'.status = run.status
  PROVE  [Governed!Next]_(Governed!gvars)
<1> USE DEF Governed!Next, Governed!gvars
<1>1. UNCHANGED <<AskedOf, grants, effects>> BY DEF AskedOf
<1>2. CASE run.status = "executing"
  <2>1. Phase \in {"working", "stopped"} /\ Phase' \in {"working", "stopped"}
    BY <1>2 DEF Phase, PhaseOf
  <2> QED BY <1>1, <2>1 DEF Governed!Go, Governed!Stop
<1>3. CASE run.status # "executing"
  BY <1>1, <1>3 DEF Phase, Deserted
<1> QED BY <1>2, <1>3

(* Making an approval pending is the abstract Ask.                           *)
LEMMA AskMaps ==
  ASSUME XInv, NEW a \in Approvals, NEW b \in Boundaries \cup {SkillInstall},
         UNCHANGED <<run, grants, effects>>, run.status # "absent", decision[a] = "absent",
         decision' = [decision EXCEPT ![a] = "pending"], scope' = [scope EXCEPT ![a] = b],
         Phase' = Phase
  PROVE  Governed!Ask
<1>1. /\ run.status \in Statuses /\ scope \in [Approvals -> Boundaries \cup {SkillInstall}]
      /\ decision \in [Approvals -> {"absent", "pending", "approved", "rejected"}]
  BY DEF XInv, SInv, Kept, Typed, TypeOK, Runs
<1>2. AskedOf' = AskedOf \cup {b}
  <2>1. {x \in Approvals : decision'[x] # "absent"}
          = {x \in Approvals : decision[x] # "absent"} \cup {a}
    BY <1>1
  <2> QED BY <1>1, <2>1 DEF AskedOf
<1>3. Phase # "none" BY <1>1 DEF Phase, PhaseOf, Statuses
<1> QED BY <1>2, <1>3 DEF Governed!Ask

(* Every step of a call is a step of the governed run, or none.                  *)
LEMMA StepMaps ==
  ASSUME XInv, NEW c \in Calls, Request(c) \/ Step(c)
  PROVE  [Governed!Next]_(Governed!gvars)
<1> USE DEF Governed!Next, Governed!gvars
<1>1. /\ run \in Runs /\ job[c] \in Jobs /\ JobOK(c) /\ AskedOK(c) /\ StageOK(c) /\ AnswerOK(c)
      /\ decision \in [Approvals -> {"absent", "pending", "approved", "rejected"}]
      /\ pc \in [Calls -> PCs] /\ Alone
  BY DEF XInv, SInv, Kept, Typed, TypeOK
<1>f. \A d \in Calls \ {c} : pc'[d] = pc[d] BY <1>1, Frame DEF XInv, SInv, Kept, Typed
<1>2. CASE Create(c)
  <2>1. Phase = "none" /\ Phase' = "working"
    BY <1>2 DEF Create, Accepted, NoRun, Phase, Deserted, PhaseOf
  <2>2. UNCHANGED <<AskedOf, grants, effects>> BY <1>2 DEF Create, AskedOf
  <2> QED BY <2>1, <2>2 DEF Governed!Go
<1>3. CASE Mark(c)
  <2>1. run.status \notin {"absent", "completed", "failed"} /\ run'.status = "executing"
    BY <1>1, <1>3 DEF Mark, Executing, Runs, StageOK, LaunchOK, Over, Passive
  <2>2. UNCHANGED <<AskedOf, grants, effects>> BY <1>3 DEF Mark, durable, AskedOf
  <2>4. pc'[c] \in Working BY <1>1, <1>3 DEF Mark, Goto, Working, Harness
  <2>3. Phase \in {"working", "stopped"} /\ Phase' = "working"
    BY <1>1, <2>1, <2>4 DEF Phase, Deserted, PhaseOf, Runs, Statuses
  <2> QED BY <2>2, <2>3 DEF Governed!Go
<1>4. CASE WriteOutcome(c)
  <2>1. /\ run.status = "executing"
        /\ run'.status \in {"completed", "failed", "paused", "awaiting_approval"}
    BY <1>1, <1>4
    DEF WriteOutcome, Outcome, Completed, Failed, AwaitingApproval, Waiting, Suspended,
       Runs, StageOK, ExecuteOK, Executes, Harness
  <2>2. UNCHANGED <<AskedOf, grants, effects>> BY <1>4 DEF WriteOutcome, durable, AskedOf
  <2>3. Phase = "working" /\ Phase' \in {"stopped", "over"}
    BY <1>4, <2>1 DEF WriteOutcome, Phase, Deserted, PhaseOf, Working, Harness
  <2> QED BY <2>2, <2>3 DEF Governed!Stop, Governed!Finish
<1>5. CASE CancelWrite(c)
  <2>1. run.status \notin {"absent", "completed", "failed"} /\ run'.status = "cancelled"
    BY <1>1, <1>5 DEF CancelWrite, Cancelled, Runs, StageOK, LaunchOK, Over, Passive, Working
  <2>2. UNCHANGED <<AskedOf, grants, effects>> BY <1>5 DEF CancelWrite, durable, AskedOf
  <2>3. Phase \in {"working", "stopped"} /\ Phase' = "stopped"
    BY <1>1, <2>1 DEF Phase, Deserted, PhaseOf, Runs, Statuses
  <2> QED BY <2>2, <2>3 DEF Governed!Stop
<1>6. CASE RejectRun(c)
  <2>1. run.status \in {"executing", "awaiting_approval"} /\ run'.status = "failed"
    BY <1>1, <1>6 DEF RejectRun, Failed, Runs, StageOK, DecideOK, Deciding
  <2>2. UNCHANGED <<AskedOf, grants, effects>> BY <1>6 DEF RejectRun, durable, AskedOf
  <2>3. Phase \in {"working", "stopped"} /\ Phase' = "over"
    BY <2>1 DEF Phase, Deserted, PhaseOf
  <2> QED BY <2>2, <2>3 DEF Governed!Finish
<1>7. CASE ApplyDecision(c) \/ NoteCheckpoint(c) \/ MarkWaiting(c)
  <2>1. run'.status = run.status /\ UNCHANGED <<decision, scope, grants, effects>>
    BY <1>1, <1>7
    DEF ApplyDecision, Decided, NoteCheckpoint, Checkpointed, MarkWaiting, Waiting, Runs,
       durable
  <2> QED BY <2>1, Stutter
<1>8. CASE UNCHANGED run
  <2>1. CASE UNCHANGED <<decision, scope, grants, effects, ckpts>> BY <1>8, <2>1, Stutter
  <2>2. CASE Record(c) BY <1>8, <2>2, Stutter DEF Record
  <2>3. CASE DecideWrite(c)
    <3>1. /\ decision[job[c].target] # "absent" /\ job[c].arg # "absent"
          /\ job[c].target \in Approvals
          /\ decision' = [decision EXCEPT ![job[c].target] = job[c].arg]
          /\ UNCHANGED <<scope, grants, effects>>
      BY <1>1, <2>3 DEF DecideWrite, JobOK, AskedOK, Deciding
    <3>2. {x \in Approvals : decision'[x] # "absent"} = {x \in Approvals : decision[x] # "absent"}
      BY <1>1, <3>1
    <3>3. Phase' = Phase
      BY <1>1, <1>f, <1>8, <2>3, SamePhase
      DEF DecideWrite, Goto, Working, Harness, Saving
    <3> QED BY <3>1, <3>2, <3>3 DEF AskedOf
  <2>4. CASE Grant(c)
    <3>1. /\ job[c].target \in Approvals /\ decision[job[c].target] # "absent"
          /\ run.status \notin {"absent", "accepted"}
      BY <1>1, <2>4 DEF Grant, JobOK, AskedOK, AnswerOK, Deciding
    <3>2. scope[job[c].target] \in AskedOf BY <3>1 DEF AskedOf
    <3>5. \A d \in Calls : pc[d] \notin Working
      BY <1>1, <2>4 DEF Grant, Alone, Passive, Working, Harness, Saving
    <3>3. Phase \in {"stopped", "over"}
      BY <1>1, <3>1, <3>5 DEF Phase, Deserted, PhaseOf, Runs, Statuses
    <3>6. Phase' = Phase
      BY <1>1, <1>f, <1>8, <2>4, SamePhase DEF Grant, Goto, Working, Harness, Saving
    <3>4. /\ grants' = grants \cup {scope[job[c].target]}
          /\ UNCHANGED <<AskedOf, effects>>
      BY <2>4 DEF Grant, AskedOf
    <3> QED BY <3>2, <3>3, <3>4, <3>6 DEF Governed!Consent
  <2>5. ASSUME NEW a \in Approvals, AskSkillInstall(c, a) PROVE Governed!Ask
    <3>1. Phase' = Phase
      BY <1>1, <1>f, <1>8, <2>5, SamePhase
      DEF AskSkillInstall, Arrive, Working, Harness, Saving
    <3> QED BY <2>5, <3>1, AskMaps DEF AskSkillInstall, memory
  <2>6. ASSUME NEW b \in Boundaries \cup {SkillInstall}, PerformOperation(c,
  b) PROVE Governed!Cross
    <3>1. run.status = "executing"
      BY <1>1, <2>6 DEF PerformOperation, StageOK, ExecuteOK, Executes, Harness
    <3>2. UNCHANGED <<run, AskedOf, grants>> /\ b \in grants /\ effects' = effects \cup {b}
      BY <2>6 DEF PerformOperation, AskedOf, memory
    <3>3. Phase = "working"
      BY <2>6, <3>1 DEF PerformOperation, Phase, Deserted, PhaseOf, Working, Harness
    <3>4. Phase' = Phase BY <1>f, <1>8, <2>6, SamePhase DEF PerformOperation
    <3> QED BY <3>2, <3>3, <3>4 DEF Governed!Cross
  <2>7. ASSUME NEW b \in Boundaries \cup {SkillInstall}, NEW a \in Approvals, AskApproval(c, b,
  a)
        PROVE  Governed!Ask
    <3>1. run.status = "executing"
      BY <1>1, <2>7 DEF AskApproval, StageOK, ExecuteOK, Executes, Harness
    <3>2. Phase' = Phase
      BY <1>1, <1>f, <1>8, <2>7, SamePhase DEF AskApproval, Goto, Working, Harness
    <3> QED BY <2>7, <3>1, <3>2, AskMaps DEF AskApproval, memory
  <2> QED BY <2>1, <2>2, <2>3, <2>4, <2>5, <2>6, <2>7, StoreWriters
<1> QED BY <1>2, <1>3, <1>4, <1>5, <1>6, <1>7, <1>8, RunWriters

(* Every behaviour of the calls on a run is one of the governed run: the agent      *)
(* crosses only what the user consented to, and he consents only while it is still.   *)
THEOREM SequentialRefinement ==
  ASSUME Overlap \subseteq {"interrupt"}
  PROVE  Spec => ImplementsGovernedRun
<1>1. Init => Governed!Init
  BY DEF Init, NoRun, Phase, Deserted, PhaseOf, AskedOf, Governed!Init
<1>2. XInv /\ [Next]_vars => [Governed!Next]_(Governed!gvars)
  <2> SUFFICES ASSUME XInv, [Next]_vars PROVE [Governed!Next]_(Governed!gvars)
    OBVIOUS
  <2>1. CASE Next BY <2>1, StepMaps DEF Next
  <2>2. CASE UNCHANGED vars BY <2>2, Stutter DEF vars
  <2> QED BY <2>1, <2>2
<1> QED BY <1>1, <1>2, AlwaysSequential, PTL DEF Spec, ImplementsGovernedRun, Governed!Spec

-----------------------------------------------------------------------------
(*****************************************************************************)
(* What a recovery makes of a history.                                        *)
(*****************************************************************************)
LEMMA RecoveredTypes ==
  ASSUME NEW j \in Journals, NEW ck \in [count : Nat, top : Nat, final : BOOLEAN]
  PROVE  RecoveredRun(j, ck) \in Runs /\ Rediscovered(j, ck) \in Journals
<1>1. RecoveredStatus(j, ck) \in
        {"completed", "failed", "awaiting_approval", "paused", "executing"}
  BY DEF RecoveredStatus
<1>2. RecoveredRun(j, ck) \in Runs
  BY <1>1 DEF RecoveredRun, RecoveredPause, Runs, Statuses, Journals, PauseReasons
<1>3. Plain("other") \in Event BY EventType DEF EventTypes
<1>4. Rediscovered(j, ck) \in Journals BY <1>3, JournalType DEF Rediscovered
<1> QED BY <1>2, <1>4

(* The event that a recovery appends is read over by the next one, unless a run     *)
(* that is paused has the checkpoint of a completed one.                        *)
LEMMA RecoveredTwice ==
  ASSUME NEW j \in Journals, NEW ck \in [count : Nat, top : Nat, final : BOOLEAN],
         j.last = "paused" => ~ck.final
  PROVE  RecoveredRun(Rediscovered(j, ck), ck) = RecoveredRun(j, ck)
<1>1. CASE ~RecoveredRun(j, ck).resumable BY <1>1 DEF Rediscovered
<1>2. CASE RecoveredRun(j, ck).resumable
  <2>1. Rediscovered(j, ck) = [j EXCEPT !.last = "other"]
    BY <1>2 DEF Rediscovered, AppendEvent, Plain, Journals
  <2>2. RecoveredStatus(j, ck) \in {"paused", "awaiting_approval"} /\ ck.count > 0
    BY <1>2 DEF RecoveredRun
  <2>3. RecoveredStatus([j EXCEPT !.last = "other"], ck) = RecoveredStatus(j, ck)
    BY <2>2 DEF RecoveredStatus, Journals
  <2> QED BY <2>1, <2>3 DEF RecoveredRun, RecoveredPause, Journals
<1> QED BY <1>1, <1>2

-----------------------------------------------------------------------------
(*****************************************************************************)
(* For any client.                                                           *)
(*****************************************************************************)
(* A crash leaves every thread idle or done, with no local variables.            *)
LEMMA NoThreads ==
  ASSUME Kept, Crash
  PROVE  /\ \A c \in Calls : pc'[c] \in {"idle", "done"} /\ job'[c] = NoJob
         /\ run' = RecoveredRun(journal, ckpts) /\ journal' = Rediscovered(journal, ckpts)
         /\ UNCHANGED <<decision, scope, grants, effects, ckpts>>
         /\ journal \in Journals /\ ckpts \in [count : Nat, top : Nat, final : BOOLEAN]
         /\ Typed'
<1>1. TypeOK BY DEF Kept, Typed
<1>2. \A c \in Calls : pc'[c] \in {"idle", "done"} /\ job'[c] = NoJob BY DEF Crash
<1>3. run' \in Runs /\ journal' \in Journals
  BY <1>1, RecoveredTypes DEF Crash, TypeOK
<1>4. NoJob \in Jobs BY DEF NoJob, Jobs, Results
<1>5. TypeOK' BY <1>1, <1>3, <1>4, PCNames DEF Crash, TypeOK
<1>6. \A c \in Calls : JobOK(c)' BY <1>2 DEF JobOK, NoJob, Saving, Asking, Deciding
<1> QED BY <1>1, <1>2, <1>5, <1>6 DEF Crash, Typed, TypeOK

(* What the history of a run asks for.                                         *)
LEMMA RecoveredWaits ==
  ASSUME NEW j \in Journals, NEW ck
  PROVE  /\ RecoveredRun(j, ck).awaiting => j.open /\ RecoveredRun(j, ck).pending = j.asked
         /\ RecoveredRun(j, ck).resumable => ck.count > 0
         /\ Rediscovered(j, ck).open = j.open /\ Rediscovered(j, ck).asked = j.asked
<1>1. RecoveredStatus(j, ck) = "awaiting_approval" => j.open BY DEF RecoveredStatus, Journals
<1> QED BY <1>1 DEF RecoveredRun, Rediscovered, AppendEvent, Plain, Journals

(* What holds under any client is kept by a crash: the threads are gone,     *)
(* and what is left is what was durable.                                     *)
LEMMA CrashKept ==
  ASSUME Kept, Crash
  PROVE  Kept'
<1>1. \A c \in Calls : AskedOK(c)' /\ CkptOK(c)'
  BY NoThreads DEF AskedOK, CkptOK, NoJob, Asking, Deciding
<1>t. /\ journal'.open = journal.open /\ journal'.asked = journal.asked
      /\ run'.awaiting => journal.open /\ run'.pending = journal.asked
      /\ run'.resumable => ckpts.count > 0
      /\ decision' = decision /\ ckpts' = ckpts
  <2>1. /\ run' = RecoveredRun(journal, ckpts) /\ journal' = Rediscovered(journal, ckpts)
        /\ journal \in Journals /\ decision' = decision /\ ckpts' = ckpts
    BY NoThreads
  <2> QED BY <2>1, RecoveredWaits
<1>2. HistoryOK' BY <1>t DEF Kept, HistoryOK
<1>3. ResumableHasCheckpoint' BY <1>t DEF ResumableHasCheckpoint
<1>4. AwaitingNamesApproval' BY <1>t DEF Kept, HistoryOK, AwaitingNamesApproval
<1> QED BY NoThreads, <1>1, <1>2, <1>3, <1>4 DEF Kept

(* The invariants of the stores do not need the threads that wrote them.          *)
LEMMA AlwaysKept == RSpec => [](Kept /\ EffectsWereAsked)
<1>1. RInit => Kept /\ EffectsWereAsked BY InitIInv DEF RInit, IInv
<1>2. Kept /\ EffectsWereAsked /\ [RNext]_rvars => (Kept /\ EffectsWereAsked)'
  <2> SUFFICES ASSUME Kept, EffectsWereAsked, [RNext]_rvars PROVE Kept' /\ EffectsWereAsked'
    OBVIOUS
  <2>1. ASSUME NEW c \in Calls, Request(c) \/ Step(c) PROVE Kept' /\ EffectsWereAsked'
    BY <2>1, KeptStep, EffectsStep DEF Kept
  <2>2. CASE Crash
    BY <2>2, CrashKept, NoThreads DEF EffectsWereAsked
  <2>3. CASE UNCHANGED vars
    <3>1. Typed' BY <2>3, NextTyped DEF Kept
    <3> QED BY <2>3, <3>1 DEF vars, Kept, AskedOK, CkptOK, HistoryOK, ResumableHasCheckpoint,
               AwaitingNamesApproval, EffectsWereAsked
  <2> QED BY <2>1, <2>2, <2>3 DEF RNext, Next, rvars
<1> QED BY <1>1, <1>2, PTL DEF RSpec

(* After any number of crashes and with calls that overlap in every way: a run that   *)
(* can be resumed has a checkpoint, one that waits names a stored request, and       *)
(* what was crossed had been asked for and decided.                             *)
THEOREM SafeUnderAnyClientAndCrash ==
  RSpec => [](ResumableHasCheckpoint /\ AwaitingNamesApproval /\ EffectsWereAsked)
<1>1. Kept /\ EffectsWereAsked =>
        ResumableHasCheckpoint /\ AwaitingNamesApproval /\ EffectsWereAsked
  BY DEF Kept
<1> QED BY <1>1, AlwaysKept, PTL

-----------------------------------------------------------------------------
(*****************************************************************************)
(* For a client that waits for its calls.                                     *)
(*****************************************************************************)
LEMMA CrashSequential ==
  ASSUME SInv, Crash
  PROVE  SInv'
<1>k. Kept BY DEF SInv
<1>1. Kept' BY <1>k, CrashKept
<1>2. \A c \in Calls : pc'[c] \in {"idle", "done"} /\ job'[c] = NoJob BY <1>k, NoThreads
<1>t. /\ run' = RecoveredRun(journal, ckpts) /\ journal' = Rediscovered(journal, ckpts)
      /\ UNCHANGED <<decision, scope, grants, effects, ckpts>>
      /\ journal \in Journals /\ ckpts \in [count : Nat, top : Nat, final : BOOLEAN]
  BY <1>k, NoThreads
<1>3. Alone' BY <1>2 DEF Alone, Passive
<1>r. RecoveredStatus(journal, ckpts) \in
        {"completed", "failed", "awaiting_approval", "paused", "executing"}
  BY DEF RecoveredStatus
<1>j. /\ Rediscovered(journal, ckpts).open = journal.open
      /\ \/ Rediscovered(journal, ckpts) = journal
         \/ /\ Rediscovered(journal, ckpts).last = "other"
            /\ RecoveredRun(journal, ckpts).resumable
  BY <1>t, RecoveredWaits DEF Rediscovered, AppendEvent, Plain
<1>4. StoresOK' BY <1>t, <1>j DEF SInv, StoresOK
<1>5. RecordOK'
  <2>1. /\ run'.status \in {"completed", "failed", "awaiting_approval", "paused", "executing"}
        /\ run'.awaiting <=> run'.status = "awaiting_approval"
        /\ run'.pending # NoApproval => run'.awaiting
        /\ run'.status = RecoveredStatus(journal, ckpts)
    BY <1>t, <1>r DEF RecoveredRun
  <2>2. journal'.last = "completed" => run'.status = "completed"
    BY <1>t, <1>j, <2>1 DEF RecoveredStatus
  <2>3. ASSUME run'.status = "completed", NoSkillApproval'
        PROVE  /\ ~journal'.open /\ journal'.last \in {"completed", "other"}
               /\ ckpts'.count > 0 /\ ckpts'.final
    <3>1. NoSkillApproval BY <1>t, <2>3 DEF NoSkillApproval
    <3>2. \/ journal.last = "completed"
          \/ journal.last = "other" /\ ~journal.open /\ ckpts.count > 0 /\ ckpts.final
      BY <1>t, <2>1, <2>3 DEF RecoveredStatus
    <3>3. journal' = journal BY <1>t, <2>1, <2>3 DEF Rediscovered, RecoveredRun
    <3> QED BY <1>t, <3>1, <3>2, <3>3 DEF SInv, RecordOK
  <2> QED BY <2>1, <2>2, <2>3 DEF RecordOK
<1>6. ASSUME NEW c \in Calls PROVE StageOK(c)'
  <2>1. ckpts' \in [count : Nat, top : Nat, final : BOOLEAN] BY <1>t
  <2>2. FreshOK(c)' BY <1>2, <2>1 DEF FreshOK, NoJob, Handlers, Executes, Harness, Saving
  <2> QED BY <1>1, <1>2, <2>2, PassiveStage DEF Kept, Passive
<1> QED BY <1>1, <1>3, <1>4, <1>5, <1>6 DEF SInv

(* The sequential invariant is inductive across crashes and recoveries.      *)
LEMMA NextCrash ==
  ASSUME Overlap \subseteq {"interrupt"}
  PROVE  SInv /\ [RNext]_rvars => SInv'
<1> SUFFICES ASSUME SInv, [RNext]_rvars PROVE SInv'
  OBVIOUS
<1>1. CASE Next BY <1>1, StepSequential DEF Next
<1>2. CASE Crash BY <1>2, CrashSequential
<1>3. CASE UNCHANGED vars BY <1>3, StutterSequential
<1> QED BY <1>1, <1>2, <1>3 DEF RNext, rvars

(* It holds in every state of a run that crashes and recovers.               *)
LEMMA AlwaysAcrossCrashes ==
  ASSUME Overlap \subseteq {"interrupt"}
  PROVE  RSpec => []SInv
<1>1. RInit => SInv BY InitSequential DEF RInit, XInv
<1> QED BY <1>1, NextCrash, PTL DEF RSpec

(* However often the process dies: what was done had been allowed, and a run that     *)
(* can be resumed or waits for an approval has what it needs for it.               *)
THEOREM SafeAlways ==
  ASSUME Overlap \subseteq {"interrupt"}
  PROVE  RSpec => []SafeAcrossCrashes
<1>1. SInv => SafeAcrossCrashes
  BY DEF SInv, Kept, StoresOK, SafeAcrossCrashes, EffectsAreApproved
<1> QED BY <1>1, AlwaysAcrossCrashes, PTL

(* A process that dies during its recovery recovers the same run again.             *)
THEOREM RecoveryAgain ==
  ASSUME Overlap \subseteq {"interrupt"}
  PROVE  RSpec => []RecoveryIdempotent
<1>1. SInv => RecoveryIdempotent
  BY RecoveredTwice DEF SInv, Kept, Typed, TypeOK, StoresOK, RecoveryIdempotent
<1> QED BY <1>1, AlwaysAcrossCrashes, PTL

(* A run that was seen completed is so after every crash, whichever step of its end   *)
(* the process died at: the checkpoint run_completed is written before the record.   *)
THEOREM CompletedStays ==
  ASSUME Overlap \subseteq {"interrupt"}
  PROVE  RSpec => CompletedSurvives
<1>1. ASSUME SInv, [RNext]_rvars, run.status = "completed", NoSkillApproval
      PROVE  run'.status = "completed"
  <2>1. CASE Next BY <1>1, <2>1, StatusStays DEF Next
  <2>2. CASE Crash
    <3>1. RecoveredStatus(journal, ckpts) = "completed"
      BY <1>1 DEF SInv, RecordOK, RecoveredStatus
    <3> QED BY <2>2, <3>1 DEF Crash, RecoveredRun
  <2>3. CASE UNCHANGED vars BY <1>1, <2>3 DEF vars
  <2> QED BY <1>1, <2>1, <2>2, <2>3 DEF RNext, rvars
<1>2. SInv /\ [RNext]_rvars =>
        [run.status = "completed" /\ NoSkillApproval => run'.status = "completed"]_rvars
  BY <1>1
<1> QED BY <1>2, AlwaysAcrossCrashes, PTL DEF RSpec, CompletedSurvives
=============================================================================
