--------------------------- MODULE RunLifecycleProofs ---------------------------
(*****************************************************************************)
(* Proofs about RunLifecycle for every set of calls, approvals and boundaries *)
(* and every discipline of the client (Overlap).                             *)
(*****************************************************************************)
EXTENDS RunLifecycle, TLAPS

(*****************************************************************************)
(* The inductive invariant: what each call may rely on at each point of its   *)
(* handler or execution, whatever the other calls do, and the four invariants *)
(* of the runs.                                                              *)
(*****************************************************************************)
Asking   == {"askState", "askPublish"}
Deciding == {"decideRead", "decideWrite", "decided", "grant", "rejectState"}

(* The local variables that a step reads were set by the steps before it.     *)
JobOK(c) ==
  /\ pc[c] \in Saving => job[c].then \in {"running", "settle", "cancelRead", "cancelWrite"}
  /\ pc[c] \in Asking \cup Deciding => job[c].target \in Approvals
  /\ pc[c] \in Deciding => job[c].arg \in {"approved", "rejected"}
  /\ pc[c] \in {"signal", "signalNow"} => job[c].arg \in {"bare", "reason"}
  /\ pc[c] = "skillPublish" /\ job[c].arg = "asked" => job[c].target \in Approvals
  /\ job[c].result = "approval" => job[c].target \in Approvals

(* The request a call is about is in the approval store, decided or not.      *)
AskedOK(c) ==
  /\ pc[c] \in Asking \cup Deciding => decision[job[c].target] # "absent"
  /\ pc[c] \in {"decided", "grant", "rejectState"} => decision[job[c].target] # "pending"
  /\ pc[c] = "skillPublish" /\ job[c].arg = "asked" => decision[job[c].target] # "absent"
  /\ job[c].result = "approval" => decision[job[c].target] # "absent"

(* An execution that got past its first checkpoint has one to come back to,   *)
(* and so has one that is about to be cancelled.                             *)
CkptOK(c) ==
  /\ pc[c] \in {"note", "notePublish", "running", "settle", "write", "cancelWrite"} \cup Asking
       => ckpts.count > 0
  /\ job[c].result = "cancelled" => pc[c] = "record" \/ ckpts.count > 0

Typed == TypeOK /\ \A c \in Calls : JobOK(c)

(* The history asks only for what is stored.                                  *)
HistoryOK ==
  journal.open => journal.asked \in Approvals /\ decision[journal.asked] # "absent"

(* What holds with and without the threads.                                   *)
Kept ==
  /\ Typed
  /\ \A c \in Calls : AskedOK(c) /\ CkptOK(c)
  /\ HistoryOK
  /\ ResumableHasCheckpoint
  /\ AwaitingNamesApproval

IInv == Kept /\ ExecutingIsResumable /\ EffectsWereAsked

-----------------------------------------------------------------------------
(* The changes that the handlers make keep a record a record.                 *)
LEMMA RecordTypes ==
  ASSUME NEW s \in Runs, NEW a \in Approvals, NEW why \in PauseReasons
  PROVE  /\ Accepted \in Runs /\ Executing(s) \in Runs /\ Checkpointed(s) \in Runs
         /\ Waiting(s, a) \in Runs /\ AwaitingApproval(s, a) \in Runs
         /\ Suspended(s, why) \in Runs /\ Completed(s) \in Runs /\ Failed(s) \in Runs
         /\ Cancelled(s, why) \in Runs /\ Decided(s) \in Runs
<1>1. Accepted \in Runs BY DEF Accepted, NoRun, Runs, Statuses, PauseReasons
<1>2. Executing(s) \in Runs BY DEF Executing, Runs, Statuses, PauseReasons
<1>3. Checkpointed(s) \in Runs BY DEF Checkpointed, Runs
<1>4. Waiting(s, a) \in Runs BY DEF Waiting, Runs, PauseReasons
<1>5. AwaitingApproval(s, a) \in Runs BY <1>4 DEF AwaitingApproval, Runs, Statuses
<1>6. Suspended(s, why) \in Runs BY DEF Suspended, Runs, Statuses
<1>7. Completed(s) \in Runs BY DEF Completed, Runs, Statuses, PauseReasons
<1>8. Failed(s) \in Runs BY DEF Failed, Runs, Statuses, PauseReasons
<1>9. Cancelled(s, why) \in Runs BY DEF Cancelled, Runs, Statuses
<1>10. Decided(s) \in Runs BY DEF Decided, Runs
<1> QED BY <1>1, <1>2, <1>3, <1>4, <1>5, <1>6, <1>7, <1>8, <1>9, <1>10

(* The pause reason of a result of the agent is one that a run may have.     *)
LEMMA PauseReasonType ==
  ASSUME NEW result \in Results
  PROVE  PauseReason(result) \in PauseReasons
BY DEF PauseReason, PauseReasons, Results

(* The outcome of an execution is a record, if it names an approval when it   *)
(* says that it waits for one.                                               *)
LEMMA OutcomeType ==
  ASSUME NEW s \in Runs, NEW j \in Jobs, j.result = "approval" => j.target \in Approvals
  PROVE  Outcome(s, j) \in Runs
<1>1. j.result \in Results BY DEF Jobs
<1>2. CASE j.result = "approval"
  <2>1. Outcome(s, j) = AwaitingApproval(s, j.target) BY <1>2 DEF Outcome
  <2> QED BY <2>1, <1>2, RecordTypes DEF PauseReasons
<1>3. CASE j.result # "approval"
  <2>1. PauseReason(j.result) \in PauseReasons BY <1>1, PauseReasonType
  <2>2. Outcome(s, j) \in {Completed(s), Failed(s), Suspended(s, PauseReason(j.result))}
    BY <1>3 DEF Outcome
  <2>3. /\ Completed(s) \in Runs /\ Failed(s) \in Runs
        /\ Suspended(s, PauseReason(j.result)) \in Runs
    BY <2>1 DEF Runs, Statuses, PauseReasons, Completed, Failed, Suspended
  <2> QED BY <2>2, <2>3
<1> QED BY <1>2, <1>3

(* Appending an event to a history gives a history.                           *)
LEMMA JournalType ==
  ASSUME NEW j \in Journals, NEW e \in Event
  PROVE  AppendEvent(j, e) \in Journals
BY DEF Journals, Event, EventTypes, AppendEvent

(* The events that the handlers publish are events of the history.           *)
LEMMA EventType ==
  /\ \A t \in EventTypes \ {"none"} : Plain(t) \in Event
  /\ \A a \in Approvals : Asked(a) \in Event
  /\ \A why \in PauseReasons : Paused(why) \in Event
BY DEF Event, EventTypes, PauseReasons, Plain, Asked, Paused

(* A checkpoint is one more row.                                             *)
LEMMA SavedType ==
  ASSUME NEW ck \in [count : Nat, top : Nat, final : BOOLEAN], NEW index \in Nat,
         NEW final \in BOOLEAN
  PROVE  /\ Saved(ck, index, final) \in [count : Nat, top : Nat, final : BOOLEAN]
         /\ Saved(ck, index, final).count > 0
BY DEF Saved

-----------------------------------------------------------------------------
(*****************************************************************************)
(* Type correctness.                                                         *)
(*****************************************************************************)
(* The program points by name.                                               *)
LEMMA PCNames ==
  PCs = {"idle", "done", "begin", "mark", "publish", "clear", "replying", "signal",
         "signalNow", "decideRead", "decideWrite", "decided", "grant", "resumeCheck",
         "rejectState", "skillPublish", "cancelRead", "cancelWrite", "cancelPublish",
         "record", "note", "notePublish", "announce", "enter", "running", "askState",
         "askPublish", "settle", "write", "stranded", "lost"}
BY DEF PCs, Handlers, Transition, Saving, Harness, Dead

(* A call that arrives has a place and a job of their types.                 *)
LEMMA ArriveType ==
  ASSUME TypeOK, NEW c \in Calls, NEW method \in Methods,
         NEW arg \in {"none", "bare", "reason", "approved", "rejected", "installed", "asked"},
         NEW target \in Approvals \cup {NoApproval}, NEW to \in PCs,
         Arrive(c, method, arg, target, to)
  PROVE  pc' \in [Calls -> PCs] /\ job' \in [Calls -> Jobs]
<1>1. [NoJob EXCEPT !.method = method, !.arg = arg, !.target = target] \in Jobs
  BY DEF NoJob, Jobs, Results
<1> QED BY <1>1 DEF Arrive, TypeOK

(* A step of a handler leads to a place of a handler.                        *)
LEMMA GotoType ==
  ASSUME TypeOK, NEW c \in Calls, NEW to \in PCs, Goto(c, to)
  PROVE  pc' \in [Calls -> PCs]
BY DEF Goto, TypeOK

(* A call that is over has no local variables any more.                      *)
LEMMA EndType ==
  ASSUME TypeOK, NEW c \in Calls, NEW how \in {"done", "stranded", "lost"}, End(c, how)
  PROVE  pc' \in [Calls -> PCs] /\ job' \in [Calls -> Jobs]
<1>1. NoJob \in Jobs BY DEF NoJob, Jobs, Results
<1> QED BY <1>1, PCNames DEF End, TypeOK

(* A call that starts to write a checkpoint keeps its types.                 *)
LEMMA SaveType ==
  ASSUME TypeOK, NEW c \in Calls, NEW result \in Results, NEW then \in {"running", "settle", "cancelRead"},
         Save(c, result, then)
  PROVE  pc' \in [Calls -> PCs] /\ job' \in [Calls -> Jobs]
<1>1. pc' \in [Calls -> PCs] BY PCNames DEF Save, Goto, TypeOK
<1>2. job[c] \in Jobs BY DEF TypeOK
<1>3. [job[c] EXCEPT !.result = result, !.then = then] \in Jobs BY <1>2 DEF Jobs
<1>4. job' = [job EXCEPT ![c] = [job[c] EXCEPT !.result = result, !.then = then]]
  BY <1>2 DEF Save, TypeOK
<1> QED BY <1>1, <1>3, <1>4 DEF TypeOK

(* The history stays a history when an event is appended.                    *)
LEMMA PublishType ==
  ASSUME TypeOK, NEW e \in Event, Publish(e)
  PROVE  journal' \in Journals
BY JournalType DEF Publish, TypeOK

(* A step of one call leaves the others where they are.                      *)
LEMMA Frame ==
  ASSUME TypeOK, NEW c \in Calls, Request(c) \/ Step(c)
  PROVE  \A d \in Calls \ {c} : pc'[d] = pc[d] /\ job'[d] = job[d]
<1> USE DEF TypeOK, Arrive, Goto, Return, End, Save
<1>1. CASE Request(c)
  BY ZenonT(60), <1>1 DEF Request, Create, Resume, Reply, InstallSkill, Interrupt, Cancel, Approve,
     AskSkillInstall
<1>2. CASE Handle(c)
  <2>1. CASE ClearCancellation(c) BY <2>1 DEF ClearCancellation
  <2>2. CASE ReplyLaunch(c) BY <2>2 DEF ReplyLaunch
  <2>3. CASE Signal(c) BY <2>3 DEF Signal
  <2>4. CASE DecideRead(c) BY <2>4 DEF DecideRead
  <2>5. CASE DecideWrite(c) BY <2>5 DEF DecideWrite
  <2>6. CASE ApplyDecision(c) BY <2>6 DEF ApplyDecision
  <2>7. CASE Grant(c) BY <2>7 DEF Grant
  <2>8. CASE ResumeApproved(c) BY <2>8 DEF ResumeApproved
  <2>9. CASE RejectRun(c) BY <2>9 DEF RejectRun
  <2>10. CASE PublishSkill(c) BY <2>10 DEF PublishSkill
  <2>11. CASE CancelRead(c) BY <2>11 DEF CancelRead
  <2>12. CASE CancelWrite(c) BY <2>12 DEF CancelWrite
  <2>13. CASE PublishCancelled(c) BY <2>13 DEF PublishCancelled
  <2> QED BY <1>2, <2>1, <2>2, <2>3, <2>4, <2>5, <2>6, <2>7, <2>8, <2>9,
       <2>10, <2>11, <2>12, <2>13 DEF Handle
<1>3. CASE Execute(c)
  <2>1. CASE Begin(c) BY <2>1 DEF Begin
  <2>2. CASE Mark(c) BY <2>2 DEF Mark
  <2>3. CASE Announce(c) BY <2>3 DEF Announce
  <2>4. CASE Enter(c) BY <2>4 DEF Enter
  <2>5. CASE Record(c) BY <2>5 DEF Record
  <2>6. CASE NoteCheckpoint(c) BY <2>6 DEF NoteCheckpoint
  <2>7. CASE PublishCheckpoint(c) BY <2>7 DEF PublishCheckpoint
  <2>8. CASE MarkWaiting(c) BY <2>8 DEF MarkWaiting
  <2>9. CASE PublishAsked(c) BY <2>9 DEF PublishAsked
  <2>10. CASE Yield(c) BY <2>10 DEF Yield
  <2>11. CASE Break(c) BY <2>11 DEF Break
  <2>12. CASE Settle(c) BY <2>12 DEF Settle
  <2>13. CASE WriteOutcome(c) BY <2>13 DEF WriteOutcome
  <2>14. CASE PublishOutcome(c) BY <2>14 DEF PublishOutcome
  <2>15. ASSUME NEW b \in Boundaries \cup {SkillInstall}, PerformOperation(c, b)
        PROVE  \A d \in Calls \ {c} : pc'[d] = pc[d] /\ job'[d] = job[d]
    BY <2>15 DEF PerformOperation
  <2>16. ASSUME NEW b \in Boundaries \cup {SkillInstall}, NEW a \in Approvals, AskApproval(c, b, a)
        PROVE  \A d \in Calls \ {c} : pc'[d] = pc[d] /\ job'[d] = job[d]
    BY <2>16 DEF AskApproval
  <2>17. CASE Lose(c) BY <2>17 DEF Lose
  <2>18. CASE Strand(c) BY <2>18 DEF Strand
  <2> QED BY <1>3, <2>1, <2>2, <2>3, <2>4, <2>5, <2>6, <2>7, <2>8, <2>9,
       <2>10, <2>11, <2>12, <2>13, <2>14, <2>15, <2>16, <2>17, <2>18 DEF Execute
<1> QED BY <1>1, <1>2, <1>3 DEF Step

(* Every step of a call keeps the types, and leaves the call's own variables  *)
(* as its next step needs them.                                              *)
LEMMA RequestTyped ==
  ASSUME Typed, NEW c \in Calls, Request(c)
  PROVE  TypeOK' /\ JobOK(c)'
<1> USE DEF memory, durable
<1>0. TypeOK BY DEF Typed
<1>p. {"clear", "begin", "replying", "signal", "signalNow", "decideRead", "skillPublish"}
        \subseteq PCs
  BY PCNames
<1>m. Methods = {"create", "resume", "reply", "interrupt", "cancel", "approve", "skill"}
  BY DEF Methods
<1>j. ASSUME NEW method \in Methods, NEW target \in Approvals \cup {NoApproval},
             NEW arg \in {"none", "bare", "reason", "approved", "rejected", "installed", "asked"},
             NEW to \in PCs, Arrive(c, method, arg, target, to),
             to \notin Saving \cup Asking \cup Deciding,
             to \in {"signal", "signalNow"} => arg \in {"bare", "reason"},
             to = "skillPublish" /\ arg = "asked" => target \in Approvals
      PROVE  JobOK(c)'
  <2>1. pc'[c] = to /\ job'[c] = [NoJob EXCEPT !.method = method, !.arg = arg, !.target = target]
    BY <1>0, <1>j DEF Arrive, TypeOK
  <2> QED BY <2>1, <1>j DEF JobOK, NoJob, Saving, Asking, Deciding
<1>1. CASE Create(c)
  <2>1. pc' \in [Calls -> PCs] /\ job' \in [Calls -> Jobs]
    BY <1>0, <1>1, <1>p, <1>m, ArriveType DEF Create
  <2>2. journal' \in Journals BY <1>0, <1>1, PublishType, EventType DEF Create, EventTypes
  <2>3. run' \in Runs BY <1>1 DEF Create, Accepted, NoRun, Runs, Statuses, PauseReasons
  <2>4. JobOK(c)' BY <1>1, <1>j, <1>p, <1>m DEF Create, Saving, Asking, Deciding
  <2> QED BY <1>0, <1>1, <2>1, <2>2, <2>3, <2>4 DEF Create, TypeOK
<1>2. CASE Resume(c) \/ Reply(c) \/ InstallSkill(c)
  <2>1. pc' \in [Calls -> PCs] /\ job' \in [Calls -> Jobs]
    BY <1>0, <1>2, <1>p, <1>m, ArriveType DEF Resume, Reply, InstallSkill
  <2>2. JobOK(c)'
    BY <1>2, <1>j, <1>p, <1>m DEF Resume, Reply, InstallSkill, Saving, Asking, Deciding
  <2> QED BY <1>0, <1>2, <2>1, <2>2 DEF Resume, Reply, InstallSkill, TypeOK
<1>3. ASSUME NEW arg \in {"bare", "reason"}, Interrupt(c, arg) \/ Cancel(c, arg)
      PROVE  TypeOK' /\ JobOK(c)'
  <2>1. pc' \in [Calls -> PCs] /\ job' \in [Calls -> Jobs]
    BY <1>0, <1>3, <1>p, <1>m, ArriveType DEF Interrupt, Cancel
  <2>2. JobOK(c)' BY <1>3, <1>j, <1>p, <1>m DEF Interrupt, Cancel, Saving, Asking, Deciding
  <2> QED BY <1>0, <1>3, <2>1, <2>2 DEF Interrupt, Cancel, TypeOK
<1>4. ASSUME NEW a \in Approvals, NEW arg \in {"approved", "rejected"}, Approve(c, a, arg)
      PROVE  TypeOK' /\ JobOK(c)'
  <2>1. pc' \in [Calls -> PCs] /\ job' \in [Calls -> Jobs]
    BY <1>0, <1>4, <1>p, <1>m, ArriveType DEF Approve
  <2>2. /\ pc'[c] = "decideRead"
        /\ job'[c] = [NoJob EXCEPT !.method = "approve", !.arg = arg, !.target = a]
    BY <1>0, <1>4 DEF Approve, Arrive, TypeOK
  <2>3. JobOK(c)' BY <2>2 DEF JobOK, NoJob, Saving
  <2> QED BY <1>0, <1>4, <2>1, <2>3 DEF Approve, TypeOK
<1>5. ASSUME NEW a \in Approvals, AskSkillInstall(c, a)
      PROVE  TypeOK' /\ JobOK(c)'
  <2>1. pc' \in [Calls -> PCs] /\ job' \in [Calls -> Jobs]
    BY <1>0, <1>5, <1>p, <1>m, ArriveType DEF AskSkillInstall
  <2>2. JobOK(c)' BY <1>5, <1>j, <1>p, <1>m DEF AskSkillInstall, Saving, Asking, Deciding
  <2> QED BY <1>0, <1>5, <2>1, <2>2 DEF AskSkillInstall, TypeOK
<1> QED BY <1>1, <1>2, <1>3, <1>4, <1>5 DEF Request

(* Every step of a request handler keeps the types and what its local        *)
(* variables are.                                                            *)
LEMMA HandleTyped ==
  ASSUME Typed, NEW c \in Calls, Handle(c)
  PROVE  TypeOK' /\ JobOK(c)'
<1> USE PCNames DEF memory, durable, Goto, Typed, TypeOK, JobOK, Saving, Asking, Deciding
<1>r. ASSUME Return(c)
      PROVE  pc' \in [Calls -> PCs] /\ job' \in [Calls -> Jobs] /\ JobOK(c)'
  <2>1. pc' \in [Calls -> PCs] /\ job' \in [Calls -> Jobs] BY <1>r, EndType DEF Return
  <2>2. pc'[c] = "done" /\ job'[c] = NoJob BY <1>r DEF Return, End
  <2> QED BY <2>1, <2>2 DEF NoJob
<1>j. job[c] \in Jobs OBVIOUS
<1>1. CASE ClearCancellation(c) BY <1>1 DEF ClearCancellation
<1>2. CASE ReplyLaunch(c)
  <2>1. journal' \in Journals BY <1>2, PublishType, EventType DEF ReplyLaunch, EventTypes
  <2> QED BY <1>2, <2>1 DEF ReplyLaunch
<1>3. CASE Signal(c)
  <2>1. Signalled(flag[current], job[c].arg) \in {"bare", "reason"}
    BY <1>3 DEF Signal, Signalled
  <2>2. flag' \in [Calls \cup {Boot} -> {"clear", "bare", "reason"}]
    BY <1>3, <2>1 DEF Signal
  <2>3. CASE pc[c] = "signal" BY <1>3, <2>2, <2>3, <1>r DEF Signal
  <2>4. CASE pc[c] = "signalNow" BY <1>3, <2>2, <2>4 DEF Signal
  <2> QED BY <1>3, <2>3, <2>4 DEF Signal
<1>4. CASE DecideRead(c)
  <2>1. CASE decision[job[c].target] = "pending" BY <1>4, <2>1 DEF DecideRead
  <2>2. CASE decision[job[c].target] # "pending" BY <1>4, <2>2, <1>r DEF DecideRead
  <2> QED BY <2>1, <2>2
<1>5. CASE DecideWrite(c) BY <1>5 DEF DecideWrite
<1>6. CASE ApplyDecision(c)
  <2>1. run' \in Runs BY <1>6 DEF ApplyDecision, Decided, Runs
  <2>2. AfterDecision(c) \in {"grant", "skillPublish", "rejectState"} BY DEF AfterDecision
  <2> QED BY <1>6, <2>1, <2>2 DEF ApplyDecision
<1>7. CASE Grant(c) BY <1>7 DEF Grant
<1>8. CASE ResumeApproved(c)
  <2>1. CASE CanResume(run) BY <1>8, <2>1 DEF ResumeApproved
  <2>2. CASE ~CanResume(run) BY <1>8, <2>2, <1>r DEF ResumeApproved
  <2> QED BY <2>1, <2>2
<1>9. CASE RejectRun(c)
  <2>1. run' \in Runs BY <1>9 DEF RejectRun, Failed, Runs, Statuses, PauseReasons
  <2>2. job' \in [Calls -> Jobs] BY <1>9, <1>j DEF RejectRun, Jobs, Results
  <2>3. job'[c].result = "failed" BY <1>9 DEF RejectRun
  <2> QED BY <1>9, <2>1, <2>2, <2>3 DEF RejectRun
<1>10. CASE PublishSkill(c)
  <2>1. (IF job[c].arg = "asked" THEN Asked(job[c].target) ELSE Plain("other")) \in Event
    BY <1>10, EventType DEF PublishSkill, EventTypes
  <2>2. journal' \in Journals BY <1>10, <2>1, PublishType DEF PublishSkill
  <2> QED BY <1>10, <2>2, <1>r DEF PublishSkill
<1>11. CASE CancelRead(c)
  <2>1. CASE run.status = "cancelled" BY <1>11, <2>1, <1>r DEF CancelRead
  <2>2. CASE run.status # "cancelled" /\ job[c].result = "cancelled"
    BY <1>11, <2>2 DEF CancelRead
  <2>3. CASE run.status # "cancelled" /\ job[c].result # "cancelled"
    <3>1. job' \in [Calls -> Jobs] BY <1>11, <2>3, <1>j DEF CancelRead, Jobs
    <3>2. pc'[c] = "record" /\ job'[c].then = "cancelWrite" /\ job'[c].result = job[c].result
          /\ job'[c].target = job[c].target
      BY <1>11, <2>3, <1>j DEF CancelRead, Jobs
    <3> QED BY <1>11, <2>3, <3>1, <3>2 DEF CancelRead
  <2> QED BY <2>1, <2>2, <2>3
<1>12. CASE CancelWrite(c)
  <2>1. run' \in Runs
    BY <1>12, <1>j, PauseReasonType DEF CancelWrite, Cancelled, Runs, Statuses, Jobs
  <2> QED BY <1>12, <2>1 DEF CancelWrite
<1>13. CASE PublishCancelled(c)
  <2>1. journal' \in Journals BY <1>13, PublishType, EventType DEF PublishCancelled, EventTypes
  <2> QED BY <1>13, <2>1, <1>r DEF PublishCancelled
<1> QED BY <1>1, <1>2, <1>3, <1>4, <1>5, <1>6, <1>7, <1>8, <1>9, <1>10, <1>11, <1>12, <1>13
        DEF Handle

(* So does every step of an execution.                                       *)
LEMMA ExecuteTyped ==
  ASSUME Typed, NEW c \in Calls, Execute(c)
  PROVE  TypeOK' /\ JobOK(c)'
<1> USE PCNames DEF memory, durable, Goto, Typed, TypeOK, JobOK, Saving, Asking, Deciding
<1>j. job[c] \in Jobs OBVIOUS
<1>e. ASSUME NEW how \in {"done", "stranded", "lost"}, End(c, how)
      PROVE  pc' \in [Calls -> PCs] /\ job' \in [Calls -> Jobs] /\ JobOK(c)'
  <2>1. pc' \in [Calls -> PCs] /\ job' \in [Calls -> Jobs] BY <1>e, EndType
  <2>2. pc'[c] = how /\ job'[c] = NoJob BY <1>e DEF End
  <2> QED BY <1>e, <2>1, <2>2 DEF NoJob
<1>r. ASSUME Return(c)
      PROVE  pc' \in [Calls -> PCs] /\ job' \in [Calls -> Jobs] /\ JobOK(c)'
  BY <1>r, <1>e DEF Return
<1>s. ASSUME NEW result \in Results, NEW then \in {"running", "settle", "cancelRead"},
             Save(c, result, then), result = "approval" => job[c].target \in Approvals
      PROVE  pc' \in [Calls -> PCs] /\ job' \in [Calls -> Jobs] /\ JobOK(c)'
  <2>1. pc' \in [Calls -> PCs] /\ job' \in [Calls -> Jobs] BY <1>s, SaveType
  <2>2. /\ pc'[c] = "record" /\ job'[c].then = then /\ job'[c].result = result
        /\ job'[c].target = job[c].target
    BY <1>s, <1>j DEF Save, Jobs
  <2> QED BY <1>s, <2>1, <2>2
<1>o. Plain("other") \in Event BY EventType DEF EventTypes
<1>1. CASE Begin(c)
  <2>1. job' \in [Calls -> Jobs] BY ZenonT(60), <1>1, <1>j DEF Begin, Jobs
  <2>2. job'[c].result = job[c].result /\ job'[c].target = job[c].target
    BY <1>1, <1>j DEF Begin, Jobs
  <2> QED BY <1>1, <2>1, <2>2 DEF Begin
<1>2. CASE Mark(c)
  <2>1. run' \in Runs BY <1>2 DEF Mark, Executing, Runs, Statuses, PauseReasons
  <2> QED BY <1>2, <2>1 DEF Mark
<1>3. CASE Announce(c)
  <2>1. journal' \in Journals BY <1>3, PublishType, EventType DEF Announce, EventTypes
  <2> QED BY <1>3, <2>1 DEF Announce
<1>4. CASE Enter(c)
  <2>1. journal' \in Journals BY <1>4, <1>o, PublishType DEF Enter
  <2>2. CASE Interrupted(c) BY <1>4, <2>1, <2>2, <1>s DEF Enter, Results
  <2>3. CASE ~Interrupted(c) BY <1>4, <2>1, <2>3, <1>s DEF Enter, Results
  <2> QED BY <2>2, <2>3
<1>5. CASE Record(c)
  <2>1. job' \in [Calls -> Jobs] BY <1>5, <1>j DEF Record, Jobs
  <2>2. /\ job'[c].result = job[c].result /\ job'[c].target = job[c].target
        /\ job'[c].then = job[c].then
    BY <1>5, <1>j DEF Record, Jobs
  <2>3. ckpts' \in [count : Nat, top : Nat, final : BOOLEAN]
    BY <1>5, <1>j, SavedType DEF Record, Jobs
  <2> QED BY <1>5, <2>1, <2>2, <2>3 DEF Record
<1>6. CASE NoteCheckpoint(c)
  <2>1. run' \in Runs BY <1>6 DEF NoteCheckpoint, Checkpointed, Runs
  <2> QED BY <1>6, <2>1 DEF NoteCheckpoint
<1>7. CASE PublishCheckpoint(c)
  <2>1. journal' \in Journals BY <1>7, <1>o, PublishType DEF PublishCheckpoint
  <2> QED BY <1>7, <2>1 DEF PublishCheckpoint
<1>8. CASE MarkWaiting(c)
  <2>1. run' \in Runs BY <1>8 DEF MarkWaiting, Waiting, Runs, PauseReasons
  <2> QED BY <1>8, <2>1 DEF MarkWaiting
<1>9. CASE PublishAsked(c)
  <2>1. journal' \in Journals BY <1>9, PublishType, EventType DEF PublishAsked
  <2>2. CASE scope[job[c].target] = SkillInstall
    <3>1. job' \in [Calls -> Jobs] BY <1>9, <2>2, <1>j DEF PublishAsked, Jobs, Results
    <3>2. job'[c].target = job[c].target BY <1>9, <2>2, <1>j DEF PublishAsked, Jobs
    <3> QED BY <1>9, <2>1, <2>2, <3>1, <3>2 DEF PublishAsked
  <2>3. CASE scope[job[c].target] # SkillInstall
    BY <1>9, <2>1, <2>3, <1>s DEF PublishAsked, Results
  <2> QED BY <2>2, <2>3
<1>10. CASE Yield(c)
  <2>1. PICK result \in {"cancelled", "input", "success"} : Save(c, result, "settle")
    BY <1>10 DEF Yield
  <2> QED BY <1>10, <2>1, <1>s DEF Yield, Results
<1>11. CASE Break(c)
  <2>1. job' \in [Calls -> Jobs] BY <1>11, <1>j DEF Break, Jobs, Results
  <2>2. job'[c].result \in {"failed", "upstream"} BY <1>11, <1>j DEF Break, Jobs
  <2> QED BY <1>11, <2>1, <2>2 DEF Break
<1>12. CASE Settle(c) BY <1>12 DEF Settle
<1>13. CASE WriteOutcome(c)
  <2>1. run' \in Runs BY <1>13, <1>j, OutcomeType DEF WriteOutcome
  <2>2. CASE job[c].result = "approval" BY <1>13, <2>1, <2>2, <1>r DEF WriteOutcome
  <2>3. CASE job[c].result # "approval" BY <1>13, <2>1, <2>3 DEF WriteOutcome
  <2> QED BY <2>2, <2>3
<1>14. CASE PublishOutcome(c)
  <2>1. PauseReason(job[c].result) \in PauseReasons BY <1>j, PauseReasonType DEF Jobs
  <2>2. PICK e \in Event : Publish(e)
    BY <1>14, <2>1, EventType DEF PublishOutcome, EventTypes
  <2>3. journal' \in Journals BY <2>2, PublishType
  <2> QED BY <1>14, <2>3, <1>r DEF PublishOutcome
<1>15. ASSUME NEW b \in Boundaries \cup {SkillInstall}, PerformOperation(c, b)
       PROVE  TypeOK' /\ JobOK(c)'
  <2>1. journal' \in Journals BY <1>15, <1>o, PublishType DEF PerformOperation
  <2> QED BY <1>15, <2>1 DEF PerformOperation
<1>16. ASSUME NEW b \in Boundaries \cup {SkillInstall}, NEW a \in Approvals, AskApproval(c, b, a)
       PROVE  TypeOK' /\ JobOK(c)'
  <2>1. job' \in [Calls -> Jobs] BY <1>16, <1>j DEF AskApproval, Jobs
  <2>2. job'[c].target = a /\ job'[c].result = job[c].result
    BY <1>16, <1>j DEF AskApproval, Jobs
  <2> QED BY <1>16, <2>1, <2>2 DEF AskApproval
<1>17. CASE Lose(c) BY <1>17, <1>e DEF Lose
<1>18. CASE Strand(c) BY <1>18, <1>e DEF Strand
<1> QED BY <1>1, <1>2, <1>3, <1>4, <1>5, <1>6, <1>7, <1>8, <1>9, <1>10, <1>11, <1>12, <1>13,
           <1>14, <1>15, <1>16, <1>17, <1>18 DEF Execute

(* Everything has its type at first.                                         *)
LEMMA InitTyped == Init => Typed
<1> SUFFICES ASSUME Init PROVE Typed
  OBVIOUS
<1>1. TypeOK
  BY PCNames DEF Init, TypeOK, NoRun, Runs, Statuses, PauseReasons, NoEvents, Journals,
     EventTypes, NoJob, Jobs, Results
<1>2. ASSUME NEW c \in Calls PROVE JobOK(c)
  BY DEF Init, JobOK, NoJob, Saving, Asking, Deciding
<1> QED BY <1>1, <1>2 DEF Typed

(* And after every step.                                                     *)
LEMMA NextTyped == Typed /\ [Next]_vars => Typed'
<1> SUFFICES ASSUME Typed, [Next]_vars PROVE Typed'
  OBVIOUS
<1>1. CASE UNCHANGED vars BY <1>1 DEF vars, Typed, TypeOK, JobOK
<1>2. ASSUME NEW c \in Calls, Request(c) \/ Step(c) PROVE Typed'
  <2>1. TypeOK' /\ JobOK(c)' BY <1>2, RequestTyped, HandleTyped, ExecuteTyped DEF Step
  <2>2. ASSUME NEW d \in Calls, d # c PROVE JobOK(d)'
    <3>1. pc'[d] = pc[d] /\ job'[d] = job[d] BY <1>2, <2>2, Frame DEF Typed
    <3> QED BY <3>1 DEF Typed, JobOK
  <2> QED BY <2>1, <2>2 DEF Typed
<1> QED BY <1>1, <1>2 DEF Next

(* Every variable has its type in every state.                               *)
THEOREM TypeCorrect == Spec => []TypeOK
<1>1. Typed => TypeOK BY DEF Typed
<1> QED BY InitTyped, NextTyped, <1>1, PTL DEF Spec

-----------------------------------------------------------------------------
(*****************************************************************************)
(* Who writes what.                                                          *)
(*****************************************************************************)
LEMMA RunWriters ==
  ASSUME NEW c \in Calls, Request(c) \/ Step(c)
  PROVE  \/ UNCHANGED run
         \/ Create(c) \/ ApplyDecision(c) \/ RejectRun(c) \/ CancelWrite(c) \/ Mark(c)
         \/ NoteCheckpoint(c) \/ MarkWaiting(c) \/ WriteOutcome(c)
<1> USE DEF memory, durable
<1>1. CASE Request(c) BY <1>1 DEF Request, Resume, Reply, InstallSkill, Interrupt, Cancel, Approve,
                                AskSkillInstall
<1>2. CASE Handle(c) BY <1>2 DEF Handle, ClearCancellation, ReplyLaunch, Signal,
                                 DecideRead, DecideWrite, Grant, ResumeApproved,
                                 PublishSkill, CancelRead, PublishCancelled
<1>3. CASE Execute(c) BY <1>3 DEF Execute, Begin, Announce, Lose, Enter, Record,
                                   PublishCheckpoint, PublishAsked, Yield,
                                   Break, Strand, Settle, PublishOutcome,
                                   PerformOperation, AskApproval
<1> QED BY <1>1, <1>2, <1>3 DEF Step

(* The approvals, the grants, the effects and the checkpoints change in      *)
(* four kinds of steps only.                                                 *)
LEMMA StoreWriters ==
  ASSUME NEW c \in Calls, Request(c) \/ Step(c)
  PROVE  \/ UNCHANGED <<decision, scope, grants, effects, ckpts>>
         \/ DecideWrite(c) \/ Grant(c) \/ Record(c)
         \/ \E a \in Approvals : AskSkillInstall(c, a)
         \/ \E b \in Boundaries \cup {SkillInstall} :
              PerformOperation(c, b) \/ \E a \in Approvals : AskApproval(c, b, a)
<1> USE DEF memory, durable
<1>1. CASE Request(c) BY <1>1 DEF Request, Create, Resume, Reply, InstallSkill, Interrupt, Cancel,
                                Approve
<1>2. CASE Handle(c) BY <1>2 DEF Handle, ClearCancellation, ReplyLaunch, Signal,
                                 DecideRead, ApplyDecision, ResumeApproved,
                                 RejectRun, PublishSkill, CancelRead,
                                 CancelWrite, PublishCancelled
<1>3. CASE Execute(c) BY <1>3 DEF Execute, Begin, Mark, Announce, Lose, Enter, NoteCheckpoint,
                                   PublishCheckpoint, MarkWaiting, PublishAsked,
                                   Yield, Break, Strand, Settle, WriteOutcome,
                                   PublishOutcome
<1> QED BY <1>1, <1>2, <1>3 DEF Step

(* Rows are never lost: a request stays asked, with its scope, a decided one  *)
(* stays decided, and a run with a checkpoint keeps one.                      *)
LEMMA StoresGrow ==
  ASSUME Typed, NEW c \in Calls, Request(c) \/ Step(c)
  PROVE  /\ ckpts.count > 0 => ckpts'.count > 0
         /\ \A a \in Approvals : decision[a] # "absent" =>
              /\ decision'[a] # "absent" /\ scope'[a] = scope[a]
              /\ decision[a] # "pending" => decision'[a] # "pending"
<1> USE DEF Typed, TypeOK, JobOK, Deciding
<1>1. CASE UNCHANGED <<decision, scope, grants, effects, ckpts>> BY <1>1
<1>2. CASE DecideWrite(c) BY <1>2 DEF DecideWrite
<1>3. CASE Grant(c) BY <1>3 DEF Grant
<1>4. CASE Record(c)
  <2>1. job[c].next \in Nat BY DEF Jobs
  <2>2. ckpts'.count > 0 BY <1>4, <2>1, SavedType DEF Record
  <2> QED BY <1>4, <2>2 DEF Record
<1>5. ASSUME NEW a \in Approvals, AskSkillInstall(c, a)
      PROVE  UNCHANGED ckpts /\ decision[a] = "absent" /\
             \A x \in Approvals : x # a => decision'[x] = decision[x] /\ scope'[x] = scope[x]
  BY <1>5 DEF AskSkillInstall
<1>6. ASSUME NEW b \in Boundaries \cup {SkillInstall}, NEW a \in Approvals, AskApproval(c, b, a)
      PROVE  UNCHANGED ckpts /\ decision[a] = "absent" /\
             \A x \in Approvals : x # a => decision'[x] = decision[x] /\ scope'[x] = scope[x]
  BY <1>6 DEF AskApproval
<1>7. ASSUME NEW b \in Boundaries \cup {SkillInstall}, PerformOperation(c, b)
      PROVE  UNCHANGED <<ckpts, decision, scope>>
  BY <1>7 DEF PerformOperation
<1> QED BY <1>1, <1>2, <1>3, <1>4, <1>5, <1>6, <1>7, StoreWriters

(* What is granted was decided, and what is crossed is granted.               *)
LEMMA EffectsStep ==
  ASSUME Typed, EffectsWereAsked, NEW c \in Calls, AskedOK(c), Request(c) \/ Step(c)
  PROVE  EffectsWereAsked'
<1> USE DEF Typed, TypeOK
<1>1. ASSUME grants' = grants, effects' \subseteq grants PROVE EffectsWereAsked'
  <2>1. \A a \in Approvals : decision[a] \in {"approved", "rejected"} =>
          decision'[a] \in {"approved", "rejected"} /\ scope'[a] = scope[a]
    <3>1. decision' \in [Approvals -> {"absent", "pending", "approved", "rejected"}]
      BY RequestTyped, HandleTyped, ExecuteTyped DEF Step
    <3> QED BY <3>1, StoresGrow
  <2> QED BY <1>1, <2>1 DEF EffectsWereAsked
<1>2. CASE Grant(c)
  <2>1. job[c].target \in Approvals /\ decision[job[c].target] \in {"approved", "rejected"}
    BY <1>2 DEF Grant, JobOK, AskedOK, Deciding
  <2> QED BY <1>2, <2>1 DEF Grant, EffectsWereAsked
<1>3. CASE UNCHANGED <<decision, scope, grants, effects, ckpts>>
  BY <1>1, <1>3 DEF EffectsWereAsked
<1>4. CASE DecideWrite(c) BY <1>1, <1>4 DEF DecideWrite, EffectsWereAsked
<1>5. CASE Record(c) BY <1>1, <1>5 DEF Record, EffectsWereAsked
<1>6. ASSUME NEW a \in Approvals, AskSkillInstall(c, a) PROVE EffectsWereAsked'
  BY <1>1, <1>6 DEF AskSkillInstall, EffectsWereAsked
<1>7. ASSUME NEW b \in Boundaries \cup {SkillInstall}, PerformOperation(c, b)
      PROVE  EffectsWereAsked'
  BY <1>1, <1>7 DEF PerformOperation, EffectsWereAsked
<1>8. ASSUME NEW b \in Boundaries \cup {SkillInstall}, NEW a \in Approvals, AskApproval(c, b, a)
      PROVE  EffectsWereAsked'
  BY <1>1, <1>8 DEF AskApproval, EffectsWereAsked
<1> QED BY <1>2, <1>3, <1>4, <1>5, <1>6, <1>7, <1>8, StoreWriters

(* A call that asks, decides or grants knows a request that is in the store,  *)
(* and an execution that has saved a checkpoint finds one.                    *)
LEMMA OwnStep ==
  ASSUME Typed, NEW c \in Calls, AskedOK(c), CkptOK(c), Request(c) \/ Step(c)
  PROVE  AskedOK(c)' /\ CkptOK(c)'
<1> USE DEF Typed, TypeOK, JobOK, AskedOK, CkptOK, Asking, Deciding, Saving, Goto, Arrive, Save,
            memory, durable, Publish
<1>g. ckpts.count > 0 => ckpts'.count > 0 BY StoresGrow
<1>n. NoJob.result = "none" BY DEF NoJob
<1>e. ASSUME NEW how \in {"done", "stranded", "lost"}, End(c, how)
      PROVE  AskedOK(c)' /\ CkptOK(c)'
  <2>1. pc'[c] = how /\ job'[c] = NoJob BY <1>e DEF End
  <2>2. job'[c].result = "none" BY <2>1, <1>n
  <2>3. AskedOK(c)' BY <1>e, <2>1, <2>2
  <2>4. CkptOK(c)' BY <1>e, <2>1, <2>2
  <2> QED BY <2>3, <2>4
<1>r. ASSUME Return(c) PROVE AskedOK(c)' /\ CkptOK(c)'
  BY <1>r, <1>e DEF Return
<1>j. job[c] \in Jobs OBVIOUS
<1>0. CASE Request(c)
  <2>a. ASSUME NEW method, NEW arg, NEW target, NEW to, Arrive(c, method, arg, target, to)
        PROVE  job'[c].result = "none" /\ job'[c].target = target /\ pc'[c] = to
    BY <2>a DEF NoJob
  <2>1. job'[c].result = "none"
    <3> HIDE DEF Arrive
    <3> QED BY <1>0, <2>a DEF Request, Create, Resume, Reply, InstallSkill, Interrupt, Cancel,
               Approve, AskSkillInstall
  <2>2. ASSUME NEW a \in Approvals, NEW arg \in {"approved", "rejected"}, Approve(c, a, arg)
        PROVE  pc'[c] = "decideRead" /\ decision'[job'[c].target] # "absent"
    BY <2>2, <2>a DEF Approve
  <2>3. ASSUME NEW a \in Approvals, AskSkillInstall(c, a)
        PROVE  pc'[c] = "skillPublish" /\ decision'[job'[c].target] # "absent"
    BY <2>3 DEF AskSkillInstall, NoJob
  <2>4. InstallSkill(c) => pc'[c] = "skillPublish" /\ job'[c].arg = "installed"
    BY DEF InstallSkill, NoJob
  <2>5. \/ pc'[c] \in {"begin", "clear", "replying", "signal", "signalNow"}
        \/ pc'[c] = "skillPublish" /\ job'[c].arg # "asked"
        \/ pc'[c] \in {"decideRead", "skillPublish"} /\ decision'[job'[c].target] # "absent"
    BY <1>0, <2>2, <2>3, <2>4 DEF Request, Create, Resume, Reply, Interrupt, Cancel
  <2> QED BY <2>1, <2>5
<1>1. CASE ClearCancellation(c) BY <1>1 DEF ClearCancellation
<1>2. CASE ReplyLaunch(c) BY <1>2 DEF ReplyLaunch
<1>3. CASE Signal(c)
  <2>1. CASE Return(c) BY <2>1, <1>r
  <2>2. CASE ~Return(c) BY <1>3, <2>2 DEF Signal
  <2> QED BY <2>1, <2>2
<1>4. CASE DecideRead(c)
  <2>1. CASE Return(c) BY <2>1, <1>r
  <2>2. CASE ~Return(c) BY <1>4, <1>g, <2>2 DEF DecideRead
  <2> QED BY <2>1, <2>2
<1>5. CASE DecideWrite(c) BY <1>5 DEF DecideWrite
<1>6. CASE ApplyDecision(c)
  <2>1. AfterDecision(c) \in {"grant", "skillPublish", "rejectState"} BY DEF AfterDecision
  <2> QED BY <1>6, <2>1 DEF ApplyDecision
<1>7. CASE Grant(c) BY <1>7 DEF Grant
<1>8. CASE ResumeApproved(c)
  <2>1. CASE Return(c) BY <2>1, <1>r
  <2>2. CASE ~Return(c) BY <1>8, <2>2 DEF ResumeApproved
  <2> QED BY <2>1, <2>2
<1>9. CASE RejectRun(c)
  <2>1. job'[c].result = "failed" /\ pc'[c] = "publish" BY <1>9, <1>j DEF RejectRun, Jobs
  <2> QED BY <2>1
<1>10. CASE PublishSkill(c)
  BY <1>10, <1>r DEF PublishSkill
<1>11. CASE CancelRead(c)
  <2>1. CASE Return(c) BY <2>1, <1>r
  <2>2. CASE ~Return(c) /\ job[c].result = "cancelled" BY <1>11, <2>2 DEF CancelRead
  <2>3. CASE ~Return(c) /\ job[c].result # "cancelled"
    <3>1. job'[c].result = job[c].result /\ job'[c].target = job[c].target /\ pc'[c] = "record"
      BY <1>11, <2>3, <1>j DEF CancelRead, Jobs
    <3> QED BY <1>11, <2>3, <3>1 DEF CancelRead
  <2> QED BY <2>1, <2>2, <2>3
<1>12. CASE CancelWrite(c) BY <1>12 DEF CancelWrite
<1>13. CASE PublishCancelled(c)
  BY <1>13, <1>r DEF PublishCancelled
<1>14. CASE Begin(c)
  <2>1. job'[c].result = job[c].result /\ job'[c].target = job[c].target
    BY <1>14, <1>j DEF Begin, Jobs
  <2> QED BY <1>14, <2>1 DEF Begin
<1>15. CASE Mark(c) BY <1>15 DEF Mark
<1>16. CASE Announce(c) BY <1>16 DEF Announce
<1>17. CASE Enter(c)
  <2>1. pc'[c] = "record" /\ job'[c].result \in {"cancelled", "none"}
    BY <1>17, <1>j DEF Enter, Jobs
  <2> QED BY <2>1
<1>18. CASE NoteCheckpoint(c) BY <1>18 DEF NoteCheckpoint
<1>19. CASE PublishCheckpoint(c) BY <1>19 DEF PublishCheckpoint
<1>20. CASE MarkWaiting(c) BY <1>20 DEF MarkWaiting
<1>21. CASE PublishAsked(c)
  <2>1. /\ pc'[c] \in {"record", "settle"} /\ job'[c].result = "approval"
        /\ job'[c].target = job[c].target
    BY <1>21, <1>j DEF PublishAsked, Jobs
  <2> QED BY <1>21, <2>1 DEF PublishAsked
<1>22. CASE Yield(c)
  <2>1. pc'[c] = "record" /\ job'[c].result \in {"cancelled", "input", "success"}
    BY <1>22, <1>j DEF Yield, Jobs
  <2> QED BY <2>1
<1>23. CASE Break(c)
  <2>1. pc'[c] = "settle" /\ job'[c].result \in {"failed", "upstream"}
    BY <1>23, <1>j DEF Break, Jobs
  <2> QED BY <1>23, <2>1 DEF Break
<1>24. CASE Settle(c) BY <1>24 DEF Settle
<1>25. CASE WriteOutcome(c)
  <2>1. CASE Return(c) BY <2>1, <1>r
  <2>2. CASE ~Return(c) BY <1>25, <2>2 DEF WriteOutcome
  <2> QED BY <2>1, <2>2
<1>26. CASE PublishOutcome(c)
  BY <1>26, <1>r DEF PublishOutcome
<1>27. CASE Record(c)
  <2>1. job[c].next \in Nat BY <1>j DEF Jobs
  <2>2. ckpts'.count > 0 BY <1>27, <2>1, SavedType DEF Record
  <2>3. /\ pc'[c] = "note" /\ job'[c].result = job[c].result /\ job'[c].target = job[c].target
    BY <1>27, <1>j DEF Record, Jobs
  <2> QED BY <1>27, <2>2, <2>3 DEF Record
<1>28. ASSUME NEW b \in Boundaries \cup {SkillInstall}, PerformOperation(c, b)
       PROVE  AskedOK(c)' /\ CkptOK(c)'
  BY <1>28 DEF PerformOperation
<1>29. ASSUME NEW b \in Boundaries \cup {SkillInstall}, NEW a \in Approvals, AskApproval(c, b, a)
       PROVE  AskedOK(c)' /\ CkptOK(c)'
  <2>1. pc'[c] = "askState" /\ job'[c].target = a /\ job'[c].result = job[c].result
    BY <1>29, <1>j DEF AskApproval, Jobs
  <2> QED BY <1>29, <2>1 DEF AskApproval
<1>30. CASE Lose(c) BY <1>30, <1>e DEF Lose
<1>31. CASE Strand(c) BY <1>31, <1>e DEF Strand
<1> QED BY <1>0, <1>1, <1>2, <1>3, <1>4, <1>5, <1>6, <1>7, <1>8, <1>9, <1>10, <1>11, <1>12,
           <1>13, <1>14, <1>15, <1>16, <1>17, <1>18, <1>19, <1>20, <1>21, <1>22, <1>23,
           <1>24, <1>25, <1>26, <1>27, <1>28, <1>29, <1>30, <1>31
        DEF Step, Handle, Execute

(* A run that is made unresumable while it executes is being started by who    *)
(* made it so, and he keeps at it until his first checkpoint is noted or his   *)
(* sandbox cannot be set up.                                                  *)
Starting == {"announce", "enter", "record", "note", "lost"}

LEMMA StartStep ==
  ASSUME Typed, NEW c \in Calls, Request(c) \/ Step(c),
         run'.status = "executing", ~run'.resumable
  PROVE  \/ pc'[c] \in Starting
         \/ run.status = "executing" /\ ~run.resumable /\ pc[c] \notin Starting
<1> USE DEF Typed, TypeOK, JobOK, Starting, Saving, Goto, Save, memory, durable
<1>1. CASE Mark(c) BY <1>1 DEF Mark
<1>2. CASE ~Mark(c)
  <2>1. run.status = "executing" /\ ~run.resumable /\ (UNCHANGED run \/ ApplyDecision(c))
    <3>1. CASE ApplyDecision(c) BY <3>1 DEF ApplyDecision, Decided, Runs
    <3>2. ~Create(c) BY DEF Create, Accepted, NoRun
    <3>3. ~RejectRun(c) BY DEF RejectRun, Failed, Runs
    <3>4. ~CancelWrite(c) BY DEF CancelWrite, Cancelled, Runs
    <3>5. ~NoteCheckpoint(c) BY DEF NoteCheckpoint, Checkpointed, Runs
    <3>6. ~MarkWaiting(c) BY DEF MarkWaiting, Waiting, Runs
    <3>7. ~WriteOutcome(c)
      BY ZenonT(60) DEF WriteOutcome, Outcome, Completed, Failed, AwaitingApproval, Waiting,
                        Suspended, Runs
    <3>8. CASE UNCHANGED run BY <3>8
    <3> QED BY <1>2, <3>1, <3>2, <3>3, <3>4, <3>5, <3>6, <3>7, <3>8, RunWriters
  <2>2. SUFFICES ASSUME pc[c] \in Starting PROVE pc'[c] \in Starting
    BY <2>1
  <2>3. ~NoteCheckpoint(c)
    BY <2>1 DEF NoteCheckpoint, Checkpointed, ApplyDecision, Runs
  <2>4. ~Request(c)
    BY <2>2 DEF Request, Create, Resume, Reply, InstallSkill, Interrupt, Cancel, Approve,
       AskSkillInstall, Arrive
  <2>5. ~Handle(c)
    BY <2>2 DEF Handle, ClearCancellation, ReplyLaunch, Signal, DecideRead, DecideWrite,
       ApplyDecision, Grant, ResumeApproved, RejectRun, PublishSkill, CancelRead, CancelWrite,
       PublishCancelled
  <2>6. Announce(c) \/ Lose(c) \/ Enter(c) \/ Record(c)
    BY <1>2, <2>2, <2>3, <2>4, <2>5 DEF Step, Execute, Begin, PublishCheckpoint, MarkWaiting,
       PublishAsked, Yield, Break, Strand, Settle, WriteOutcome, PublishOutcome,
       PerformOperation, AskApproval
  <2> QED BY <2>6 DEF Announce, Lose, End, Enter, Record
<1> QED BY <1>1, <1>2

(* Whoever makes a run resumable has a checkpoint for it, and whoever makes   *)
(* it wait for an approval has stored the request.                            *)
LEMMA RecordStep ==
  ASSUME Typed, NEW c \in Calls, AskedOK(c), CkptOK(c), Request(c) \/ Step(c)
  PROVE  /\ run'.resumable => run.resumable \/ ckpts.count > 0
         /\ run'.awaiting => \/ run.awaiting /\ run'.pending = run.pending
                             \/ /\ run'.pending \in Approvals
                                /\ decision[run'.pending] # "absent"
<1> USE DEF Typed, TypeOK, JobOK, AskedOK, CkptOK, Asking, Deciding, Runs
<1>1. CASE UNCHANGED run BY <1>1
<1>2. CASE Create(c) BY <1>2 DEF Create, Accepted, NoRun
<1>3. CASE ApplyDecision(c) BY <1>3 DEF ApplyDecision, Decided
<1>4. CASE RejectRun(c) BY <1>4 DEF RejectRun, Failed
<1>5. CASE CancelWrite(c) BY <1>5 DEF CancelWrite, Cancelled
<1>6. CASE Mark(c) BY <1>6 DEF Mark, Executing
<1>7. CASE NoteCheckpoint(c) BY <1>7 DEF NoteCheckpoint, Checkpointed
<1>8. CASE MarkWaiting(c) BY <1>8 DEF MarkWaiting, Waiting
<1>9. CASE WriteOutcome(c)
  <2>1. CASE job[c].result = "approval"
    <3>1. run' = AwaitingApproval(run, job[c].target) BY <1>9, <2>1 DEF WriteOutcome, Outcome
    <3> QED BY <1>9, <2>1, <3>1 DEF WriteOutcome, AwaitingApproval, Waiting
  <2>2. CASE job[c].result # "approval"
    <3>1. run' \in {Completed(run), Failed(run), Suspended(run, PauseReason(job[c].result))}
      BY <1>9, <2>2 DEF WriteOutcome, Outcome
    <3> QED BY <1>9, <3>1 DEF WriteOutcome, Completed, Failed, Suspended
  <2> QED BY <2>1, <2>2
<1> QED BY <1>1, <1>2, <1>3, <1>4, <1>5, <1>6, <1>7, <1>8, <1>9, RunWriters

(* Who appends approval.requested names the request of his own call.           *)
LEMMA HistoryStep ==
  ASSUME Typed, NEW c \in Calls, AskedOK(c), HistoryOK, Request(c) \/ Step(c)
  PROVE  HistoryOK'
<1> USE DEF memory, durable
<1>g. \A a \in Approvals : decision[a] # "absent" => decision'[a] # "absent" BY StoresGrow
<1>o. ASSUME NEW type \in EventTypes \ {"none", "approval"}, Publish(Plain(type)) PROVE HistoryOK'
  BY <1>g, <1>o DEF HistoryOK, Publish, Plain, AppendEvent
<1>p. ASSUME NEW why, Publish(Paused(why)) PROVE HistoryOK'
  BY <1>g, <1>p DEF HistoryOK, Publish, Paused, AppendEvent
<1>a. ASSUME Publish(Asked(job[c].target)), job[c].target \in Approvals,
             decision[job[c].target] # "absent"
      PROVE  HistoryOK'
  BY <1>g, <1>a DEF HistoryOK, Publish, Asked, AppendEvent
<1>n. {"other", "resumed", "completed", "failed"} \subseteq EventTypes \ {"none", "approval"}
  BY DEF EventTypes
<1>1. CASE UNCHANGED journal BY <1>g, <1>1 DEF HistoryOK
<1>2. CASE Request(c)
  BY <1>1, <1>2, <1>o, <1>n DEF Request, Create, Resume, Reply, InstallSkill, Interrupt, Cancel,
     Approve, AskSkillInstall
<1>3. CASE PublishSkill(c)
  BY <1>3, <1>a, <1>o, <1>n DEF PublishSkill, Typed, JobOK, AskedOK
<1>4. CASE Handle(c) /\ ~PublishSkill(c)
  BY <1>1, <1>4, <1>o, <1>n DEF Handle, ClearCancellation, ReplyLaunch, Signal, DecideRead,
     DecideWrite, ApplyDecision, Grant, ResumeApproved, RejectRun, CancelRead, CancelWrite,
     PublishCancelled
<1>5. CASE PublishAsked(c)
  BY <1>5, <1>a DEF PublishAsked, Typed, JobOK, AskedOK, Asking
<1>6. CASE PublishOutcome(c)
  BY <1>6, <1>o, <1>p, <1>n DEF PublishOutcome
<1>7. CASE Execute(c) /\ ~PublishAsked(c) /\ ~PublishOutcome(c)
  BY <1>1, <1>7, <1>o, <1>n DEF Execute, Begin, Mark, Announce, Lose, Enter, Record, NoteCheckpoint,
     PublishCheckpoint, MarkWaiting, Yield, Break, Strand, Settle, WriteOutcome,
     PerformOperation, AskApproval
<1> QED BY <1>2, <1>3, <1>4, <1>5, <1>6, <1>7 DEF Step

-----------------------------------------------------------------------------
(* An action of a call keeps the invariant about the call's own knowledge    *)
(* and the journal's history.                                                *)
LEMMA KeptStep ==
  ASSUME Kept, NEW c \in Calls, Request(c) \/ Step(c)
  PROVE  Kept'
<1> USE DEF Kept
<1>1. Typed' BY NextTyped DEF Next
<1>2. /\ ckpts.count > 0 => ckpts'.count > 0
      /\ \A a \in Approvals : decision[a] # "absent" =>
           decision'[a] # "absent" /\ (decision[a] # "pending" => decision'[a] # "pending")
  BY StoresGrow
<1>3. \A d \in Calls \ {c} : pc'[d] = pc[d] /\ job'[d] = job[d] BY Frame DEF Typed
<1>4. ASSUME NEW d \in Calls PROVE AskedOK(d)' /\ CkptOK(d)'
  <2>1. CASE d = c BY <2>1, OwnStep
  <2>2. CASE d # c
    <3>1. AskedOK(d) /\ CkptOK(d) /\ JobOK(d) BY DEF Typed
    <3> QED BY <1>2, <1>3, <2>2, <3>1 DEF AskedOK, CkptOK, JobOK, Asking, Deciding
  <2> QED BY <2>1, <2>2
<1>5. HistoryOK' BY HistoryStep
<1>6. ResumableHasCheckpoint' BY <1>2, RecordStep DEF ResumableHasCheckpoint
<1>7. AwaitingNamesApproval' BY <1>2, RecordStep DEF AwaitingNamesApproval
<1> QED BY <1>1, <1>4, <1>5, <1>6, <1>7

(* A run that executes and cannot be resumed is on its way to a checkpoint.    *)
LEMMA ResumableStep ==
  ASSUME Typed, ExecutingIsResumable, NEW c \in Calls, Request(c) \/ Step(c)
  PROVE  ExecutingIsResumable'
<1> SUFFICES ASSUME run'.status = "executing", ~run'.resumable
             PROVE  \E d \in Calls : pc'[d] \in Starting
  BY DEF ExecutingIsResumable, Starting
<1>1. \A d \in Calls \ {c} : pc'[d] = pc[d] BY Frame DEF Typed
<1>2. CASE pc'[c] \in Starting BY <1>2
<1>3. CASE run.status = "executing" /\ ~run.resumable /\ pc[c] \notin Starting
  BY <1>1, <1>3 DEF ExecutingIsResumable, Starting
<1> QED BY <1>2, <1>3, StartStep

(* The inductive invariant: it holds at first, and every step keeps it.      *)
LEMMA InitIInv == Init => IInv
<1> SUFFICES ASSUME Init PROVE IInv
  OBVIOUS
<1>1. Typed BY InitTyped
<1>2. ASSUME NEW c \in Calls PROVE AskedOK(c) /\ CkptOK(c)
  BY DEF Init, AskedOK, CkptOK, Asking, Deciding, NoJob
<1>3. /\ ExecutingIsResumable /\ ResumableHasCheckpoint
      /\ AwaitingNamesApproval /\ EffectsWereAsked /\ HistoryOK
  BY DEF Init, NoRun, NoEvents, ExecutingIsResumable, ResumableHasCheckpoint, AwaitingNamesApproval,
     EffectsWereAsked, HistoryOK
<1> QED BY <1>1, <1>2, <1>3 DEF IInv, Kept

(* The invariant is kept by every step of every call.                        *)
LEMMA NextIInv == IInv /\ [Next]_vars => IInv'
<1> SUFFICES ASSUME IInv, [Next]_vars PROVE IInv'
  OBVIOUS
<1>1. CASE UNCHANGED vars
  <2>1. Typed' BY NextTyped DEF IInv, Kept
  <2> QED BY <1>1, <2>1 DEF vars, IInv, Kept, AskedOK, CkptOK, HistoryOK, ExecutingIsResumable,
             ResumableHasCheckpoint, AwaitingNamesApproval, EffectsWereAsked
<1>2. ASSUME NEW c \in Calls, Request(c) \/ Step(c) PROVE IInv'
  <2>1. Kept' BY <1>2, KeptStep DEF IInv
  <2>2. ExecutingIsResumable' BY <1>2, ResumableStep DEF IInv, Kept
  <2>3. EffectsWereAsked' BY <1>2, EffectsStep DEF IInv, Kept
  <2> QED BY <2>1, <2>2, <2>3 DEF IInv
<1> QED BY <1>1, <1>2 DEF Next

(* In every interleaving of any number of calls, and whichever of their        *)
(* threads die of an exception: a run that says executing can be resumed, or   *)
(* is on its way to its first checkpoint, or could not get a sandbox; a run    *)
(* that can be resumed has a checkpoint, a run that waits names a stored       *)
(* request, and what was crossed was asked for.                               *)
THEOREM SafeUnderAnyClient ==
  Spec => [](/\ ExecutingIsResumable /\ ResumableHasCheckpoint
             /\ AwaitingNamesApproval /\ EffectsWereAsked)
<1>1. IInv => /\ ExecutingIsResumable /\ ResumableHasCheckpoint
              /\ AwaitingNamesApproval /\ EffectsWereAsked
  BY DEF IInv, Kept
<1> QED BY InitIInv, NextIInv, <1>1, PTL DEF Spec

(* A run that a client may resume has a checkpoint to resume from.             *)
THEOREM ResumableAlways == Spec => []ResumableHasCheckpoint
BY SafeUnderAnyClient, PTL

(* A run that says it waits for an approval names one that the client can fetch. *)
THEOREM AwaitingAlwaysNames == Spec => []AwaitingNamesApproval
BY SafeUnderAnyClient, PTL

(* What was done had been granted, and what was granted had been asked for and   *)
(* decided.                                                                   *)
THEOREM EffectsAlwaysAsked == Spec => []EffectsWereAsked
BY SafeUnderAnyClient, PTL
=============================================================================
