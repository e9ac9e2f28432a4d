------------------------------ MODULE RunLifecycle ------------------------------
(*****************************************************************************)
(* One run of the runtime's TaskRunner, driven by concurrent JSON-RPC calls.  *)
(*                                                                           *)
(* RuntimeServer.serve starts a thread for every request line, so calls on    *)
(* the same run overlap with each other and with the executions they launch.  *)
(* The stores are keyed by (task_id, run_id): runs do not share state, and    *)
(* one run is the whole system here.  An element of Calls is one request:     *)
(* its handler, and then the execution of the agent (_execute_run) that the   *)
(* handler launches, in the request's thread or in a thread of its own.       *)
(*                                                                           *)
(* The run state store and the cancellation table are in memory; approvals,   *)
(* grants, checkpoints and events are rows of SQLite databases, each written  *)
(* in a transaction of its own.  A step reads or writes one of these once:    *)
(* RunStateStore.get and .update are atomic under the store's lock, and       *)
(* nothing in the code holds a lock across two accesses.                      *)
(*****************************************************************************)
EXTENDS RunJournal, Naturals, FiniteSets

CONSTANTS
  Calls,         \* JSON-RPC calls; bounds the number of requests of a behaviour
  Boundaries,    \* boundary keys of operations that require approval
  SkillInstall,  \* the boundary key of a skill installation
  Boot,          \* the cancellation object made on demand by _cancellation_for
  Overlap        \* the methods that may be called while another call is active

(* task.cancel counts as two methods: interrupt when it finds the run         *)
(* executing, cancel when it finds it stopped.                               *)
Methods == {"create", "resume", "reply", "interrupt", "cancel", "approve", "skill"}

ASSUME SkillAssumption   == SkillInstall \notin Boundaries
ASSUME BootAssumption    == Boot \notin Calls
ASSUME OverlapAssumption == Overlap \subseteq Methods

VARIABLES
  run,       \* RunStateStore: the run's record
  current,   \* _run_cancellations[key], named by the call that installed it
  flag,      \* the RunCancellation objects: clear, or requested with or without reason
  decision,  \* approval_requests.status
  scope,     \* approval_requests.scope: the boundary key asked for
  grants,    \* boundary_grants: keys granted to the run
  effects,   \* boundary keys across which a governed operation was performed
  ckpts,     \* checkpoint_metadata: number of rows, highest index, is it run_completed
  journal,   \* the event store's history of the run
  pc,        \* where each call is in its handler or in its execution
  job        \* the local variables of each call

memory  == <<run, current, flag>>
durable == <<decision, scope, grants, effects, ckpts, journal>>
vars    == <<run, current, flag, decision, scope, grants, effects, ckpts, journal, pc, job>>

Handlers   == {"clear", "replying", "signal", "signalNow", "decideRead", "decideWrite",
               "decided", "grant", "resumeCheck", "rejectState", "skillPublish"}
Transition == {"cancelRead", "cancelWrite", "cancelPublish"}
Saving     == {"record", "note", "notePublish"}
Harness    == {"announce", "enter", "running", "askState", "askPublish", "settle", "write"}

(* The ends of an execution whose thread an exception has ended: after the    *)
(* harness, and in the set-up of the sandbox.                                 *)
Dead == {"stranded", "lost"}

PCs == {"idle", "done", "begin", "mark", "publish"}
         \cup Handlers \cup Transition \cup Saving \cup Harness \cup Dead

(* Where an execution owns the status executing that it wrote.                *)
Working == {"cancelRead", "cancelWrite"} \cup Saving \cup Harness

Results == {"none", "success", "failed", "approval", "input", "upstream", "cancelled"}

Runs == [status : Statuses, awaiting : BOOLEAN, pending : Approvals \cup {NoApproval},
         resumable : BOOLEAN, pause : PauseReasons]

NoRun == [status |-> "absent", awaiting |-> FALSE, pending |-> NoApproval,
          resumable |-> FALSE, pause |-> "none"]

Jobs == [method : Methods \cup {"none"},
         arg : {"none", "bare", "reason", "approved", "rejected", "installed", "asked"},
         target : Approvals \cup {NoApproval}, obj : Calls \cup {Boot}, next : Nat,
         result : Results, then : {"none", "running", "settle", "cancelRead", "cancelWrite"}]

NoJob == [method |-> "none", arg |-> "none", target |-> NoApproval, obj |-> Boot,
          next |-> 0, result |-> "none", then |-> "none"]

Init ==
  /\ run = NoRun
  /\ current = Boot
  /\ flag = [o \in Calls \cup {Boot} |-> "clear"]
  /\ decision = [a \in Approvals |-> "absent"]
  /\ scope = [a \in Approvals |-> SkillInstall]
  /\ grants = {}
  /\ effects = {}
  /\ ckpts = [count |-> 0, top |-> 0, final |-> FALSE]
  /\ journal = NoEvents
  /\ pc = [c \in Calls |-> "idle"]
  /\ job = [c \in Calls |-> NoJob]

-----------------------------------------------------------------------------
(*****************************************************************************)
(* The guards of the handlers, and the changes that RunStateStore.update      *)
(* makes, as functions of the run's record.  An operator called a mutant of   *)
(* another is what a plausible mistake would make of it: no action uses it.   *)
(*****************************************************************************)
CanResume(s) ==
  /\ s.status \notin {"absent", "completed", "failed"}
  /\ ~s.awaiting
  /\ s.resumable

CanReply(s) ==
  /\ s.status \notin {"absent", "completed", "failed", "cancelled"}
  /\ ~s.awaiting
  /\ s.resumable
  /\ s.pause = "awaiting_user_input"

CanCancel(s) == s.status \notin {"absent", "completed", "failed", "cancelled"}

(* Mutant of CanApprove: any approval of the run may be decided.              *)
CanApproveAny(s, a) == s.status \notin {"absent", "cancelled"}

CanApprove(s, a) ==
  /\ s.status \notin {"absent", "cancelled"}
  /\ scope[a] = SkillInstall \/ s.pending = a

(* The statuses in which cancel_run moves the run to cancelled by itself.     *)
Interruptible == {"paused", "awaiting_approval", "accepted"}

Accepted == [NoRun EXCEPT !.status = "accepted"]

(* _execute_run marks the run: pending_approval_id is left as it is.          *)
Executing(s) ==
  [s EXCEPT !.status = "executing", !.awaiting = FALSE, !.resumable = FALSE,
            !.pause = "none"]

(* _handle_harness_event on checkpoint.saved.                                 *)
Checkpointed(s) == [s EXCEPT !.resumable = TRUE]

(* _create_approval_request: the status is still executing.                   *)
Waiting(s, a) ==
  [s EXCEPT !.awaiting = TRUE, !.pending = a, !.resumable = TRUE,
            !.pause = "awaiting_approval"]

AwaitingApproval(s, a) == [Waiting(s, a) EXCEPT !.status = "awaiting_approval"]

Suspended(s, why) ==
  [s EXCEPT !.status = "paused", !.awaiting = FALSE, !.pending = NoApproval,
            !.resumable = TRUE, !.pause = why]

(* Success leaves awaiting_approval and pending_approval_id as they are.      *)
Completed(s) == [s EXCEPT !.status = "completed", !.resumable = FALSE, !.pause = "none"]

Failed(s) ==
  [s EXCEPT !.status = "failed", !.awaiting = FALSE, !.pending = NoApproval,
            !.resumable = FALSE, !.pause = "none"]

Cancelled(s, why) ==
  [s EXCEPT !.status = "cancelled", !.awaiting = FALSE, !.pending = NoApproval,
            !.resumable = TRUE, !.pause = why]

(* Mutants of Decided: the record keeps waiting, for the approval decided or   *)
(* for none.                                                                 *)
DecidedUnnoticed(s) == s
DecidedHalf(s)      == [s EXCEPT !.pending = NoApproval]

Decided(s) == [s EXCEPT !.awaiting = FALSE, !.pending = NoApproval]

(* Mutant of PauseReason: only the approval is translated.                    *)
PauseReasonRaw(result) == IF result = "approval" THEN "awaiting_approval" ELSE result

(* AgentExecutionResult.pause_reason, with the default of the cancel path.    *)
PauseReason(result) ==
  CASE result = "approval" -> "awaiting_approval"
    [] result = "input"    -> "awaiting_user_input"
    [] result = "upstream" -> "upstream"
    [] OTHER               -> "cancel_requested"

(* RunCancellation.request: the first reason given is kept.                   *)
Signalled(f, arg) == IF f = "reason" THEN f ELSE arg

(* RunCancellation.requested, and the probe that the harness is given, which  *)
(* answers with the reason: a request without one does not show in it.        *)
Requested(f)   == f # "clear"
ProbeFires(f)  == f = "reason"

(* Mutant of Saved: the reason of the checkpoint is lost.                     *)
SavedWithoutReason(ck, index, final) ==
  [count |-> ck.count + 1,
   top   |-> IF index >= ck.top THEN index ELSE ck.top,
   final |-> FALSE]

(* CheckpointStore.save_metadata: the latest row is the one with the highest  *)
(* checkpoint_index and, of two with the same index, the later one.           *)
Saved(ck, index, final) ==
  [count |-> ck.count + 1,
   top   |-> IF index >= ck.top THEN index ELSE ck.top,
   final |-> IF index >= ck.top THEN final ELSE ck.final]

-----------------------------------------------------------------------------
Active(c) == pc[c] \notin {"idle", "done"} \cup Dead
Quiet     == \A c \in Calls : ~Active(c)

(* A call arrives in a thread of its own.  Quiet is only asked of the methods *)
(* outside Overlap: it is the discipline of a client that waits for the run.  *)
Arrive(c, method, arg, target, to) ==
  /\ pc[c] = "idle"
  /\ Quiet \/ method \in Overlap
  /\ pc' = [pc EXCEPT ![c] = to]
  /\ job' = [job EXCEPT ![c] = [NoJob EXCEPT !.method = method, !.arg = arg,
                                             !.target = target]]

Goto(c, to) == pc' = [pc EXCEPT ![c] = to]

End(c, how) ==
  /\ pc' = [pc EXCEPT ![c] = how]
  /\ job' = [job EXCEPT ![c] = NoJob]

Return(c) == End(c, "done")

Publish(e) == journal' = AppendEvent(journal, e)

(* task.create: start_run.  Nobody knows the run before it is launched, so    *)
(* the steps of the handler are one.                                          *)
Create(c) ==
  /\ run.status = "absent"
  /\ Arrive(c, "create", "none", NoApproval, "begin")
  /\ run' = Accepted
  /\ current' = c
  /\ Publish(Plain("other"))
  /\ UNCHANGED <<flag, decision, scope, grants, effects, ckpts>>

(* task.resume: resume_run checks a snapshot of the run ...                   *)
Resume(c) ==
  /\ CanResume(run)
  /\ Arrive(c, "resume", "none", NoApproval, "clear")
  /\ UNCHANGED <<memory, durable>>

(* ... and then replaces the cancellation object and launches.                *)
ClearCancellation(c) ==
  /\ pc[c] = "clear"
  /\ current' = c
  /\ Goto(c, "begin")
  /\ UNCHANGED <<run, flag, durable, job>>

(* task.reply: reply_to_run, which keeps the cancellation object.             *)
Reply(c) ==
  /\ CanReply(run)
  /\ Arrive(c, "reply", "none", NoApproval, "replying")
  /\ UNCHANGED <<memory, durable>>

ReplyLaunch(c) ==
  /\ pc[c] = "replying"
  /\ Publish(Plain("other"))
  /\ Goto(c, "begin")
  /\ UNCHANGED <<memory, decision, scope, grants, effects, ckpts, job>>

(* task.cancel: cancel_run decides by the status it read first whether to     *)
(* leave the cancellation to the execution ...                               *)
Interrupt(c, arg) ==
  /\ CanCancel(run) /\ run.status \notin Interruptible
  /\ Arrive(c, "interrupt", arg, NoApproval, "signal")
  /\ UNCHANGED <<memory, durable>>

(* ... or to move the run to cancelled itself.                               *)
Cancel(c, arg) ==
  /\ CanCancel(run) /\ run.status \in Interruptible
  /\ Arrive(c, "cancel", arg, NoApproval, "signalNow")
  /\ UNCHANGED <<memory, durable>>

Signal(c) ==
  /\ pc[c] \in {"signal", "signalNow"}
  /\ flag' = [flag EXCEPT ![current] = Signalled(@, job[c].arg)]
  /\ \/ pc[c] = "signal"    /\ Return(c)
     \/ pc[c] = "signalNow" /\ Goto(c, "cancelRead") /\ UNCHANGED job
  /\ UNCHANGED <<run, current, durable>>

(* task.approve with either decision: the run's record is checked first.      *)
Approve(c, a, arg) ==
  /\ decision[a] # "absent"
  /\ CanApprove(run, a)
  /\ Arrive(c, "approve", arg, a, "decideRead")
  /\ UNCHANGED <<memory, durable>>

(* Mutant of DecideRead: a request that was decided may be decided again.     *)
DecideReadAnyway(c) ==
  /\ pc[c] = "decideRead"
  /\ Goto(c, "decideWrite")
  /\ UNCHANGED <<memory, durable, job>>

(* ApprovalStore.decide reads the row, and later overwrites it.               *)
DecideRead(c) ==
  /\ pc[c] = "decideRead"
  /\ \/ decision[job[c].target] = "pending" /\ Goto(c, "decideWrite") /\ UNCHANGED job
     \/ decision[job[c].target] # "pending" /\ Return(c)
  /\ UNCHANGED <<memory, durable>>

DecideWrite(c) ==
  /\ pc[c] = "decideWrite"
  /\ decision' = [decision EXCEPT ![job[c].target] = job[c].arg]
  /\ Goto(c, "decided")
  /\ UNCHANGED <<memory, scope, grants, effects, ckpts, journal, job>>

(* decide reads the row once more, and its answer selects the branch; the     *)
(* run's record forgets the approval it waits for, whichever that is.         *)
AfterDecision(c) ==
  LET a == job[c].target IN
  IF decision[a] = "approved" THEN "grant"
  ELSE IF scope[a] = SkillInstall THEN "skillPublish" ELSE "rejectState"

ApplyDecision(c) ==
  /\ pc[c] = "decided"
  /\ run' = Decided(run)
  /\ Goto(c, AfterDecision(c))
  /\ UNCHANGED <<current, flag, durable, job>>

(* Mutant of Grant: the grant is not limited to the boundary asked for.       *)
GrantEverything(c) ==
  /\ pc[c] = "grant"
  /\ grants' = Boundaries \cup {SkillInstall}
  /\ \/ scope[job[c].target] # SkillInstall /\ Goto(c, "resumeCheck")
     \/ scope[job[c].target] = SkillInstall /\ Goto(c, "skillPublish")
  /\ UNCHANGED <<memory, decision, scope, effects, ckpts, journal, job>>

(* An approved boundary is granted and the run resumed in the same call.  An  *)
(* approved skill installation is granted and installed: _approve_skill_install *)
(* does not resume the run, whether the installation succeeds or raises.      *)
Grant(c) ==
  LET a == job[c].target IN
  /\ pc[c] = "grant"
  /\ grants' = grants \cup {scope[a]}
  /\ \/ scope[a] # SkillInstall /\ Goto(c, "resumeCheck")
     \/ scope[a] = SkillInstall /\ Goto(c, "skillPublish")
  /\ UNCHANGED <<memory, decision, scope, effects, ckpts, journal, job>>

ResumeApproved(c) ==
  /\ pc[c] = "resumeCheck"
  /\ \/ CanResume(run)  /\ Goto(c, "clear") /\ UNCHANGED job
     \/ ~CanResume(run) /\ Return(c)
  /\ UNCHANGED <<memory, durable>>

RejectRun(c) ==
  /\ pc[c] = "rejectState"
  /\ run' = Failed(run)
  /\ Goto(c, "publish")
  /\ job' = [job EXCEPT ![c].result = "failed"]
  /\ UNCHANGED <<current, flag, durable>>

(* skill.install as a method: the policy lets it install at once, or it asks  *)
(* for an approval, without touching the run's record.                        *)
InstallSkill(c) ==
  /\ run.status # "absent"
  /\ Arrive(c, "skill", "installed", NoApproval, "skillPublish")
  /\ UNCHANGED <<memory, durable>>

AskSkillInstall(c, a) ==
  /\ run.status # "absent"
  /\ SkillInstall \notin grants
  /\ decision[a] = "absent"
  /\ Arrive(c, "skill", "asked", a, "skillPublish")
  /\ decision' = [decision EXCEPT ![a] = "pending"]
  /\ scope' = [scope EXCEPT ![a] = SkillInstall]
  /\ UNCHANGED <<memory, grants, effects, ckpts, journal>>

(* The last event of a skill installation: approval.requested when it asks,   *)
(* skill.install.completed or .failed otherwise.                              *)
PublishSkill(c) ==
  /\ pc[c] = "skillPublish"
  /\ Publish(IF job[c].arg = "asked" THEN Asked(job[c].target) ELSE Plain("other"))
  /\ Return(c)
  /\ UNCHANGED <<memory, decision, scope, grants, effects, ckpts>>

-----------------------------------------------------------------------------
(*****************************************************************************)
(* _execute_run and the harness.                                             *)
(*****************************************************************************)
(* The execution takes the cancellation object of the moment and builds its   *)
(* checkpoint controller, whose next index is the number of rows.             *)
Begin(c) ==
  /\ pc[c] = "begin"
  /\ job' = [job EXCEPT ![c].obj = current, ![c].next = ckpts.count]
  /\ Goto(c, IF Requested(flag[current]) THEN "cancelRead" ELSE "mark")
  /\ UNCHANGED <<memory, durable>>

Mark(c) ==
  /\ pc[c] = "mark"
  /\ run' = Executing(run)
  /\ Goto(c, "announce")
  /\ UNCHANGED <<current, flag, durable, job>>

Announce(c) ==
  /\ pc[c] = "announce"
  /\ Publish(Plain(IF job[c].method = "create" THEN "other" ELSE "resumed"))
  /\ Goto(c, "enter")
  /\ UNCHANGED <<memory, decision, scope, grants, effects, ckpts, job>>

(* Leave for a checkpoint that is followed by the step then.                  *)
Save(c, result, then) ==
  /\ Goto(c, "record")
  /\ job' = [job EXCEPT ![c].result = result, ![c].then = then]

Interrupted(c) == ProbeFires(flag[job[c].obj])

(* The sandbox of the run is set up outside of every try: if a directory of   *)
(* the workspace cannot be made, the thread ends there.                       *)
Lose(c) ==
  /\ pc[c] = "enter"
  /\ End(c, "lost")
  /\ UNCHANGED <<memory, durable>>

(* Mutant of Enter: the agent is invoked without a checkpoint.                *)
EnterUnsaved(c) ==
  /\ pc[c] = "enter"
  /\ Publish(Plain("other"))
  /\ \/ Interrupted(c)  /\ Save(c, "cancelled", "cancelRead")
     \/ ~Interrupted(c) /\ Goto(c, "running") /\ UNCHANGED job
  /\ UNCHANGED <<memory, decision, scope, grants, effects, ckpts>>

(* The harness publishes plan.updated, looks at the probe, and records a      *)
(* checkpoint before it invokes the agent.  When the probe answers, nothing   *)
(* is left for _execute_run to store, and it goes on to the cancellation.     *)
Enter(c) ==
  /\ pc[c] = "enter"
  /\ Publish(Plain("other"))
  /\ \/ Interrupted(c)  /\ Save(c, "cancelled", "cancelRead")
     \/ ~Interrupted(c) /\ Save(c, "none", "running")
  /\ UNCHANGED <<memory, decision, scope, grants, effects, ckpts>>

(* A checkpoint is a row, then a change of the run's record, then an event.   *)
Record(c) ==
  /\ pc[c] = "record"
  /\ ckpts' = Saved(ckpts, job[c].next,
                    job[c].then = "settle" /\ job[c].result = "success")
  /\ job' = [job EXCEPT ![c].next = @ + 1]
  /\ Goto(c, "note")
  /\ UNCHANGED <<memory, decision, scope, grants, effects, journal>>

NoteCheckpoint(c) ==
  /\ pc[c] = "note"
  /\ run' = Checkpointed(run)
  /\ Goto(c, "notePublish")
  /\ UNCHANGED <<current, flag, durable, job>>

PublishCheckpoint(c) ==
  /\ pc[c] = "notePublish"
  /\ Publish(Plain("other"))
  /\ Goto(c, job[c].then)
  /\ UNCHANGED <<memory, decision, scope, grants, effects, ckpts, job>>

(* Mutant of PerformOperation: the policy is not asked.                       *)
PerformUngoverned(c, b) ==
  /\ pc[c] = "running"
  /\ ~Interrupted(c)
  /\ effects' = effects \cup {b}
  /\ Publish(Plain("other"))
  /\ UNCHANGED <<memory, decision, scope, grants, ckpts, pc, job>>

(* A tool call: the probe, then the policy decision, then the effect.  The    *)
(* policy lets an operation pass whose boundary is granted to the run.        *)
PerformOperation(c, b) ==
  /\ pc[c] = "running"
  /\ ~Interrupted(c)
  /\ b \in grants
  /\ effects' = effects \cup {b}
  /\ Publish(Plain("other"))
  /\ UNCHANGED <<memory, decision, scope, grants, ckpts, pc, job>>

(* Otherwise it asks: a row, the run's record, approval.requested.            *)
AskApproval(c, b, a) ==
  /\ pc[c] = "running"
  /\ ~Interrupted(c)
  /\ b \notin grants
  /\ decision[a] = "absent"
  /\ decision' = [decision EXCEPT ![a] = "pending"]
  /\ scope' = [scope EXCEPT ![a] = b]
  /\ job' = [job EXCEPT ![c].target = a]
  /\ Goto(c, "askState")
  /\ UNCHANGED <<memory, grants, effects, ckpts, journal>>

MarkWaiting(c) ==
  /\ pc[c] = "askState"
  /\ run' = Waiting(run, job[c].target)
  /\ Goto(c, "askPublish")
  /\ UNCHANGED <<current, flag, durable, job>>

(* InterruptBridge.authorize then records a checkpoint; the skill_install     *)
(* tool asks without the bridge.                                              *)
PublishAsked(c) ==
  /\ pc[c] = "askPublish"
  /\ Publish(Asked(job[c].target))
  /\ IF scope[job[c].target] = SkillInstall
     THEN /\ Goto(c, "settle")
          /\ job' = [job EXCEPT ![c].result = "approval"]
     ELSE Save(c, "approval", "settle")
  /\ UNCHANGED <<memory, decision, scope, grants, effects, ckpts>>

(* The agent asks the user, or it returns, or the probe answers it.           *)
Yield(c) ==
  /\ pc[c] = "running"
  /\ \/ Interrupted(c) /\ Save(c, "cancelled", "settle")
     \/ /\ ~Interrupted(c)
        /\ \E result \in {"input", "success"} : Save(c, result, "settle")
  /\ UNCHANGED <<memory, durable>>

(* An exception or an unsuccessful outcome: no checkpoint.                    *)
Break(c) ==
  /\ pc[c] = "running"
  /\ \E result \in {"failed", "upstream"} : job' = [job EXCEPT ![c].result = result]
  /\ Goto(c, "settle")
  /\ UNCHANGED <<memory, durable>>

(* Mutant of Settle: a request that the harness did not see is forgotten.     *)
SettleUnaware(c) ==
  /\ pc[c] = "settle"
  /\ Goto(c, IF job[c].result = "cancelled" THEN "cancelRead" ELSE "write")
  /\ UNCHANGED <<memory, durable, job>>

(* Back in _execute_run, which stores the agent's answer, the compaction that *)
(* the agent was given, and the output files, outside of every try: if the    *)
(* model that summarises fails or a file is gone, the thread ends, whatever   *)
(* the result and the request to cancel.                                      *)
Strand(c) ==
  /\ pc[c] = "settle"
  /\ End(c, "stranded")
  /\ UNCHANGED <<memory, durable>>

(* When all is stored, a cancelled result or a request makes it a             *)
(* cancellation.                                                              *)
Settle(c) ==
  /\ pc[c] = "settle"
  /\ Goto(c, IF job[c].result = "cancelled" \/ Requested(flag[job[c].obj])
             THEN "cancelRead" ELSE "write")
  /\ UNCHANGED <<memory, durable, job>>

(* The record the outcome of an execution leaves behind.                      *)
Outcome(s, j) ==
  CASE j.result = "success"  -> Completed(s)
    [] j.result = "failed"   -> Failed(s)
    [] j.result = "approval" -> AwaitingApproval(s, j.target)
    [] OTHER                 -> Suspended(s, PauseReason(j.result))

WriteOutcome(c) ==
  /\ pc[c] = "write"
  /\ run' = Outcome(run, job[c])
  /\ IF job[c].result = "approval" THEN Return(c)
     ELSE Goto(c, "publish") /\ UNCHANGED job
  /\ UNCHANGED <<current, flag, durable>>

PublishOutcome(c) ==
  /\ pc[c] = "publish"
  /\ Publish(CASE job[c].result = "success" -> Plain("completed")
               [] job[c].result = "failed"  -> Plain("failed")
               [] OTHER                     -> Paused(PauseReason(job[c].result)))
  /\ Return(c)
  /\ UNCHANGED <<memory, decision, scope, grants, effects, ckpts>>

-----------------------------------------------------------------------------
(*****************************************************************************)
(* _transition_to_cancelled, called by cancel_run and by _execute_run: it     *)
(* reads the status, records a checkpoint unless the harness did, and then    *)
(* overwrites the status, whatever it is by then.                             *)
(*****************************************************************************)
CancelRead(c) ==
  /\ pc[c] = "cancelRead"
  /\ \/ run.status = "cancelled" /\ Return(c)
     \/ /\ run.status # "cancelled"
        /\ job[c].result = "cancelled"
        /\ Goto(c, "cancelWrite")
        /\ UNCHANGED job
     \/ /\ run.status # "cancelled"
        /\ job[c].result # "cancelled"
        /\ Goto(c, "record")
        /\ job' = [job EXCEPT ![c].then = "cancelWrite",
                              ![c].next = IF job[c].method = "cancel" THEN ckpts.count ELSE @]
  /\ UNCHANGED <<memory, durable>>

CancelWrite(c) ==
  /\ pc[c] = "cancelWrite"
  /\ run' = Cancelled(run, PauseReason(job[c].result))
  /\ Goto(c, "cancelPublish")
  /\ UNCHANGED <<current, flag, durable, job>>

PublishCancelled(c) ==
  /\ pc[c] = "cancelPublish"
  /\ Publish(Plain("other"))
  /\ Return(c)
  /\ UNCHANGED <<memory, decision, scope, grants, effects, ckpts>>

-----------------------------------------------------------------------------
Request(c) ==
  \/ Create(c) \/ Resume(c) \/ Reply(c) \/ InstallSkill(c)
  \/ \E arg \in {"bare", "reason"} : Interrupt(c, arg) \/ Cancel(c, arg)
  \/ \E a \in Approvals, arg \in {"approved", "rejected"} : Approve(c, a, arg)
  \/ \E a \in Approvals : AskSkillInstall(c, a)

Handle(c) ==
  \/ ClearCancellation(c) \/ ReplyLaunch(c) \/ Signal(c)
  \/ DecideRead(c) \/ DecideWrite(c) \/ ApplyDecision(c) \/ Grant(c)
  \/ ResumeApproved(c) \/ RejectRun(c) \/ PublishSkill(c)
  \/ CancelRead(c) \/ CancelWrite(c) \/ PublishCancelled(c)

Execute(c) ==
  \/ Begin(c) \/ Mark(c) \/ Announce(c) \/ Lose(c) \/ Enter(c)
  \/ Record(c) \/ NoteCheckpoint(c) \/ PublishCheckpoint(c)
  \/ MarkWaiting(c) \/ PublishAsked(c) \/ Yield(c) \/ Break(c)
  \/ \E b \in Boundaries \cup {SkillInstall} :
       PerformOperation(c, b) \/ \E a \in Approvals : AskApproval(c, b, a)
  \/ Strand(c) \/ Settle(c) \/ WriteOutcome(c) \/ PublishOutcome(c)

Step(c) == Handle(c) \/ Execute(c)

Next == \E c \in Calls : Request(c) \/ Step(c)

Spec == Init /\ [][Next]_vars

(* A thread that can take a step takes one: threads of the operating system   *)
(* are scheduled fairly, and the agent of every execution returns (the graph  *)
(* the harness invokes has a bounded number of steps).                        *)
Fairness == \A c \in Calls : WF_vars(Step(c))

FairSpec == Spec /\ Fairness
-----------------------------------------------------------------------------
(*****************************************************************************)
(* Properties for any client, with calls that overlap in every way.           *)
(*****************************************************************************)
(* Every variable has its type: in particular an execution never leaves a     *)
(* status, a pause reason or a program point behind that the code does not    *)
(* name.                                                                     *)
TypeOK ==
  /\ run \in Runs
  /\ current \in Calls \cup {Boot}
  /\ flag \in [Calls \cup {Boot} -> {"clear", "bare", "reason"}]
  /\ decision \in [Approvals -> {"absent", "pending", "approved", "rejected"}]
  /\ scope \in [Approvals -> Boundaries \cup {SkillInstall}]
  /\ grants \subseteq Boundaries \cup {SkillInstall}
  /\ effects \subseteq Boundaries \cup {SkillInstall}
  /\ ckpts \in [count : Nat, top : Nat, final : BOOLEAN]
  /\ journal \in Journals
  /\ pc \in [Calls -> PCs]
  /\ job \in [Calls -> Jobs]

(* A run that says executing and cannot be resumed is on its way to its next  *)
(* checkpoint: some execution is between marking the run (_execute_run) and   *)
(* noting that checkpoint, or ended because its sandbox could not be set up.  *)
(* So whenever the thread of a run has died otherwise, task.resume gets on    *)
(* with it, at once or after the approval it waits for; nothing else does,    *)
(* for task.cancel leaves an executing run to its execution.                  *)
ExecutingIsResumable ==
  run.status = "executing" /\ ~run.resumable =>
    \E c \in Calls : pc[c] \in {"announce", "enter", "record", "note", "lost"}

(* A run that resume_run lets through has a checkpoint row, so that           *)
(* LangGraphCheckpointAdapter.resume_run finds a handle and the call does not *)
(* fail after it has replaced the cancellation object.                        *)
ResumableHasCheckpoint == run.resumable => ckpts.count > 0

(* A run that says it waits for an approval names a request that exists in    *)
(* the approval store: the client can fetch it and decide.                    *)
AwaitingNamesApproval ==
  run.awaiting => run.pending \in Approvals /\ decision[run.pending] # "absent"

(* The policy lets an operation across a boundary happen only after somebody  *)
(* was asked for this very boundary and the request was decided.              *)
EffectsWereAsked ==
  /\ effects \subseteq grants
  /\ \A b \in grants : \E a \in Approvals :
        scope[a] = b /\ decision[a] \in {"approved", "rejected"}

(*****************************************************************************)
(* Properties for a client that sends the next call when the last one is      *)
(* over, except that it may interrupt an executing run: Overlap = {interrupt}.*)
(*****************************************************************************)
(* A completed or failed run stays so.                                       *)
TerminalIsFinal ==
  [][run.status \in {"completed", "failed"} => run'.status = run.status]_vars

(* An approval that was decided once is never decided otherwise.              *)
DecisionIsFinal ==
  [][\A a \in Approvals :
       decision[a] \in {"approved", "rejected"} => decision'[a] = decision[a]]_vars

(* The user said yes to every boundary that was ever crossed, and no later    *)
(* event turned that yes into a no.                                          *)
EffectsAreApproved ==
  \A b \in effects : \E a \in Approvals : scope[a] = b /\ decision[a] = "approved"

(* No approval concerns a skill installation.                                *)
NoSkillApproval == \A a \in Approvals : decision[a] # "absent" => scope[a] # SkillInstall

(* The sandbox of some execution could not be set up.                         *)
Lost == \E c \in Calls : pc[c] = "lost"

(* When all calls are over the client can get on with the run: it is over, or *)
(* it can be resumed, or it waits for an approval that is still undecided,    *)
(* also after its thread has died of an exception behind the harness.  Skill  *)
(* installations are left out (see ApprovedRunResumes), and so is a run whose *)
(* sandbox could not be set up, which stays executing for good.               *)
NoDeadEnd ==
  (Quiet /\ NoSkillApproval /\ ~Lost) =>
     \/ run.status \in {"absent", "completed", "failed"}
     \/ run.status # "awaiting_approval" /\ CanResume(run)
     \/ run.awaiting /\ decision[run.pending] = "pending"

(* What a restart would rebuild of the run.                                   *)
Recovered == RecoveredRun(journal, ckpts)

(* The run stopped by itself: all calls are over, and it was neither          *)
(* cancelled nor left executing by a thread that died.  The events of a skill *)
(* installation after the failure of a run hide that failure; see also        *)
(* CancelledSurvives in RunRecovery.                                         *)
Settled ==
  /\ Quiet /\ NoSkillApproval
  /\ run.status \notin {"absent", "cancelled", "executing"}
  /\ run.status = "failed" => journal.last = "failed"

(* A thread that died left the run executing.                                 *)
Abandoned == Quiet /\ NoSkillApproval /\ run.status = "executing"

(* A restart rebuilds the same status and the same pending approval from the  *)
(* event history, and lets the client resume and reply exactly as before.     *)
(* Of a run that a thread abandoned it rebuilds what the client can go on     *)
(* with: the approval that it waits for, or a run that can be resumed, or one *)
(* that is completed because the agent had succeeded.                         *)
RecoveryFaithful ==
  /\ Settled =>
       /\ Recovered.status = run.status
       /\ run.status = "awaiting_approval" => Recovered.pending = run.pending
       /\ CanResume(Recovered) <=> CanResume(run)
       /\ CanReply(Recovered) <=> CanReply(run)
  /\ Abandoned =>
       /\ run.awaiting <=> Recovered.status = "awaiting_approval"
       /\ run.awaiting => Recovered.pending = run.pending
       /\ CanResume(run) => CanResume(Recovered) \/ (Recovered.status = "completed" /\ ckpts.final)

(*****************************************************************************)
(* What documents say and the code does not do.                              *)
(*****************************************************************************)
(* "Execution resumes once approved": a run that the client finds stopped at  *)
(* awaiting_approval has an approval to be decided, or never got one.         *)
ApprovedRunResumes ==
  (Quiet /\ run.status = "awaiting_approval") =>
     run.awaiting \/ \A a \in Approvals : decision[a] # "approved"

(*****************************************************************************)
(* Liveness, under Fairness.                                                 *)
(*****************************************************************************)
(* An execution that was asked to stop before it settled its result leaves    *)
(* the run cancelled, whatever the agent was doing: starting, working, asking *)
(* for an approval, asking the user, completing or failing.  Only an          *)
(* exception that ends this very thread keeps the request from its effect.    *)
CancellationTakesEffect ==
  \A c \in Calls :
    (pc[c] \in {"mark"} \cup (Harness \ {"write"}) /\ Requested(flag[job[c].obj]))
       ~> run.status = "cancelled" \/ pc[c] \in Dead
=============================================================================
