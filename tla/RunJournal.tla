------------------------------- MODULE RunJournal -------------------------------
(*****************************************************************************)
(* The durable event history of one run, reduced to what a restart reads.     *)
(*                                                                           *)
(* TaskRunner._publish appends every event of a run to the event store, and   *)
(* RecoveryService.recover folds the whole list back into a RunState.  The    *)
(* fold looks at four facts only: the type of the last event, whether an      *)
(* approval.requested event is later than every task.resumed, task.failed     *)
(* and task.completed event, the approval named by the last                  *)
(* approval.requested event, and the reason of the last task.paused event.    *)
(* A journal is the record of these four facts, maintained as events are      *)
(* appended; EventScan defines the same facts by scanning the list, the way    *)
(* the code does, and compares the two.                                      *)
(*****************************************************************************)
EXTENDS Naturals

CONSTANTS
  Approvals,   \* identifiers of approval requests; bounds how many are ever made
  NoApproval   \* the value None of pending_approval_id

ASSUME NoApprovalAssumption == NoApproval \notin Approvals

Statuses == {"absent", "accepted", "executing", "paused", "awaiting_approval",
             "cancelled", "completed", "failed"}

PauseReasons == {"none", "awaiting_approval", "awaiting_user_input",
                 "cancel_requested", "upstream"}

(* Every event type that _status_from_events does not look at, task.cancelled *)
(* among them, is "other".                                                    *)
EventTypes == {"none", "other", "resumed", "paused", "completed", "failed", "approval"}

Event == [type : EventTypes \ {"none"},
          approval : Approvals \cup {NoApproval},
          reason : PauseReasons]

Plain(type)  == [type |-> type, approval |-> NoApproval, reason |-> "none"]
(* Mutant of Asked: the event forgets which approval it asks for.             *)
AskedAnonymously(a) == Plain("approval")

Asked(a)     == [type |-> "approval", approval |-> a, reason |-> "none"]
Paused(why)  == [type |-> "paused", approval |-> NoApproval, reason |-> why]

Journals == [last : EventTypes, open : BOOLEAN,
             asked : Approvals \cup {NoApproval}, paused : PauseReasons]

NoEvents == [last |-> "none", open |-> FALSE, asked |-> NoApproval, paused |-> "none"]

(* Mutants of AppendEvent: task.resumed leaves an approval open; and only the  *)
(* last event decides whether one is.                                         *)
AppendNeverAnswered(j, e) ==
  [last   |-> e.type,
   open   |-> IF e.type = "approval" THEN TRUE
              ELSE j.open /\ e.type \notin {"failed", "completed"},
   asked  |-> IF e.type = "approval" THEN e.approval ELSE j.asked,
   paused |-> IF e.type = "paused" THEN e.reason ELSE j.paused]

AppendLastDecides(j, e) ==
  [last   |-> e.type,
   open   |-> e.type = "approval",
   asked  |-> IF e.type = "approval" THEN e.approval ELSE j.asked,
   paused |-> IF e.type = "paused" THEN e.reason ELSE j.paused]

(* The journal after one more event: EventStore.append_event as seen by the   *)
(* fold of recovery_service.py.                                              *)
AppendEvent(j, e) ==
  [last   |-> e.type,
   open   |-> IF e.type = "approval" THEN TRUE
              ELSE j.open /\ e.type \notin {"resumed", "failed", "completed"},
   asked  |-> IF e.type = "approval" THEN e.approval ELSE j.asked,
   paused |-> IF e.type = "paused" THEN e.reason ELSE j.paused]

(*****************************************************************************)
(* Reading a journal back.  A checkpoint summary ck has count, the number of  *)
(* checkpoint rows of the run, and final, whether the latest row has reason   *)
(* "run_completed".                                                           *)
(*****************************************************************************)
RecoveredStatus(j, ck) ==
  CASE j.last = "completed"                             -> "completed"
    [] j.last = "failed"                                -> "failed"
    [] j.last \notin {"completed", "failed"} /\ j.open   -> "awaiting_approval"
    [] j.last = "paused" /\ ~j.open                     -> "paused"
    [] j.last = "resumed" /\ ~j.open                    -> "executing"
    [] j.last = "other" /\ ~j.open /\ ck.count > 0      -> IF ck.final THEN "completed"
                                                           ELSE "paused"
    [] OTHER                                            -> "executing"

RecoveredPause(j, status) ==
  IF status = "awaiting_approval" THEN "awaiting_approval" ELSE j.paused

(* Mutant of RecoveredRun: resumable without asking for a checkpoint.         *)
RecoveredResumable(j, ck) ==
  LET status == RecoveredStatus(j, ck)
      waiting == status = "awaiting_approval"
  IN [status    |-> status,
      awaiting  |-> waiting,
      pending   |-> IF waiting THEN j.asked ELSE NoApproval,
      resumable |-> status \in {"paused", "awaiting_approval"},
      pause     |-> RecoveredPause(j, status)]

(* RecoveryService._rebuild_run_state: the RunState that a restart installs.  *)
RecoveredRun(j, ck) ==
  LET status == RecoveredStatus(j, ck)
      waiting == status = "awaiting_approval"
  IN [status    |-> status,
      awaiting  |-> waiting,
      pending   |-> IF waiting THEN j.asked ELSE NoApproval,
      resumable |-> status \in {"paused", "awaiting_approval"} /\ ck.count > 0,
      pause     |-> RecoveredPause(j, status)]
=============================================================================
