-------------------------------- MODULE EventScan --------------------------------
(*****************************************************************************)
(* recovery_service.py as it is written: every fact about a run is found by   *)
(* scanning the list of its events, and the list is whatever has been         *)
(* appended.  RunJournal keeps a summary of the list instead; RebuildsTheSame *)
(* says that nothing is lost by it.                                          *)
(*****************************************************************************)
EXTENDS RunJournal, SequencesExt

CONSTANT MaxEvents   \* bounds the length of a history

VARIABLES
  events,   \* EventStore.get_events of the run, oldest first
  journal   \* what RunJournal keeps of it

(* The index of the last event that satisfies Test, 0 if there is none.       *)
Latest(Test(_)) == SelectLastInSeq(events, Test)

HasUnresolvedApproval ==
  Latest(LAMBDA e : e.type = "approval")
    > Latest(LAMBDA e : e.type \in {"resumed", "failed", "completed"})

PendingApprovalId ==
  LET i == Latest(LAMBDA e : e.type = "approval" /\ e.approval # NoApproval)
  IN IF i = 0 THEN NoApproval ELSE events[i].approval

(* The resume handle ck is None when the run has no checkpoint row.           *)
StatusFromEvents(ck) ==
  LET latest == events[Len(events)].type IN
  IF latest \in {"completed", "failed"} THEN latest
  ELSE IF latest = "approval" \/ HasUnresolvedApproval THEN "awaiting_approval"
  ELSE IF latest = "paused"  THEN "paused"
  ELSE IF latest = "resumed" THEN "executing"
  ELSE IF ck.count > 0 /\ ck.final THEN "completed"
  ELSE IF ck.count > 0 THEN "paused"
  ELSE "executing"

PauseReasonFromEvents(status) ==
  LET i == Latest(LAMBDA e : e.type = "paused" /\ e.reason # "none") IN
  IF status = "awaiting_approval" THEN "awaiting_approval"
  ELSE IF i = 0 THEN "none" ELSE events[i].reason

(* _rebuild_run_state on the whole list.                                     *)
RebuildRunState(ck) ==
  LET status == StatusFromEvents(ck) IN
  [status    |-> status,
   awaiting  |-> status = "awaiting_approval",
   pending   |-> IF status = "awaiting_approval" THEN PendingApprovalId ELSE NoApproval,
   resumable |-> status \in {"paused", "awaiting_approval"} /\ ck.count > 0,
   pause     |-> PauseReasonFromEvents(status)]

-----------------------------------------------------------------------------
(* The events that are ever published: approval.requested names an approval,  *)
(* task.paused has a reason.                                                 *)
Publishable ==
  {Plain(type) : type \in {"other", "resumed", "completed", "failed"}}
    \cup {Asked(a) : a \in Approvals}
    \cup {Paused(why) : why \in PauseReasons \ {"none"}}

Init == events = <<>> /\ journal = NoEvents

Publish(e) ==
  /\ Len(events) < MaxEvents
  /\ events' = Append(events, e)
  /\ journal' = AppendEvent(journal, e)

Next == \E e \in Publishable : Publish(e)

Spec == Init /\ [][Next]_<<events, journal>>

-----------------------------------------------------------------------------
(* Whatever was published, in whatever order, and whatever checkpoints there  *)
(* are, a restart that scans the list rebuilds the record that RecoveredRun   *)
(* computes from the summary.                                                *)
RebuildsTheSame ==
  events # <<>> =>
    \A count \in 0..1, final \in BOOLEAN :
      LET ck == [count |-> count, final |-> final]
      IN RebuildRunState(ck) = RecoveredRun(journal, ck)
=============================================================================
