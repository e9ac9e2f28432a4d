--------------------------------- MODULE TuiStore ---------------------------------
(*****************************************************************************)
(* What the terminal client knows of the runs: AppStateStore, its reducers and  *)
(* the workers of AgentTUI that feed it.                                       *)
(*                                                                           *)
(* All workers are coroutines of one thread, so a message is reduced at once,  *)
(* but every await gives the others a chance: a response may be older than an   *)
(* event that has already been reduced, a selection may have changed while a    *)
(* dialog was open, and a stream that is no longer listened to goes on sending  *)
(* into the one event queue of the client.  Each stream begins with the history *)
(* of the run, so most events are reduced several times.                      *)
(*****************************************************************************)
EXTENDS Naturals, Sequences, FiniteSets, FiniteSetsExt, SequencesExt

CONSTANTS
  Tasks,
  MaxEvents,    \* [Tasks -> Nat]: bounds the events of a run
  MaxStreams,   \* bounds the task.logs.stream requests
  MaxQueued,    \* bounds the events that wait in the queue
  MaxInputs,    \* bounds the selections and the dialogs of the operator
  BufferLimit   \* EVENT_BUFFER_LIMIT

VARIABLES
  log,        \* the runtime's events of each run: [type, approval]
  feeds,      \* the runtime's streams: [task, next]
  events,     \* ProtocolClient._events: [task, number]
  snapshot,   \* task_snapshots: [status, pending_approval_id]
  approvals,  \* approvals_by_task: [task -> [approval -> status]]
  buffer,     \* run_event_buffers: the numbers of the events
  unread,     \* unread_event_counts
  selected,   \* selected_task_id
  chosen,     \* selected_approval_id
  dialog,     \* the approval named by the open confirmation, or NoApproval
  streamKey,  \* _stream_key
  listener,   \* the worker of group task-stream
  sync,       \* the worker of group selection-sync
  decide,     \* the worker of group approval-decision
  inputs      \* selections and dialogs there have been

tvars == <<log, feeds, events, snapshot, approvals, buffer, unread, selected, chosen, dialog,
           streamKey, listener, sync, decide, inputs>>
runtime == <<log, feeds>>
store   == <<snapshot, approvals, buffer, unread, selected, chosen>>
workers == <<streamKey, listener, sync, decide>>

None       == "none"
NoApproval == <<None, 0>>
Ids        == 1..Max({MaxEvents[t] : t \in Tasks})
Idle       == [at |-> "idle", task |-> None, reply |-> <<>>, approval |-> 0, from |-> 0]

TypeOK ==
  /\ \A t \in Tasks :
       /\ log[t] \in Seq([type : {"started", "asked", "resumed", "completed"}, approval : {0} \cup Ids])
       /\ Len(log[t]) <= MaxEvents[t]
       /\ buffer[t] \in Seq(1..Len(log[t])) /\ Len(buffer[t]) <= BufferLimit
       /\ snapshot[t].status \in {"unknown", "accepted", "executing", "awaiting", "completed"}
       /\ approvals[t] \in [Ids -> {"none", "pending", "decided"}]
  /\ selected \in Tasks \cup {None} /\ streamKey \in Tasks \cup {None}
  /\ {chosen, dialog} \subseteq (Tasks \X Ids) \cup {NoApproval}
  /\ listener.at \in {"idle", "ask", "listen"}
  /\ sync.at \in {"idle", "get", "got", "list", "listed"}
  /\ decide.at \in {"idle", "get", "got", "approve", "reread", "answered", "list", "listed"}

Init ==
  /\ log = [t \in Tasks |-> <<>>] /\ feeds = <<>> /\ events = <<>>
  /\ snapshot = [t \in Tasks |-> [status |-> "unknown", pending |-> 0]]
  /\ approvals = [t \in Tasks |-> [a \in Ids |-> "none"]]
  /\ buffer = [t \in Tasks |-> <<>>] /\ unread = [t \in Tasks |-> FALSE]
  /\ selected = None /\ chosen = NoApproval /\ dialog = NoApproval
  /\ streamKey = None /\ listener = Idle /\ sync = Idle /\ decide = Idle
  /\ inputs = 0

-----------------------------------------------------------------------------
(* The runtime: what a run has come to after its first n events.               *)
LastType(t, n)   == IF n = 0 THEN "accepted" ELSE log[t][n].type
Executing(t)     == LastType(t, Len(log[t])) \in {"started", "resumed"}
PendingAt(t, n)  == IF LastType(t, n) = "asked" THEN log[t][n].approval ELSE 0
Pending(t)       == PendingAt(t, Len(log[t]))

StatusOf(type) ==
  CASE type \in {"started", "resumed"} -> "executing" [] type = "asked" -> "awaiting"
    [] type = "completed" -> "completed" [] type = "accepted" -> "accepted"

Snapshot(t) == [status |-> StatusOf(LastType(t, Len(log[t]))), pending |-> Pending(t)]
Approvals(t) ==
  [a \in Ids |-> IF ~\E i \in DOMAIN log[t] : log[t][i].approval = a THEN "none"
                 ELSE IF a = Pending(t) THEN "pending" ELSE "decided"]

Emit(t, type, approval) == log' = [log EXCEPT ![t] = Append(@, [type |-> type, approval |-> approval])]

(* The events of a run: it starts, asks, is resumed by a decision (of another   *)
(* client) and completes.                                                     *)
RuntimeStep(t) ==
  /\ Len(log[t]) < MaxEvents[t]
  /\ \/ log[t] = <<>> /\ Emit(t, "started", 0)
     \/ Executing(t) /\ Emit(t, "asked", Len(log[t]) + 1)
     \/ Executing(t) /\ Emit(t, "completed", 0)
     \/ Pending(t) # 0 /\ Emit(t, "resumed", 0)
  /\ UNCHANGED <<feeds, events, store, dialog, workers, inputs>>

(* A stream writes its next event (module LogStream), whoever listens.         *)
Feed(f) ==
  LET t == feeds[f].task IN
  /\ feeds[f].next <= Len(log[t]) /\ Len(events) < MaxQueued
  /\ events' = Append(events, [task |-> t, number |-> feeds[f].next])
  /\ feeds' = [feeds EXCEPT ![f].next = @ + 1]
  /\ UNCHANGED <<log, store, dialog, workers, inputs>>

-----------------------------------------------------------------------------
(* The reducers.                                                             *)

Known(entries)  == {x \in Tasks \X Ids : entries[x[1]][x[2]] # "none"}
Open(entries)   == {x \in Tasks \X Ids : entries[x[1]][x[2]] = "pending"}
Newest(waiting) == IF waiting = {} THEN NoApproval
                   ELSE CHOOSE x \in waiting : \A y \in waiting : x[2] >= y[2]

(* _resolved_selected_approval_id: the approval stays selected while it is      *)
(* pending; otherwise the newest of any run takes its place.                  *)
Resolved(entries, current) == IF current \in Open(entries) THEN current ELSE Newest(Open(entries))

(* _merge_task_snapshot, for task.get and task.approve: the answer replaces the  *)
(* fields it has.  It has no pending_approval_id when there is none, so that the *)
(* one the store knows stays.                                                 *)
Merged(existing, incoming) ==
  [status |-> incoming.status,
   pending |-> IF incoming.pending = 0 THEN existing.pending ELSE incoming.pending]

ReduceTask(t, task) ==
  /\ snapshot' = [snapshot EXCEPT ![t] = Merged(@, task)]
  /\ selected' = IF selected = None THEN t ELSE selected

(* task.approvals.list: the entries of the run are replaced, if there are any. *)
ReduceApprovals(t, entries) ==
  LET now == IF \E a \in Ids : entries[a] # "none" THEN [approvals EXCEPT ![t] = entries]
             ELSE approvals
  IN /\ approvals' = now
     /\ chosen' = Resolved(now, chosen)

(* Mutant of Recorded: the event is appended whatever the buffer has.          *)
RecordedAgain(records, n) ==
  IF Len(records) < BufferLimit THEN Append(records, n) ELSE Append(Tail(records), n)

(* Mutant of Recorded: nothing makes room.                                    *)
RecordedUnlimited(records, n) ==
  IF n \in ToSet(records) THEN records ELSE Append(records, n)

(* _append_event_record: a record that is there already is not added again, and *)
(* the oldest makes room.                                                     *)
Recorded(records, n) ==
  IF n \in ToSet(records) THEN records
  ELSE IF Len(records) < BufferLimit THEN Append(records, n)
  ELSE Append(Tail(records), n)

(* _reduce_runtime_event: the snapshot follows the event, however old it is;    *)
(* approval.requested makes its approval pending, and the selected one if      *)
(* there is none.  The first task there is becomes the selected one, after the  *)
(* event has been counted as unread.                                          *)
ReduceEvent(t, n) ==
  LET e == log[t][n] IN
  /\ snapshot' = [snapshot EXCEPT ![t] =
       [status |-> StatusOf(e.type), pending |-> IF e.type = "started" THEN @.pending ELSE e.approval]]
  /\ buffer' = [buffer EXCEPT ![t] = Recorded(@, n)]
  /\ unread' = [unread EXCEPT ![t] = selected # t]
  /\ selected' = IF selected = None THEN t ELSE selected
  /\ IF e.type = "asked"
     THEN /\ approvals' = [approvals EXCEPT ![t][e.approval] = "pending"]
          /\ chosen' = IF chosen = NoApproval THEN <<t, e.approval>> ELSE chosen
     ELSE UNCHANGED <<approvals, chosen>>

-----------------------------------------------------------------------------
(* The workers.                                                              *)

(* _start_selected_task_stream: the worker of the group is replaced, unless the *)
(* run is being streamed.                                                     *)
StartStream(t) ==
  IF streamKey = t THEN UNCHANGED <<streamKey, listener>>
  ELSE /\ streamKey' = t
       /\ listener' = [Idle EXCEPT !.at = "ask", !.task = t]

(* handle_dashboard_task_selected: the selected approval is the newest of the   *)
(* task; a sync that is under way is cancelled.                               *)
Select(t) ==
  /\ selected # t
  /\ selected' = t
  /\ chosen' = Newest({x \in Open(approvals) : x[1] = t})
  /\ unread' = [unread EXCEPT ![t] = FALSE]
  /\ sync' = [Idle EXCEPT !.at = "get", !.task = t]
  /\ inputs < MaxInputs /\ inputs' = inputs + 1
  /\ UNCHANGED <<runtime, events, snapshot, approvals, buffer, dialog, streamKey, listener, decide>>

(* The runtime answers task.get or task.approvals.list; the answer is on its   *)
(* way while events overtake it.                                              *)
AnswerSync ==
  /\ \/ sync.at = "get"  /\ sync' = [sync EXCEPT !.at = "got", !.reply = Snapshot(sync.task)]
     \/ sync.at = "list" /\ sync' = [sync EXCEPT !.at = "listed", !.reply = Approvals(sync.task)]
  /\ UNCHANGED <<runtime, events, store, dialog, streamKey, listener, decide, inputs>>

(* _sync_selected_task and _load_task_related.                                *)
Sync ==
  /\ \/ /\ sync.at = "got"
        /\ ReduceTask(sync.task, sync.reply)
        /\ sync' = [sync EXCEPT !.at = "list", !.reply = <<>>]
        /\ UNCHANGED <<approvals, chosen, streamKey, listener>>
     \/ /\ sync.at = "listed"
        /\ ReduceApprovals(sync.task, sync.reply)
        /\ StartStream(sync.task)
        /\ sync' = Idle
        /\ UNCHANGED <<snapshot, selected>>
  /\ UNCHANGED <<runtime, events, buffer, unread, dialog, decide, inputs>>

(* consume_task_stream asks for the log with its history.                     *)
AskStream ==
  /\ listener.at = "ask" /\ Len(feeds) < MaxStreams
  /\ feeds' = Append(feeds, [task |-> listener.task, next |-> 1])
  /\ listener' = [listener EXCEPT !.at = "listen"]
  /\ UNCHANGED <<log, events, store, dialog, streamKey, sync, decide, inputs>>

(* ... and takes the events from the queue of the client: those of another run  *)
(* are lost, and the last one of the run ends the worker.                     *)
Consume ==
  /\ listener.at = "listen" /\ events # <<>>
  /\ LET t == Head(events).task
         n == Head(events).number
         last == t = listener.task /\ log[t][n].type = "completed"
     IN /\ events' = Tail(events)
        /\ IF t = listener.task THEN ReduceEvent(t, n)
           ELSE UNCHANGED <<snapshot, approvals, buffer, unread, selected, chosen>>
        /\ listener' = IF last THEN Idle ELSE listener
        /\ streamKey' = IF last /\ streamKey = t THEN None ELSE streamKey
  /\ UNCHANGED <<runtime, dialog, sync, decide, inputs>>

-----------------------------------------------------------------------------
(* Deciding an approval.                                                     *)

(* _confirm_selected_approval: the dialog names the approval of the moment.    *)
OpenDialog ==
  /\ dialog = NoApproval /\ chosen \in Known(approvals)
  /\ dialog' = chosen
  /\ inputs < MaxInputs /\ inputs' = inputs + 1
  /\ UNCHANGED <<runtime, events, store, workers>>

(* _submit_selected_approval, when the operator confirms, or the operator       *)
(* thinks better of it: what is submitted is the approval selected by then.    *)
CloseDialog(confirmed) ==
  /\ dialog # NoApproval
  /\ dialog' = NoApproval
  /\ decide' = IF confirmed /\ chosen \in Known(approvals)
               THEN [at |-> "get", task |-> chosen[1], reply |-> <<>>, approval |-> chosen[2],
                     from |-> Len(log[chosen[1]])]
               ELSE decide
  /\ UNCHANGED <<runtime, events, store, streamKey, listener, sync, inputs>>

(* The runtime answers: task.approve resumes the run if the approval is its     *)
(* pending one, and refuses it otherwise.                                     *)
AnswerDecide ==
  LET t == decide.task
      active == Pending(t) = decide.approval
  IN
  /\ \/ /\ decide.at = "get"
        /\ decide' = [decide EXCEPT !.at = "got", !.reply = Snapshot(t)]
        /\ UNCHANGED log
     \/ /\ decide.at = "approve" /\ active /\ Len(log[t]) < MaxEvents[t]
        /\ Emit(t, "resumed", 0)
        /\ decide' = [decide EXCEPT !.at = "answered", !.reply = [status |-> "executing", pending |-> 0]]
     \/ /\ decide.at = "approve" /\ ~active
        /\ decide' = [decide EXCEPT !.at = "reread", !.approval = 0]
        /\ UNCHANGED log
     \/ /\ decide.at = "reread"
        /\ decide' = [decide EXCEPT !.at = "answered", !.reply = Snapshot(t)]
        /\ UNCHANGED log
     \/ /\ decide.at = "list"
        /\ decide' = [decide EXCEPT !.at = "listed", !.reply = Approvals(t)]
        /\ UNCHANGED log
  /\ UNCHANGED <<feeds, events, store, dialog, streamKey, listener, sync, inputs>>

(* Mutant of IsStale: nothing is.                                             *)
IsStaleNever(task, approval) == FALSE

(* The answer to task.get names another pending approval.                     *)
IsStale(task, approval) == task.pending \notin {0, approval}

(* _decide_selected_approval: a stale approval is not sent; whatever comes of    *)
(* it, the approvals of the run are read again, after a refusal the task too.   *)
(* The stream is started after a decision the runtime took; approval = 0 says   *)
(* that it took none.                                                         *)
Decide ==
  /\ \/ /\ decide.at = "got"
        /\ ReduceTask(decide.task, decide.reply)
        /\ decide' = IF IsStale(decide.reply, decide.approval)
                     THEN [decide EXCEPT !.reply = <<>>, !.at = "list", !.approval = 0]
                     ELSE [decide EXCEPT !.reply = <<>>, !.at = "approve"]
        /\ UNCHANGED <<approvals, chosen, streamKey, listener>>
     \/ /\ decide.at = "answered"
        /\ ReduceTask(decide.task, decide.reply)
        /\ decide' = [decide EXCEPT !.at = "list", !.reply = <<>>]
        /\ UNCHANGED <<approvals, chosen, streamKey, listener>>
     \/ /\ decide.at = "listed"
        /\ ReduceApprovals(decide.task, decide.reply)
        /\ IF decide.approval # 0 THEN StartStream(decide.task)
           ELSE UNCHANGED <<streamKey, listener>>
        /\ decide' = Idle
        /\ UNCHANGED <<snapshot, selected>>
  /\ UNCHANGED <<runtime, events, buffer, unread, dialog, sync, inputs>>

Next ==
  \/ \E t \in Tasks : RuntimeStep(t) \/ Select(t)
  \/ \E f \in DOMAIN feeds : Feed(f)
  \/ AnswerSync \/ Sync \/ AskStream \/ Consume
  \/ OpenDialog \/ \E confirmed \in BOOLEAN : CloseDialog(confirmed)
  \/ AnswerDecide \/ Decide

Spec == Init /\ [][Next]_tvars

-----------------------------------------------------------------------------
(* However often the history of a run is streamed again, and whichever stream   *)
(* an event comes from, the timeline has it at most once.                     *)
NoRecordTwice == \A t \in Tasks : IsInjective(buffer[t])

(* A decision is sent only if, at some moment since the operator confirmed it,  *)
(* the run was waiting for it, or for nothing: never one that has been          *)
(* superseded all the while.                                                  *)
NeverDecidesStale ==
  decide.at = "approve" =>
    \E n \in decide.from..Len(log[decide.task]) :
      PendingAt(decide.task, n) \in {decide.approval, 0}

(* What is decided is what the dialog named.  Refuted: the selection may move    *)
(* while the dialog is open.                                                  *)
ConfirmedIsDecided ==
  [][dialog # NoApproval /\ decide' # decide /\ decide'.at = "get"
       => dialog = <<decide'.task, decide'.approval>>]_tvars
=============================================================================
