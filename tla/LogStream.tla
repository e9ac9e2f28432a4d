-------------------------------- MODULE LogStream --------------------------------
(*****************************************************************************)
(* How the events of one run reach a client: TaskRunner._publish, the event    *)
(* bus, the durable event store and task.logs.stream.                         *)
(*                                                                           *)
(* The threads that publish events of the run (its execution, the requests     *)
(* that change it) and the threads that serve task.logs.stream share the bus.  *)
(* An event is put on the bus, handed to the subscribers of that moment and    *)
(* only then made durable; a stream copies the durable history first, and      *)
(* then subscribes and reads the bus.  Nothing orders the two.                *)
(*****************************************************************************)
EXTENDS Naturals, Sequences, FiniteSets, Functions

CONSTANTS
  Publishers,   \* threads that publish events of the run
  Streams,      \* task.logs.stream requests of one session
  MaxEvents,    \* bounds the events ever published
  MaxRestarts   \* bounds the restarts of the runtime process

Recovery == "recovery"   \* RecoveryService, the author of recovery.discovered
ASSUME RecoveryAssumption == Recovery \notin Publishers
ASSUME BoundsAssumption == {MaxEvents, MaxRestarts} \subseteq Nat

VARIABLES
  bus,        \* InMemoryEventBus._events of the run, oldest first
  rows,       \* persisted_events of the run, by rowid
  issued,     \* number of events there have been; the next event_id is one more
  publisher,  \* each publisher: the event in its hands, the subscribers to serve
  subscribers,\* InMemoryEventBus._subscribers of the run
  stream,     \* each stream request: where it is, its queue, what it has written
  closed,     \* the flag session_closed
  received,   \* every event the client has been sent, by this process or another
  restarts

vars == <<bus, rows, issued, publisher, subscribers, stream, closed, received, restarts>>

(* final: the event is task.completed or task.failed (_is_terminal_event).     *)
Event == [id : 1..MaxEvents, by : Publishers \cup {Recovery}, final : BOOLEAN]
None  == [id |-> 0, by |-> Recovery, final |-> FALSE]

(* idle: nothing to publish; put: on the bus, being handed to subscribers.     *)
Resting == [at |-> "idle", event |-> None, to |-> {}]

(* read: the history is written; list: subscribed; each: going through what the  *)
(* bus had; loop: about to look at session_closed; wait: in subscription.get.   *)
Begun(at, history) ==
  [at |-> at, history |-> history, listed |-> <<>>, queue |-> <<>>,
   seen |-> Range(history), written |-> history]
NotAsked == Begun("idle", <<>>)

TypeOK ==
  /\ bus \in Seq(Event) /\ rows \in Seq(Event)
  /\ issued \in 0..MaxEvents /\ restarts \in 0..MaxRestarts
  /\ publisher \in [Publishers -> [at : {"idle", "put"}, event : Event \cup {None},
                                   to : SUBSET Streams]]
  /\ subscribers \in SUBSET Streams
  /\ stream \in [Streams -> [at : {"idle", "read", "list", "each", "loop", "wait", "done"},
                             history : Seq(Event), listed : Seq(Event), queue : Seq(Event),
                             seen : SUBSET Event, written : Seq(Event)]]
  /\ closed \in BOOLEAN /\ received \in SUBSET Event

Init ==
  /\ bus = <<>> /\ rows = <<>> /\ issued = 0
  /\ publisher = [p \in Publishers |-> Resting]
  /\ subscribers = {}
  /\ stream = [s \in Streams |-> NotAsked]
  /\ closed = FALSE /\ received = {} /\ restarts = 0

-----------------------------------------------------------------------------
(* Publishing.                                                               *)

(* InMemoryEventBus.publish under its lock: the event joins the list and the   *)
(* subscribers are copied.                                                   *)
Publish(p, final) ==
  /\ publisher[p].at = "idle" /\ issued < MaxEvents
  /\ issued' = issued + 1
  /\ LET e == [id |-> issued + 1, by |-> p, final |-> final] IN
       /\ bus' = Append(bus, e)
       /\ publisher' = [publisher EXCEPT ![p] =
                          [at |-> "put", event |-> e, to |-> subscribers]]
  /\ UNCHANGED <<rows, subscribers, stream, closed, received, restarts>>

(* subscriber.put, outside the lock; the queue may belong to a stream that     *)
(* has ended in the meantime.  The subscribers are taken in any order, for      *)
(* nothing relates their queues.                                             *)
Put(p) ==
  /\ \E s \in publisher[p].to :
       /\ publisher' = [publisher EXCEPT ![p].to = @ \ {s}]
       /\ stream' = [stream EXCEPT ![s].queue = Append(@, publisher[p].event)]
  /\ UNCHANGED <<bus, rows, issued, subscribers, closed, received, restarts>>

(* event_store.append_event, after bus.publish has returned.                  *)
Store(p) ==
  /\ publisher[p].at = "put" /\ publisher[p].to = {}
  /\ rows' = Append(rows, publisher[p].event)
  /\ publisher' = [publisher EXCEPT ![p] = Resting]
  /\ UNCHANGED <<bus, issued, subscribers, stream, closed, received, restarts>>

-----------------------------------------------------------------------------
(* Reading.                                                                  *)

(* The place of the event with e's id, 0 if there is none.                      *)
Position(events, e) ==
  IF \E i \in DOMAIN events : events[i].id = e.id
    THEN CHOOSE i \in DOMAIN events : events[i].id = e.id ELSE 0
After(events, i) == SubSeq(events, i + 1, Len(events))

(* SQLiteEventStore.get_events: an unknown from_event_id counts as rowid 0.    *)
RowsAfter(from) == After(rows, Position(rows, from))

(* Mutant of EventsAfter: the slice starts one too late.                      *)
EventsAfterNext(from) ==
  IF from = None THEN bus
  ELSE IF Position(bus, from) = 0 THEN <<>>
  ELSE After(bus, Position(bus, from) + 1)

(* InMemoryEventBus.list_events: nothing follows an event it does not know.    *)
EventsAfter(from) ==
  IF from = None THEN bus
  ELSE IF Position(bus, from) = 0 THEN <<>>
  ELSE After(bus, Position(bus, from))

LastOf(events) == IF events = <<>> THEN None ELSE events[Len(events)]

(* Mutant of Taken: an event is written without being remembered.              *)
TakenOnly(now, e) ==
  IF e \in now.seen THEN now
  ELSE [now EXCEPT !.at = IF e.final THEN "done" ELSE @, !.written = Append(@, e)]

(* The stream `now' once one of its loops has dealt with event e: it is skipped   *)
(* if it has been written, and a terminal one ends the stream.                 *)
Taken(now, e) ==
  IF e \in now.seen THEN now
  ELSE [now EXCEPT !.at = IF e.final THEN "done" ELSE @,
                   !.written = Append(@, e), !.seen = @ \cup {e}]

(* Leaving the with statement of subscribe drops the queue from the list.     *)
Unsubscribed(s, now) == IF now.at = "done" THEN subscribers \ {s} ELSE subscribers

(* _dispatch_request and the first loop of _serve_logs_stream: the client      *)
(* asks with or without history, from an event it has been sent or from the    *)
(* beginning.  A run the process does not know (it recovers those that have a  *)
(* row) is an error response.  A request that has ended makes room for another   *)
(* one once no publisher is about to put an event into its queue.               *)
Open(s) ==
  /\ stream[s].at \in {"idle", "done"}
  /\ \A p \in Publishers : s \notin publisher[p].to
  /\ \/ /\ restarts > 0 /\ rows = <<>>
        /\ stream' = [stream EXCEPT ![s] = Begun("done", <<>>)]
        /\ UNCHANGED received
     \/ /\ restarts = 0 \/ rows # <<>>
        /\ \E from \in received \cup {None}, include_history \in BOOLEAN :
             LET history == IF include_history THEN RowsAfter(from) ELSE <<>> IN
             /\ stream' = [stream EXCEPT ![s] =
                             Begun(IF LastOf(history).final THEN "done" ELSE "read", history)]
             /\ received' = received \cup Range(history)
  /\ UNCHANGED <<bus, rows, issued, publisher, subscribers, closed, restarts>>

Subscribe(s) ==
  /\ stream[s].at = "read"
  /\ subscribers' = subscribers \cup {s}
  /\ stream' = [stream EXCEPT ![s].at = "list"]
  /\ UNCHANGED <<bus, rows, issued, publisher, closed, received, restarts>>

(* list_events copies what the bus has after the last event of the history.    *)
List(s) ==
  /\ stream[s].at = "list"
  /\ LET listed == EventsAfter(LastOf(stream[s].history)) IN
       stream' = [stream EXCEPT ![s].at = IF listed = <<>> THEN "loop" ELSE "each",
                                ![s].listed = listed]
  /\ UNCHANGED <<bus, rows, issued, publisher, subscribers, closed, received, restarts>>

(* Stream s goes on as `now' does.                                           *)
Becomes(s, now) ==
  /\ stream' = [stream EXCEPT ![s] = now]
  /\ subscribers' = Unsubscribed(s, now)
  /\ received' = received \cup now.seen

(* One round of the second loop.                                             *)
Each(s) ==
  /\ stream[s].at = "each"
  /\ LET rest == Tail(stream[s].listed) IN
       Becomes(s, Taken([stream[s] EXCEPT !.at = IF rest = <<>> THEN "loop" ELSE "each",
                                          !.listed = rest],
                        Head(stream[s].listed)))
  /\ UNCHANGED <<bus, rows, issued, publisher, closed, restarts>>

(* The test of the third loop, `while not session_closed.is_set()'.           *)
Loop(s) ==
  /\ stream[s].at = "loop"
  /\ Becomes(s, [stream[s] EXCEPT !.at = IF closed THEN "done" ELSE "wait"])
  /\ UNCHANGED <<bus, rows, issued, publisher, closed, restarts>>

(* subscription.get returns an event.                                        *)
Get(s) ==
  /\ stream[s].at = "wait" /\ stream[s].queue # <<>>
  /\ Becomes(s, Taken([stream[s] EXCEPT !.at = "loop", !.queue = Tail(@)],
                      Head(stream[s].queue)))
  /\ UNCHANGED <<bus, rows, issued, publisher, closed, restarts>>

(* Mutant of TimeOut: what get returned is written although it is no event.    *)
TimeOutAsEvent(s) ==
  /\ stream[s].at = "wait" /\ stream[s].queue = <<>>
  /\ stream' = [stream EXCEPT ![s].at = "loop", ![s].written = Append(@, None)]
  /\ UNCHANGED <<bus, rows, issued, publisher, subscribers, closed, received, restarts>>

(* subscription.get raises Empty after a tenth of a second.                   *)
TimeOut(s) ==
  /\ stream[s].at = "wait" /\ stream[s].queue = <<>>
  /\ stream' = [stream EXCEPT ![s].at = "loop"]
  /\ UNCHANGED <<bus, rows, issued, publisher, subscribers, closed, received, restarts>>

-----------------------------------------------------------------------------
(* RuntimeServer.serve has read the last line of its input.                   *)
EndOfInput ==
  /\ ~closed
  /\ closed' = TRUE
  /\ UNCHANGED <<bus, rows, issued, publisher, subscribers, stream, received, restarts>>

(* The process ends, by a crash or in good order, and another one is started   *)
(* on the same database: the bus is empty, and recovery.discovered has been    *)
(* appended to the rows, not to the bus, if the run is resumable.             *)
Restart ==
  /\ restarts < MaxRestarts
  /\ restarts' = restarts + 1
  /\ bus' = <<>> /\ subscribers' = {} /\ closed' = FALSE
  /\ publisher' = [p \in Publishers |-> Resting]
  /\ stream' = [s \in Streams |-> NotAsked]
  /\ \/ UNCHANGED <<rows, issued>>
     \/ /\ rows # <<>> /\ issued < MaxEvents
        /\ issued' = issued + 1
        /\ rows' = Append(rows, [id |-> issued + 1, by |-> Recovery, final |-> FALSE])
  /\ UNCHANGED received

PublisherStep(p) == Put(p) \/ Store(p) \/ \E final \in BOOLEAN : Publish(p, final)
StreamStep(s)    == Subscribe(s) \/ List(s) \/ Each(s) \/ Loop(s) \/ Get(s) \/ TimeOut(s)

Next ==
  \/ \E p \in Publishers : PublisherStep(p)
  \/ \E s \in Streams : Open(s) \/ StreamStep(s)
  \/ EndOfInput
  \/ Restart

(* A stream is a thread of its own that never waits for longer than the        *)
(* timeout of its queue; nothing is assumed of publishers and clients.        *)
Fairness == \A s \in Streams : WF_vars(StreamStep(s))
Spec == Init /\ [][Next]_vars /\ Fairness

-----------------------------------------------------------------------------
Ids(events)   == [i \in DOMAIN events |-> events[i].id]
Tailing(s)    == stream[s].at \in {"loop", "wait"}

(* The events that stream s has written, will take from its queue, or that a   *)
(* publisher is about to put there.                                          *)
Accounted(s) ==
  Range(stream[s].written) \cup Range(stream[s].queue)
    \cup {publisher[p].event : p \in {q \in Publishers : s \in publisher[q].to}}

(* A request never gets an event twice, although an event published between    *)
(* subscribing and reading the bus is both in the list and in the queue.      *)
WrittenOnce == \A s \in Streams : IsInjective(Ids(stream[s].written))

(* What was durable before the history that stream s has asked for.            *)
Earlier(s) ==
  IF stream[s].history = <<>> THEN {}
  ELSE {rows[k] : k \in 1..(Position(rows, Head(stream[s].history)) - 1)}

(* A client sees the events of one thread in the order the thread published    *)
(* them, whether they came from the database, the list or the queue.  The       *)
(* events it resumes after are excepted: where threads have stored their       *)
(* events in another order than the bus has them, one of those may be in the    *)
(* list, and is then sent after events of the history.                         *)
AuthorsInOrder ==
  \A s \in Streams : \A i, j \in DOMAIN stream[s].written :
    /\ i < j /\ stream[s].written[i].by = stream[s].written[j].by
    /\ stream[s].written[j] \notin Earlier(s)
    => stream[s].written[i].id < stream[s].written[j].id

(* What a client is sent is the history of the run: no event twice, none out of  *)
(* its author's order.                                                       *)
StreamFaithful == WrittenOnce /\ AuthorsInOrder

(* Once a stream follows its queue it misses nothing that was published after  *)
(* the point of its history, if the bus knows that point.                    *)
CaughtUp ==
  \A s \in Streams : Tailing(s) =>
    LET from == LastOf(stream[s].history) IN
    from = None \/ Position(bus, from) > 0 =>
      \A i \in (Position(bus, from) + 1)..Len(bus) : bus[i] \in Accounted(s)

(* When the input ends every stream returns, so that serve can join it: a      *)
(* stream waits neither for a terminal event nor for a publisher.            *)
StreamsEnd ==
  \A s \in Streams :
    [](closed /\ stream[s].at \notin {"idle", "done"}
         => <>(stream[s].at \in {"idle", "done"}))

(* What a client may expect of resuming with from_event_id: every event that   *)
(* becomes durable after the history it was sent is sent too, or will be.      *)
(* Refuted after a restart, when the bus does not know the last event of the   *)
(* history.                                                                  *)
ResumedStreamIsComplete ==
  \A s \in Streams : Tailing(s) /\ stream[s].history # <<>> =>
    Range(RowsAfter(LastOf(stream[s].history))) \subseteq Accounted(s)
=============================================================================
