------------------------------ MODULE ProtocolClient ------------------------------
(*****************************************************************************)
(* One ProtocolClient object of the TUI: the workers that make requests        *)
(* through it, the runtime processes it starts, the tasks that read their      *)
(* output, and the worker that closes it in order to put a fresh object in     *)
(* its place (_reconnect_runtime).                                           *)
(*                                                                           *)
(* All of it runs on one event loop: an action is what a task does between     *)
(* two awaits.  The runtime answers requests in any order, each having a       *)
(* thread of its own.  Runtime events share the wire with the answers and are  *)
(* left out (see LogStream): the reader puts them in a queue of their own.     *)
(* _request_lock is left out as well: drain(), the only await under it, does     *)
(* not wait, for a line is short and the main thread of the runtime reads on.  *)
(*****************************************************************************)
EXTENDS Naturals, Sequences, FiniteSets

CONSTANTS
  Workers,      \* worker groups of the app; each has at most one worker at a time
  MaxRequests,  \* bounds the requests ever written
  MaxRuntimes,  \* bounds the runtime processes being started at a time
  MaxMishaps    \* bounds reconnects, crashes, lines of output that cannot be
                \* read and full pipes, all together

ASSUME BoundsAssumption ==
  {MaxRequests, MaxRuntimes} \subseteq Nat \ {0} /\ MaxMishaps \in Nat

VARIABLES
  worker,      \* each group's worker: where it is, the id of its request
  future,      \* the futures made, by request id
  pending,     \* _pending: ids of the futures to be settled by the reader
  process,     \* _process (0: None), numbered in the order of starting
  readerTask,  \* _reader_task (0: None); a reader has its process's number
  runtime,     \* the processes started: alive, stuck in writing its log, stdin,
               \* requests being served, output
  reader,      \* the reader tasks started: where it is, whose output it reads
  closer,      \* the reconnecting worker: its await in close(), the object awaited
  mishaps

vars == <<worker, future, pending, process, readerTask, runtime, reader,
          closer, mishaps>>

Garbage  == 0   \* a line that is not JSON, or longer than the limit of a StreamReader
Ids      == 1..MaxRequests
Runtimes == 1..MaxRuntimes
Issued   == Len(future)

(* spawn: in connect(); wait: for its future; idle: not at all, or its last      *)
(* request ended in an exception; answered: its last request returned.         *)
Waiting == {"spawn", "wait"}

TypeOK ==
  /\ worker \in [Workers -> [at : Waiting \cup {"idle", "answered"},
                             id : {0} \cup Ids]]
  /\ future \in Seq([at : {"open", "answered", "failed", "cancelled"},
                     answer : {0} \cup Ids, to : {0} \cup Runtimes])
  /\ Issued <= MaxRequests /\ pending \subseteq 1..Issued
  /\ runtime \in Seq([alive : BOOLEAN, stuck : BOOLEAN, stdin : {"open", "closing", "lost"},
                      serving : SUBSET Ids, output : Seq({Garbage} \cup Ids)])
  /\ reader \in Seq([at : {"start", "read", "stderr", "done", "dead", "cancelled"}, on : Runtimes])
  /\ Len(reader) = Len(runtime) /\ Len(runtime) <= MaxRuntimes
  /\ {process, readerTask} \subseteq 0..Len(runtime)
  /\ closer \in [at : {"idle", "stdin", "reader", "exit", "replaced"}, on : {0} \cup Runtimes]
  /\ mishaps \in 0..MaxMishaps

Idle     == [at |-> "idle", id |-> 0]
Out(how) == [at |-> how, on |-> 0]

Init ==
  /\ worker = [w \in Workers |-> Idle]
  /\ future = <<>> /\ pending = {}
  /\ process = 0 /\ readerTask = 0 /\ runtime = <<>> /\ reader = <<>>
  /\ closer = Out("idle") /\ mishaps = 0

-----------------------------------------------------------------------------
(* The workers: _request.                                                    *)

At(place) == {w \in Workers : worker[w].at = place}

Fits == Issued + Cardinality(At("spawn")) < MaxRequests

(* The rest of _request after connect(), with process p and these runtimes: the  *)
(* future is registered and the line is written.  It fails with                *)
(* ConnectionResetError once the pipe is known to be lost; while it is being    *)
(* closed the line may be dropped in silence.                                 *)
Submit(w, p, runtimes) ==
  LET id == Issued + 1 IN
  /\ future' = Append(future, [at |-> "open", answer |-> 0, to |-> p])
  /\ pending' = pending \cup {id}
  /\ \/ /\ runtimes[p].stdin # "lost"
        /\ worker' = [worker EXCEPT ![w] = [at |-> "wait", id |-> id]]
        /\ runtime' = IF runtimes[p].alive /\ runtimes[p].stdin = "open"
                        THEN [runtimes EXCEPT ![p].serving = @ \cup {id}] ELSE runtimes
     \/ /\ runtimes[p].stdin # "open"
        /\ worker' = [worker EXCEPT ![w] = Idle]
        /\ runtime' = runtimes

(* A worker of group w is started.  Once the app holds another client, new       *)
(* workers use that one.                                                     *)
Request(w) ==
  /\ worker[w].at \notin Waiting /\ closer.at # "replaced" /\ Fits
  /\ process # 0
  /\ Submit(w, process, runtime)
  /\ UNCHANGED <<process, readerTask, reader, closer, mishaps>>

(* The same when there is no process yet: connect() starts one.               *)
Connect(w) ==
  /\ worker[w].at \notin Waiting /\ closer.at # "replaced" /\ Fits
  /\ process = 0 /\ Len(runtime) + Cardinality(At("spawn")) < MaxRuntimes
  /\ worker' = [worker EXCEPT ![w] = [at |-> "spawn", id |-> 0]]
  /\ UNCHANGED <<future, pending, process, readerTask, runtime, reader, closer, mishaps>>

(* create_subprocess_exec has returned: whatever the client held is replaced.   *)
(* The reader task first runs later, which makes a difference only if another   *)
(* process may replace this one before it does.                              *)
Spawned(w) ==
  /\ worker[w].at = "spawn"
  /\ LET p == Len(runtime) + 1 IN
       /\ process' = p /\ readerTask' = p
       /\ reader' = Append(reader, [at |-> IF At("spawn") = {w} THEN "read" ELSE "start",
                                    on |-> p])
       /\ Submit(w, p, Append(runtime, [alive |-> TRUE, stuck |-> FALSE, stdin |-> "open",
                                        serving |-> {}, output |-> <<>>]))
  /\ UNCHANGED <<closer, mishaps>>

(* The future the worker awaits is settled: _request returns or raises.        *)
Resume(w) ==
  /\ worker[w].at = "wait"
  /\ \/ /\ future[worker[w].id].at = "answered"
        /\ worker' = [worker EXCEPT ![w].at = "answered"]
     \/ /\ future[worker[w].id].at = "failed"
        /\ worker' = [worker EXCEPT ![w] = Idle]
  /\ UNCHANGED <<future, pending, process, readerTask, runtime, reader,
                 closer, mishaps>>

(* An exclusive worker takes the place of the one before it, whose task is      *)
(* cancelled in the await it is in: the future it awaits is cancelled with it,  *)
(* but stays in _pending.                                                    *)
Cancel(w) ==
  /\ worker[w].at \in Waiting
  /\ worker' = [worker EXCEPT ![w] = Idle]
  /\ future' = IF worker[w].at = "wait" /\ future[worker[w].id].at = "open"
                 THEN [future EXCEPT ![worker[w].id].at = "cancelled"] ELSE future
  /\ UNCHANGED <<pending, process, readerTask, runtime, reader, closer, mishaps>>

-----------------------------------------------------------------------------
(* The runtime.                                                              *)

(* A request thread logs the request, serves it and writes the answer.        *)
Answer(p, id) ==
  /\ runtime[p].alive /\ ~runtime[p].stuck /\ id \in runtime[p].serving
  /\ runtime' = [runtime EXCEPT ![p].serving = @ \ {id}, ![p].output = Append(@, id)]
  /\ UNCHANGED <<worker, future, pending, process, readerTask, reader,
                 closer, mishaps>>

(* Something prints to standard output, or an answer is an overlong line.       *)
Garble(p) ==
  /\ runtime[p].alive /\ mishaps < MaxMishaps
  /\ mishaps' = mishaps + 1
  /\ \E lost \in {{}} \cup {{id} : id \in runtime[p].serving} :
       runtime' = [runtime EXCEPT ![p].serving = @ \ lost, ![p].output = Append(@, Garbage)]
  /\ UNCHANGED <<worker, future, pending, process, readerTask, reader, closer>>

(* Every request and every published event is logged to standard error, which   *)
(* the client reads only after the end of the output: in the long run the pipe  *)
(* is full, and the thread that logs next holds the stream for ever.           *)
FillLog(p) ==
  /\ runtime[p].alive /\ ~runtime[p].stuck /\ mishaps < MaxMishaps
  /\ mishaps' = mishaps + 1
  /\ runtime' = [runtime EXCEPT ![p].stuck = TRUE]
  /\ UNCHANGED <<worker, future, pending, process, readerTask, reader, closer>>

(* serve() returns: its input has ended and its threads are joined.            *)
Exit(p) ==
  /\ runtime[p].alive /\ ~runtime[p].stuck /\ runtime[p].stdin # "open" /\ runtime[p].serving = {}
  /\ runtime' = [runtime EXCEPT ![p].alive = FALSE]
  /\ UNCHANGED <<worker, future, pending, process, readerTask, reader,
                 closer, mishaps>>

Crash(p) ==
  /\ runtime[p].alive /\ mishaps < MaxMishaps
  /\ mishaps' = mishaps + 1
  /\ runtime' = [runtime EXCEPT ![p].alive = FALSE, ![p].serving = {}]
  /\ UNCHANGED <<worker, future, pending, process, readerTask, reader, closer>>

(* The event loop learns that nobody reads the pipe any more.                 *)
PipeLost(p) ==
  /\ ~runtime[p].alive /\ runtime[p].stdin # "lost"
  /\ runtime' = [runtime EXCEPT ![p].stdin = "lost"]
  /\ UNCHANGED <<worker, future, pending, process, readerTask, reader,
                 closer, mishaps>>

-----------------------------------------------------------------------------
(* The reader tasks: _read_stdout.                                           *)

(* Mutant of NextRead: the client is not looked at again.                      *)
NextReadAnyway(r) == [at |-> "read", on |-> process]

(* The next readline() is on what the client holds by now; StreamReader allows  *)
(* one task at a time to wait for data.                                      *)
NextRead(r) ==
  IF process = 0 \/ (/\ runtime[process].output = <<>>
                     /\ \E q \in DOMAIN reader \ {r} : reader[q] = [at |-> "read", on |-> process])
    THEN [reader[r] EXCEPT !.at = "dead"]
    ELSE [at |-> "read", on |-> process]

(* The task runs for the first time.                                         *)
Start(r) ==
  /\ reader[r].at = "start"
  /\ reader' = [reader EXCEPT ![r] = NextRead(r)]
  /\ UNCHANGED <<worker, future, pending, process, readerTask, runtime, closer, mishaps>>

Took(p) == runtime' = [runtime EXCEPT ![p].output = Tail(@)]

(* Mutant of Route: the answer goes to the request that has waited longest.    *)
RouteOldest(r) ==
  LET id == Head(runtime[reader[r].on].output) IN
  /\ id # Garbage /\ pending # {}
  /\ LET first == CHOOSE x \in pending : \A y \in pending : x <= y IN
       /\ pending' = pending \ {first}
       /\ IF future[first].at = "open"
            THEN /\ future' = [future EXCEPT ![first].at = "answered", ![first].answer = id]
                 /\ reader' = [reader EXCEPT ![r] = NextRead(r)]
            ELSE /\ reader' = [reader EXCEPT ![r].at = "dead"]
                 /\ UNCHANGED future

(* _route_payload of an answer: its future leaves _pending and is settled, an   *)
(* error response being as good as a result; settling a cancelled future       *)
(* raises InvalidStateError, which ends the reader.                           *)
Route(r) ==
  LET id == Head(runtime[reader[r].on].output) IN
  /\ id # Garbage
  /\ pending' = pending \ {id}
  /\ IF id \in pending /\ future[id].at = "cancelled"
       THEN /\ reader' = [reader EXCEPT ![r].at = "dead"]
            /\ UNCHANGED future
       ELSE /\ reader' = [reader EXCEPT ![r] = NextRead(r)]
            /\ future' = IF id \in pending
                           THEN [future EXCEPT ![id].at = "answered", ![id].answer = id]
                           ELSE future

(* _parse_payload raises ProtocolClientError, which nobody catches.            *)
Reject(r) ==
  /\ Head(runtime[reader[r].on].output) = Garbage
  /\ reader' = [reader EXCEPT ![r].at = "dead"]
  /\ UNCHANGED <<pending, future>>

Read(r) ==
  /\ reader[r].at = "read" /\ runtime[reader[r].on].output # <<>>
  /\ Took(reader[r].on)
  /\ Route(r) \/ Reject(r)
  /\ UNCHANGED <<worker, process, readerTask, closer, mishaps>>

(* The futures once every pending one that is not done() has failed.           *)
AllFailed ==
  [id \in 1..Issued |->
     IF id \in pending /\ future[id].at = "open"
       THEN [future[id] EXCEPT !.at = "failed"] ELSE future[id]]

(* Mutant of EndOfOutput: a runtime that is silent is taken to have ended.      *)
EndOfPatience(r) ==
  /\ reader[r].at = "read" /\ runtime[reader[r].on].output = <<>>
  /\ future' = AllFailed /\ pending' = {}
  /\ reader' = [reader EXCEPT ![r].at = "done"]
  /\ UNCHANGED <<worker, process, readerTask, runtime, closer, mishaps>>

(* readline() returns the empty line; the reader goes on to read the standard   *)
(* error of what the client holds by now, to its end.                         *)
EndOfOutput(r) ==
  /\ reader[r].at = "read"
  /\ ~runtime[reader[r].on].alive /\ runtime[reader[r].on].output = <<>>
  /\ reader' = [reader EXCEPT ![r] = IF process = 0 THEN [@ EXCEPT !.at = "dead"]
                                     ELSE [at |-> "stderr", on |-> process]]
  /\ UNCHANGED <<worker, future, pending, process, readerTask, runtime,
                 closer, mishaps>>

(* Mutant of FailPending: _pending is cleared, its futures are left alone.     *)
ClearPending(r) ==
  /\ reader[r].at = "stderr"
  /\ ~runtime[reader[r].on].alive /\ runtime[reader[r].on].stdin = "lost"
  /\ pending' = {}
  /\ reader' = [reader EXCEPT ![r].at = "done"]
  /\ UNCHANGED <<worker, future, process, readerTask, runtime, closer, mishaps>>

(* Standard error has ended too: every future that is not settled fails with    *)
(* `runtime connection closed unexpectedly'.  A process that ends closes its    *)
(* standard error last, so that the loss of the pipe is known by then.         *)
FailPending(r) ==
  /\ reader[r].at = "stderr"
  /\ ~runtime[reader[r].on].alive /\ runtime[reader[r].on].stdin = "lost"
  /\ future' = AllFailed /\ pending' = {}
  /\ reader' = [reader EXCEPT ![r].at = "done"]
  /\ UNCHANGED <<worker, process, readerTask, runtime, closer, mishaps>>

-----------------------------------------------------------------------------
(* Reconnecting: close(), and then a client that starts afresh.               *)

(* Mutant of Reconnect: the reader is awaited before stdin is closed.          *)
ReconnectUnasked ==
  /\ closer.at = "idle" /\ mishaps < MaxMishaps
  /\ mishaps' = mishaps + 1
  /\ closer' = IF process = 0 THEN Out("replaced") ELSE [at |-> "reader", on |-> readerTask]
  /\ UNCHANGED <<worker, future, pending, process, readerTask, runtime, reader>>

(* The user asks for a reconnect.  An exclusive worker again: one that is in    *)
(* close() already is cancelled in its await, and with it the reader task if    *)
(* that is what it awaits.                                                   *)
Reconnect ==
  /\ closer.at # "replaced" /\ mishaps < MaxMishaps
  /\ mishaps' = mishaps + 1
  /\ reader' = IF closer.at = "reader" /\ reader[closer.on].at \in {"start", "read", "stderr"}
                 THEN [reader EXCEPT ![closer.on].at = "cancelled"] ELSE reader
  /\ IF process = 0
       THEN closer' = Out("replaced") /\ UNCHANGED runtime
       ELSE /\ closer' = [at |-> "stdin", on |-> process]
            /\ runtime' = IF runtime[process].stdin = "open"
                            THEN [runtime EXCEPT ![process].stdin = "closing"] ELSE runtime
  /\ UNCHANGED <<worker, future, pending, process, readerTask>>

(* stdin.wait_closed() returns when what was written has been flushed; if the   *)
(* pipe broke before, it may raise, which _reconnect_runtime ignores.  The      *)
(* reader awaited next is the one the client holds by now.                     *)
StdinClosed ==
  /\ closer.at = "stdin"
  /\ \/ closer' = [at |-> "reader", on |-> readerTask]
     \/ runtime[closer.on].stdin = "lost" /\ closer' = Out("replaced")
  /\ runtime' = [runtime EXCEPT ![closer.on].stdin = "lost"]
  /\ UNCHANGED <<worker, future, pending, process, readerTask, reader, mishaps>>

(* Awaiting the reader raises what the reader died of.  Its cancellation is     *)
(* not an Exception: the worker ends there, and the app keeps the old client.   *)
ReaderAwaited ==
  /\ closer.at = "reader"
  /\ \/ /\ reader[closer.on].at = "done"
        /\ closer' = [at |-> "exit", on |-> process]
     \/ reader[closer.on].at = "dead" /\ closer' = Out("replaced")
     \/ reader[closer.on].at = "cancelled" /\ closer' = Out("idle")
  /\ UNCHANGED <<worker, future, pending, process, readerTask, runtime, reader,
                 mishaps>>

ProcessAwaited ==
  /\ closer.at = "exit" /\ ~runtime[closer.on].alive
  /\ process' = 0 /\ readerTask' = 0 /\ closer' = Out("replaced")
  /\ UNCHANGED <<worker, future, pending, runtime, reader, mishaps>>

-----------------------------------------------------------------------------
WorkerStep(w)  == Spawned(w) \/ Resume(w)
RuntimeStep(p) == Exit(p) \/ PipeLost(p) \/ \E id \in runtime[p].serving : Answer(p, id)
ReaderStep(r)  == Start(r) \/ Read(r) \/ EndOfOutput(r) \/ FailPending(r)
CloserStep     == StdinClosed \/ ReaderAwaited \/ ProcessAwaited

Next ==
  \/ \E w \in Workers : Request(w) \/ Connect(w) \/ WorkerStep(w) \/ Cancel(w)
  \/ \E p \in DOMAIN runtime : RuntimeStep(p) \/ Garble(p) \/ FillLog(p) \/ Crash(p)
  \/ \E r \in DOMAIN reader : ReaderStep(r)
  \/ Reconnect
  \/ CloserStep

(* The event loop runs every task that can go on, and a runtime answers what    *)
(* it was asked and ends when its input has ended.                           *)
Fairness ==
  /\ \A w \in Workers : WF_vars(WorkerStep(w))
  /\ \A p \in Runtimes :
       /\ WF_vars(p \in DOMAIN runtime /\ RuntimeStep(p))
       /\ WF_vars(p \in DOMAIN reader /\ ReaderStep(p))
  /\ WF_vars(CloserStep)

Spec == Init /\ [][Next]_vars /\ Fairness

-----------------------------------------------------------------------------
(* What the code does not defend against: two workers that find no process      *)
(* both start one, a reader task can die or be cancelled, a log is not read.    *)
OneRuntime == Len(runtime) <= 1
ReaderLost == \E r \in DOMAIN reader : reader[r].at \in {"dead", "cancelled"}
LogFull    == \E p \in DOMAIN runtime : runtime[p].alive /\ runtime[p].stuck

(* Whoever is given an answer is given the answer to his own request, in        *)
(* whatever order the runtime answers and whatever happens to the others.      *)
OwnAnswer ==
  \A w \in Workers : worker[w].at = "answered" => future[worker[w].id].answer = worker[w].id

(* A request fails with `connection closed' only if the runtime it was sent to  *)
(* has ended, if no second runtime was started.                              *)
FailedOnlyAtEnd ==
  OneRuntime =>
    \A id \in 1..Issued : future[id].at = "failed" => ~runtime[future[id].to].alive

(* What a worker gets, an answer or a failure, is true.                         *)
AnswersAreFaithful == OwnAnswer /\ FailedOnlyAtEnd

(* A request is waited for without end only after the loss of a reader task, the *)
(* start of a second runtime or a full log: the death of the runtime, the        *)
(* cancellation of other workers before their turn, and a close in the middle     *)
(* do not strand it.                                                         *)
EveryRequestReturns ==
  \A w \in Workers :
    (worker[w].at \in Waiting) ~>
      (worker[w].at \notin Waiting \/ ReaderLost \/ LogFull \/ ~OneRuntime)

(* What the specification says of a client, that it `can inspect state': a live    *)
(* runtime whose output is read answers.  Refuted by a log that nobody reads.    *)
LiveRuntimeAnswers ==
  \A w \in Workers :
    (worker[w].at \in Waiting) ~> (worker[w].at \notin Waiting \/ ReaderLost \/ ~OneRuntime)

(* Asking for a reconnect leads to a fresh client even if a reader has died,      *)
(* unless the user asks again while the first request waits for the reader, a    *)
(* second runtime was started, or the runtime is stuck.                        *)
ReconnectEnds ==
  (closer.at \in {"stdin", "reader", "exit"}) ~>
    \/ closer.at = "replaced" \/ LogFull \/ ~OneRuntime
    \/ \E r \in DOMAIN reader : reader[r].at = "cancelled"
=============================================================================
