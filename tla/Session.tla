--------------------------------- MODULE Session ---------------------------------
(*****************************************************************************)
(* One session of the runtime server: RuntimeServer.serve reads requests, one  *)
(* a line, until its input ends; each is served by a thread of its own, and    *)
(* creating or resuming a run starts one more.  At the end serve waits for the *)
(* threads of TaskRunner's table, and then for those of the requests.         *)
(*                                                                           *)
(* The table holds one thread per run, is written before the thread starts    *)
(* and is cleared by the thread itself.                                       *)
(*****************************************************************************)
EXTENDS Naturals, Sequences, FiniteSets, SequencesExt

CONSTANTS
  RunIds,
  MaxRequests,   \* bounds the lines of the input
  MaxWorkers     \* bounds the run threads

VARIABLES
  line,      \* the lines read so far: [kind, run]
  thread,    \* for each line its thread: where it is, the outcome, its worker
  answers,   \* what has been written: [to, code], to = 0 when the id is null
  worker,    \* the run threads, oldest first: [run, at]
  table,     \* TaskRunner._run_threads: [RunIds -> a worker, or 0]
  eof,       \* session_closed
  main,      \* where serve is
  waiting    \* wait_for_all_runs' list of threads still to be joined

svars == <<line, thread, answers, worker, table, eof, main, waiting>>

Requests == 1..Len(line)
Workers  == 1..Len(worker)

(* What a line can be: a request that launches a run in the background, a       *)
(* request that is answered at once, one that follows a log, a method nobody   *)
(* knows, text that is no JSON or an object that is no request (from_dict      *)
(* raises ValueError), and JSON that is no object (from_dict raises             *)
(* AttributeError).                                                           *)
Kinds == {"launch", "call", "stream", "unknown", "garbage", "scalar"}

TypeOK ==
  /\ line \in Seq([kind : Kinds, run : RunIds]) /\ Len(line) <= MaxRequests
  /\ Len(thread) = Len(line)
  /\ \A i \in Requests :
       /\ thread[i].at \in {"handle", "start", "write", "follow", "ended"}
       /\ thread[i].worker \in 0..Len(worker)
  /\ \A i \in DOMAIN answers : answers[i].to \in 0..Len(line)
  /\ \A w \in Workers : worker[w].at \in {"new", "running", "leaving", "ended"}
  /\ table \in [RunIds -> 0..Len(worker)]
  /\ eof \in BOOLEAN
  /\ main \in {"read", "runs", "requests", "ended", "raised"}
  /\ waiting \in Seq(Workers)

Init ==
  /\ line = <<>> /\ thread = <<>> /\ answers = <<>>
  /\ worker = <<>> /\ table = [r \in RunIds |-> 0]
  /\ eof = FALSE /\ main = "read" /\ waiting = <<>>

-----------------------------------------------------------------------------
(* serve: the loop over the lines.  An empty line starts nothing.             *)
Read(kind, r) ==
  /\ main = "read" /\ Len(line) < MaxRequests
  /\ line'   = Append(line, [kind |-> kind, run |-> r])
  /\ thread' = Append(thread, [at |-> "handle", code |-> "", worker |-> 0])
  /\ UNCHANGED <<answers, worker, table, eof, main, waiting>>

EndOfInput ==
  /\ main = "read"
  /\ eof' = TRUE /\ main' = "runs"
  /\ UNCHANGED <<line, thread, answers, worker, table, waiting>>

-----------------------------------------------------------------------------
(* Mutant of IdOf: the response is built before the request is known.         *)
IdOfNone(i) == 0

(* The id of a response: a line that cannot be parsed has none.               *)
IdOf(i) == IF line[i].kind = "garbage" THEN 0 ELSE i

To(i, at, code) == thread' = [thread EXCEPT ![i].at = at, ![i].code = code]

(* What handling a request comes to; _dispatch_request, _background_response    *)
(* and the first lines of _serve_request turn each exception into a code.      *)
Refusals == {"-32602", "-32004", "-32000"}   \* ValueError, KeyError, any other
Codes(kind) == CASE kind \in {"call", "stream"} -> {"result"} \cup Refusals
                 [] kind = "launch"  -> Refusals
                 [] kind = "unknown" -> {"-32601"}
                 [] kind = "garbage" -> {"-32700"}

(* Mutant of Handle: a line whose method nobody knows has no outcome. *)
HandleKnown(i) ==
  /\ thread[i].at = "handle" /\ line[i].kind # "scalar"
  /\ IF line[i].kind = "unknown" THEN To(i, "ended", "")
     ELSE \E code \in Codes(line[i].kind) : To(i, "write", code)
  /\ UNCHANGED <<line, answers, worker, table, eof, main, waiting>>

Handle(i) ==
  /\ thread[i].at = "handle" /\ line[i].kind # "scalar"
  /\ \E code \in Codes(line[i].kind) : To(i, "write", code)
  /\ UNCHANGED <<line, answers, worker, table, eof, main, waiting>>

(* AttributeError is not among the exceptions _serve_request expects: the      *)
(* thread dies and nothing is written.                                        *)
Die(i) ==
  /\ thread[i].at = "handle" /\ line[i].kind = "scalar"
  /\ To(i, "ended", "")
  /\ UNCHANGED <<line, answers, worker, table, eof, main, waiting>>

(* _launch_run in the background: the thread is in the table...                *)
Register(i) ==
  /\ thread[i].at = "handle" /\ line[i].kind = "launch" /\ Len(worker) < MaxWorkers
  /\ worker' = Append(worker, [run |-> line[i].run, at |-> "new"])
  /\ table'  = [table EXCEPT ![line[i].run] = Len(worker) + 1]
  /\ thread' = [thread EXCEPT ![i].at = "start", ![i].worker = Len(worker) + 1]
  /\ UNCHANGED <<line, answers, eof, main, waiting>>

(* ... and then starts.                                                       *)
StartWorker(i) ==
  /\ thread[i].at = "start"
  /\ worker' = [worker EXCEPT ![thread[i].worker].at = "running"]
  /\ To(i, "write", "result")
  /\ UNCHANGED <<line, answers, table, eof, main, waiting>>

(* _write_payload, under write_lock; a stream goes on (module LogStream).      *)
Write(i) ==
  /\ thread[i].at = "write"
  /\ answers' = Append(answers, [to |-> IdOf(i), code |-> thread[i].code])
  /\ To(i, IF line[i].kind = "stream" /\ thread[i].code = "result" THEN "follow" ELSE "ended",
        thread[i].code)
  /\ UNCHANGED <<line, worker, table, eof, main, waiting>>

(* _serve_logs_stream returns on a terminal event, or when session_closed is    *)
(* set.                                                                       *)
StopFollowing(i) ==
  /\ thread[i].at = "follow"
  /\ To(i, "ended", thread[i].code)
  /\ UNCHANGED <<line, answers, worker, table, eof, main, waiting>>

-----------------------------------------------------------------------------
(* _execute_run has returned, or has raised.                                  *)
Leave(w) ==
  /\ worker[w].at = "running"
  /\ worker' = [worker EXCEPT ![w].at = "leaving"]
  /\ UNCHANGED <<line, thread, answers, table, eof, main, waiting>>

(* Mutant of Pop: there is no finally clause.                                 *)
PopNot(w) ==
  /\ worker[w].at = "leaving"
  /\ worker' = [worker EXCEPT ![w].at = "ended"]
  /\ UNCHANGED <<line, thread, answers, table, eof, main, waiting>>

(* The finally clause of _execute_run_in_thread: the entry of the run goes,     *)
(* whichever thread it names.                                                 *)
Pop(w) ==
  /\ worker[w].at = "leaving"
  /\ worker' = [worker EXCEPT ![w].at = "ended"]
  /\ table' = [table EXCEPT ![worker[w].run] = 0]
  /\ UNCHANGED <<line, thread, answers, eof, main, waiting>>

-----------------------------------------------------------------------------
(* wait_for_all_runs: a copy of the table, in whichever order it is; none left,  *)
(* and the requests follow.                                                   *)
Snapshot ==
  /\ main = "runs" /\ waiting = <<>>
  /\ LET named == {table[r] : r \in RunIds} \ {0} IN
       /\ waiting' \in SetToSeqs(named)
       /\ main' = IF named = {} THEN "requests" ELSE "runs"
  /\ UNCHANGED <<line, thread, answers, worker, table, eof>>

(* Thread.join; of a thread that has not been started it raises RuntimeError,  *)
(* which nothing catches.                                                     *)
Join ==
  /\ main = "runs" /\ waiting # <<>>
  /\ LET w == Head(waiting) IN
       \/ /\ worker[w].at = "ended"
          /\ waiting' = Tail(waiting) /\ UNCHANGED main
       \/ /\ worker[w].at = "new"
          /\ main' = "raised" /\ waiting' = <<>>
  /\ UNCHANGED <<line, thread, answers, worker, table, eof>>

(* Mutant of JoinRequests: serve returns without joining.                     *)
JoinNothing ==
  /\ main = "requests"
  /\ main' = "ended"
  /\ UNCHANGED <<line, thread, answers, worker, table, eof, waiting>>

JoinRequests ==
  /\ main = "requests"
  /\ \A i \in Requests : thread[i].at = "ended"
  /\ main' = "ended"
  /\ UNCHANGED <<line, thread, answers, worker, table, eof, waiting>>

RequestStep(i) ==
  Handle(i) \/ Die(i) \/ Register(i) \/ StartWorker(i) \/ Write(i)
WorkerStep(w) == Leave(w) \/ Pop(w)
ServerStep    == Snapshot \/ Join \/ JoinRequests

Next ==
  \/ \E kind \in Kinds, r \in RunIds : Read(kind, r)
  \/ EndOfInput
  \/ \E i \in Requests : RequestStep(i) \/ StopFollowing(i)
  \/ \E w \in Workers : WorkerStep(w)
  \/ ServerStep

Spec == Init /\ [][Next]_svars

-----------------------------------------------------------------------------
AnswersTo(i) == {n \in DOMAIN answers : answers[n].to = i}
OfKind(kind) == {i \in Requests : line[i].kind = kind}

(* No request is answered twice, whatever the threads do, and when serve        *)
(* returns each has had its answer, those that could not be read one with a     *)
(* null id each; but JSON that is no object has had none.                      *)
AnsweredOnce ==
  /\ \A i \in Requests : Cardinality(AnswersTo(i)) <= 1
  /\ main = "ended" =>
       /\ \A i \in Requests \ (OfKind("garbage") \cup OfKind("scalar")) : AnswersTo(i) # {}
       /\ Cardinality(AnswersTo(0)) = Cardinality(OfKind("garbage"))

(* Once the input has ended serve returns or raises, if every thread gets on    *)
(* and runs end: it never waits for a thread that has gone, although the end    *)
(* of an older thread takes a newer one of the run out of the table.           *)
SessionEnds == [](eof => <>(main \in {"ended", "raised"}))

(* One would like serve to return only when no run is being executed; a run     *)
(* that has lost its entry, or was launched after the last look at the table,   *)
(* is not waited for.                                                          *)
NoRunLeftBehind == main = "ended" => \A w \in Workers : worker[w].at = "ended"
=============================================================================
