--------------------------- MODULE CheckpointAdapter ---------------------------
(*****************************************************************************)
(* Where the agent library keeps the state of its graph, and how it comes back *)
(* after the process has been restarted.                                      *)
(*                                                                           *)
(* A run has one thread id, which is bound in the checkpoint store before the  *)
(* run exists.  LangGraphCheckpointAdapter keeps one PersistentInMemorySaver    *)
(* for each thread id and makes it when a controller is first built: without a  *)
(* lock, in the steps Look, Build, Install and Take.  The tasks of the graph    *)
(* write to the saver in threads of their own; each write puts the whole state  *)
(* of the thread into the store, under the lock of the saver.                  *)
(*                                                                           *)
(* Controllers are built by the execution of a run and by the requests          *)
(* task.create and task.cancel, here the handler.  The client sends a request    *)
(* when the last one has returned, which may be before the execution that it     *)
(* launched has begun; two executions of one run are left to RunLifecycle.        *)
(*****************************************************************************)
EXTENDS Naturals, Sequences

CONSTANTS
  Runs,
  Ids,         \* thread ids, numbers from 1 on
  Workers,     \* threads in which the agent library writes for one run
  MaxWrites,   \* bounds the writes of the whole history
  MaxSavers,   \* bounds the savers that one process makes
  MaxCrashes   \* bounds the restarts of the process

Callers == {"execution", "handler"}

VARIABLES
  thread,      \* [Runs -> its id in checkpoint_threads; 0 if there is none]
  created,     \* runs whose task.created event is in the history
  marked,      \* runs with a row in checkpoint_metadata
  disk,        \* [thread ids -> the writes in checkpoint_thread_state]
  savers,      \* the savers of this process, each with the thread id it saves under
  cached,      \* _checkpointers_by_thread: [thread ids -> a saver; 0 if none]
  controller,  \* [Runs -> [Callers -> how far it is built, and its saver]]
  requested,   \* runs whose RunCancellation is set
  worker,      \* [Runs -> [Workers -> what it writes, and the state it has frozen]]
  returned,    \* [Runs -> the writes whose call has returned]
  writes,      \* writes there have been
  crashes      \* restarts there have been

kvars == <<thread, created, marked, disk, savers, cached, controller, requested,
           worker, returned, writes, crashes>>
stored == <<thread, created, marked, disk, returned, writes>>

NoController == [at |-> "none", saver |-> 0]
Free == [write |-> 0, frozen |-> {}]
Saver == [thread : Ids, memory : SUBSET Nat, lock : {"free", "held"}]
Controller ==
  [at : {"none", "request", "look", "build", "install", "take", "check", "start", "ready"},
   saver : Nat]

TypeOK ==
  /\ thread \in [Runs -> Ids \cup {0}] /\ disk \in [Ids -> SUBSET Nat]
  /\ created \subseteq Runs /\ marked \subseteq created /\ requested \subseteq created
  /\ savers \in Seq(Saver) /\ cached \in [Ids -> 0..Len(savers)]
  /\ controller \in [Runs -> [Callers -> Controller]]
  /\ worker \in [Runs -> [Workers -> [write : Nat, frozen : SUBSET Nat]]]
  /\ returned \in [Runs -> SUBSET Nat] /\ writes \in Nat /\ crashes \in Nat

Init ==
  /\ thread = [r \in Runs |-> 0] /\ created = {} /\ marked = {} /\ requested = {}
  /\ disk = [t \in Ids |-> {}] /\ savers = <<>> /\ cached = [t \in Ids |-> 0]
  /\ controller = [r \in Runs |-> [c \in Callers |-> NoController]]
  /\ worker = [r \in Runs |-> [w \in Workers |-> Free]]
  /\ returned = [r \in Runs |-> {}] /\ writes = 0 /\ crashes = 0

At(r, c) == controller[r][c].at
Goes(r, c, step) == controller' = [controller EXCEPT ![r][c].at = step]
Done(r, c) == controller' = [controller EXCEPT ![r][c] = NoController]

-----------------------------------------------------------------------------
(* Controllers.                                                             *)

(* The table of savers is asked for that of the thread ...                      *)
Look(r, c) ==
  /\ At(r, c) = "look"
  /\ Goes(r, c, IF cached[thread[r]] = 0 THEN "build" ELSE "take")
  /\ UNCHANGED <<stored, savers, cached, requested, worker, crashes>>

(* ... a new one takes the persisted state ...                                 *)
Build(r, c) ==
  /\ At(r, c) = "build" /\ Len(savers) < MaxSavers
  /\ savers' = Append(savers,
                 [thread |-> thread[r], memory |-> disk[thread[r]], lock |-> "free"])
  /\ controller' = [controller EXCEPT ![r][c] = [at |-> "install", saver |-> Len(savers')]]
  /\ UNCHANGED <<stored, cached, requested, worker, crashes>>

Install(r, c) ==
  /\ At(r, c) = "install"
  /\ cached' = [cached EXCEPT ![thread[r]] = controller[r][c].saver]
  /\ Goes(r, c, "take")
  /\ UNCHANGED <<stored, savers, requested, worker, crashes>>

(* ... and the table is read again, also by the one that has put it there.        *)
Take(r, c) ==
  /\ At(r, c) = "take"
  /\ controller' = [controller EXCEPT ![r][c] = [at |-> "check", saver |-> cached[thread[r]]]]
  /\ UNCHANGED <<stored, savers, cached, requested, worker, crashes>>

-----------------------------------------------------------------------------
(* Requests and executions.                                                  *)

(* task.create: the thread is bound, and a controller built that nobody uses.     *)
BeginRun(r) ==
  /\ thread[r] = 0
  /\ \E t \in Ids :
       /\ \A other \in Runs : thread[other] # t
       /\ thread' = [thread EXCEPT ![r] = t]
  /\ Goes(r, "handler", "look")
  /\ UNCHANGED <<created, marked, disk, savers, cached, requested, worker, returned,
                 writes, crashes>>

(* Its event is stored, and the run launched with the thread it was given.        *)
Launch(r) ==
  /\ At(r, "handler") = "check" /\ r \notin created
  /\ created' = created \cup {r}
  /\ controller' = [controller EXCEPT
       ![r] = [handler |-> NoController, execution |-> [NoController EXCEPT !.at = "look"]]]
  /\ UNCHANGED <<thread, marked, disk, savers, cached, requested, worker, returned,
                 writes, crashes>>

(* task.resume and task.reply: the run has a thread and a checkpoint.  task.reply *)
(* keeps the request to cancel that came too late for the last execution.          *)
Resume(r) ==
  /\ r \in marked
  /\ \A c \in Callers : At(r, c) = "none"
  /\ Goes(r, "execution", "look")
  /\ requested' \in {requested, requested \ {r}}
  /\ UNCHANGED <<stored, savers, cached, worker, crashes>>

(* task.cancel reads the status: it leaves an executing run to its execution, of   *)
(* another one it records a checkpoint.  A restart forgets that a run was          *)
(* cancelled, so that it can be cancelled again.                               *)
Cancel(r) ==
  /\ r \in created /\ At(r, "handler") = "none"
  /\ IF At(r, "execution") = "ready"
       THEN requested' = requested \cup {r} /\ UNCHANGED controller
       ELSE Goes(r, "handler", "request") /\ UNCHANGED requested
  /\ UNCHANGED <<stored, savers, cached, worker, crashes>>

Request(r) ==
  /\ At(r, "handler") = "request"
  /\ requested' = requested \cup {r}
  /\ Goes(r, "handler", "look")
  /\ UNCHANGED <<stored, savers, cached, worker, crashes>>

Cancelled(r, c) ==
  /\ r \in created /\ At(r, c) = "check"
  /\ c = "execution" => r \in requested
  /\ marked' = marked \cup {r}
  /\ Done(r, c)
  /\ UNCHANGED <<thread, created, disk, savers, cached, requested, worker, returned,
                 writes, crashes>>

(* Mutant of NotCancelled: the request is not looked at.                        *)
StartsAnyway(r) ==
  /\ At(r, "execution") = "check"
  /\ Goes(r, "execution", "start")
  /\ UNCHANGED <<stored, savers, cached, requested, worker, crashes>>

(* _execute_run looks at the request when it has its controller ...               *)
NotCancelled(r) ==
  /\ At(r, "execution") = "check" /\ r \notin requested
  /\ Goes(r, "execution", "start")
  /\ UNCHANGED <<stored, savers, cached, requested, worker, crashes>>

(* ... and says that the run is executing; the harness records a checkpoint.        *)
Start(r) ==
  /\ At(r, "execution") = "start"
  /\ Goes(r, "execution", "ready")
  /\ marked' = marked \cup {r}
  /\ UNCHANGED <<thread, created, disk, savers, cached, requested, worker, returned,
                 writes, crashes>>

(* The invocation returns, or raises, when all its writes have.                   *)
End(r) ==
  /\ At(r, "execution") = "ready"
  /\ \A w \in Workers : worker[r][w] = Free
  /\ Done(r, "execution")
  /\ UNCHANGED <<stored, savers, cached, requested, worker, crashes>>

-----------------------------------------------------------------------------
(* The saver of an execution.                                                *)

SaverOf(r) == controller[r]["execution"].saver
Released(r, w) ==
  /\ savers' = [savers EXCEPT ![SaverOf(r)].lock = "free"]
  /\ worker' = [worker EXCEPT ![r][w] = Free]

(* put, put_writes, aput and aput_writes: the state is changed and frozen under     *)
(* the lock ...                                                              *)
Put(r, w) ==
  /\ At(r, "execution") = "ready" /\ worker[r][w] = Free
  /\ writes < MaxWrites
  /\ savers[SaverOf(r)].lock = "free"
  /\ writes' = writes + 1
  /\ LET memory == savers[SaverOf(r)].memory \cup {writes'} IN
       /\ savers' = [savers EXCEPT ![SaverOf(r)] =
                      [thread |-> @.thread, memory |-> memory, lock |-> "held"]]
       /\ worker' = [worker EXCEPT ![r][w] = [write |-> writes', frozen |-> memory]]
  /\ UNCHANGED <<thread, created, marked, disk, cached, controller, requested, returned,
                 crashes>>

(* ... and saved before the lock is released.                                  *)
Persist(r, w) ==
  /\ worker[r][w] # Free
  /\ disk' = [disk EXCEPT ![savers[SaverOf(r)].thread] = worker[r][w].frozen]
  /\ returned' = [returned EXCEPT ![r] = @ \cup {worker[r][w].write}]
  /\ Released(r, w)
  /\ UNCHANGED <<thread, created, marked, cached, controller, requested, writes, crashes>>

(* The store may refuse (the database is locked): the call raises, but the write     *)
(* stays in the memory of the saver.                                          *)
SaveFails(r, w) ==
  /\ worker[r][w] # Free
  /\ Released(r, w)
  /\ UNCHANGED <<stored, cached, controller, requested, crashes>>

-----------------------------------------------------------------------------
(* The process dies; what the store holds is all that is left.                   *)
Crash ==
  /\ crashes < MaxCrashes
  /\ crashes' = crashes + 1
  /\ savers' = <<>> /\ cached' = [t \in Ids |-> 0] /\ requested' = {}
  /\ controller' = [r \in Runs |-> [c \in Callers |-> NoController]]
  /\ worker' = [r \in Runs |-> [w \in Workers |-> Free]]
  /\ UNCHANGED stored

Next ==
  \/ \E r \in Runs :
       \/ BeginRun(r) \/ Launch(r) \/ Resume(r) \/ Cancel(r) \/ Request(r)
       \/ NotCancelled(r) \/ Start(r) \/ End(r)
       \/ \E c \in Callers :
            Look(r, c) \/ Build(r, c) \/ Install(r, c) \/ Take(r, c) \/ Cancelled(r, c)
       \/ \E w \in Workers : Put(r, w) \/ Persist(r, w) \/ SaveFails(r, w)
  \/ Crash

Spec == Init /\ [][Next]_kvars

-----------------------------------------------------------------------------
(* Whoever goes on with a run meets all of its past.  A write whose call has       *)
(* returned is in the store, under the thread id by which the run is found after   *)
(* a restart, and in the memory of the saver that an execution uses, whatever      *)
(* parallel writes, failed saves and crashes there were, and although a request     *)
(* may build a second saver of the thread while the execution builds its own.      *)
ResumesWithEverything ==
  \A r \in Runs : thread[r] # 0 =>
    /\ returned[r] \subseteq disk[thread[r]]
    /\ At(r, "execution") = "ready" => returned[r] \subseteq savers[SaverOf(r)].memory
=============================================================================
