------------------------- MODULE CheckpointAdapterProofs -------------------------
(*****************************************************************************)
(* For any number of runs, of threads that write, of crashes and of savers: no   *)
(* write whose call has returned is lost.                                      *)
(*****************************************************************************)
EXTENDS CheckpointAdapter, SequenceTheorems, TLAPS

(* A saver of the thread of a run that has all the writes of the run.            *)
Holds(s, r) ==
  /\ s \in 1..Len(savers) /\ savers[s].thread = thread[r]
  /\ returned[r] \subseteq savers[s].memory

(* A run that is not bound to a thread has not begun, and no two share one.       *)
ThreadsDiffer ==
  \A r \in Runs :
    /\ thread[r] = 0 => r \notin created /\ \A c \in Callers : controller[r][c] = NoController
    /\ \A q \in Runs : thread[r] = thread[q] /\ thread[r] # 0 => r = q

(* The saver in the table, and one that is about to be put there, has them all.     *)
SaversOK(r) ==
  /\ returned[r] \subseteq disk[thread[r]]
  /\ cached[thread[r]] # 0 => Holds(cached[thread[r]], r)
  /\ \A c \in Callers :
       /\ At(r, c) = "install" => Holds(controller[r][c].saver, r)
       /\ At(r, c) = "take" => cached[thread[r]] # 0

(* A request that looks for a saver has asked for the end of the run before, so    *)
(* that an execution that goes on has the saver that is in the table, and no other  *)
(* one is on its way there.                                                   *)
CallersOK(r) ==
  /\ r \notin created => At(r, "execution") = "none" /\ At(r, "handler") # "request"
  /\ r \in created /\ At(r, "handler") \notin {"none", "request"} => r \in requested
  /\ At(r, "execution") = "check" /\ r \notin requested =>
       SaverOf(r) = cached[thread[r]] /\ SaverOf(r) # 0
  /\ At(r, "execution") \in {"start", "ready"} =>
       /\ SaverOf(r) = cached[thread[r]] /\ SaverOf(r) # 0
       /\ At(r, "handler") \notin {"build", "install"}

(* A thread that writes holds the lock and has frozen what is in the memory.        *)
WorkersOK(r) ==
  \A w \in Workers : worker[r][w] # Free =>
    /\ At(r, "execution") = "ready" /\ savers[SaverOf(r)].lock = "held"
    /\ worker[r][w].frozen = savers[SaverOf(r)].memory
    /\ worker[r][w].write \in worker[r][w].frozen
    /\ \A v \in Workers : worker[r][v] # Free => v = w

RunOK(r) == SaversOK(r) /\ CallersOK(r) /\ WorkersOK(r)

(* No run has written without a thread, and a thread of no run has no saver.        *)
NothingUnbound ==
  /\ \A r \in Runs : thread[r] = 0 => returned[r] = {} /\ \A w \in Workers : worker[r][w] = Free
  /\ \A t \in Ids : (\A r \in Runs : thread[r] # t) => cached[t] = 0

IInv ==
  /\ TypeOK
  /\ ThreadsDiffer
  /\ \A r \in Runs : thread[r] # 0 => RunOK(r)
  /\ NothingUnbound

-----------------------------------------------------------------------------
(* The invariant holds at first.                                             *)
LEMMA InvInit == Init => IInv
BY DEF Init, IInv, TypeOK, ThreadsDiffer, NothingUnbound, RunOK, NoController, Free, Callers,
       Controller, Saver, At

(* What a step of one controller changes.                                      *)
LEMMA GoesOn ==
  ASSUME TypeOK, NEW r \in Runs, NEW c \in Callers, NEW step,
         [at |-> step, saver |-> 0] \in Controller, Goes(r, c, step)
  PROVE  /\ controller' \in [Runs -> [Callers -> Controller]]
         /\ controller'[r][c] = [at |-> step, saver |-> controller[r][c].saver]
         /\ \A d \in Callers : d # c => controller'[r][d] = controller[r][d]
         /\ \A q \in Runs : q # r => controller'[q] = controller[q]
<1>1. controller[r] \in [Callers -> Controller] /\ controller[r][c] \in Controller
  BY DEF TypeOK
<1>2. [controller[r][c] EXCEPT !.at = step] = [at |-> step, saver |-> controller[r][c].saver]
  BY <1>1 DEF Controller
<1>3. [at |-> step, saver |-> controller[r][c].saver] \in Controller
  BY <1>1 DEF Controller
<1>4. controller' = [controller EXCEPT ![r] = [controller[r] EXCEPT
                       ![c] = [at |-> step, saver |-> controller[r][c].saver]]]
  BY <1>2 DEF Goes
<1>. QED  BY <1>1, <1>3, <1>4 DEF TypeOK

(* A step that changes the controllers of one run, and what has been said of it.    *)
LEMMA OnlyControllers ==
  ASSUME IInv, TypeOK', NEW r \in Runs, thread[r] # 0,
         UNCHANGED <<thread, disk, savers, cached, worker, returned>>,
         \A q \in Runs \ {r} :
           /\ controller'[q] = controller[q]
           /\ q \in created' <=> q \in created
           /\ q \in requested' <=> q \in requested,
         CallersOK(r)',
         \A c \in Callers : controller'[r][c] # controller[r][c] =>
           /\ At(r, c)' # "install"
           /\ At(r, c)' = "take" => cached[thread[r]] # 0,
         controller'[r]["execution"] # controller[r]["execution"] =>
           \A w \in Workers : worker[r][w] = Free
  PROVE  IInv'
<1>1. ThreadsDiffer'
  BY DEF IInv, ThreadsDiffer
<1>2. ASSUME NEW q \in Runs, thread'[q] # 0
      PROVE  RunOK(q)'
  <2>1. SaversOK(q) /\ CallersOK(q) /\ WorkersOK(q)
    BY <1>2 DEF IInv, RunOK
  <2>2. SaversOK(q)'
    <3>1. \A i : Holds(i, q)' <=> Holds(i, q)
      BY DEF Holds
    <3>2. CASE q = r
      BY <2>1, <3>1, <3>2 DEF SaversOK, At
    <3>3. CASE q # r
      BY <2>1, <3>1, <3>3 DEF SaversOK, At
    <3>. QED  BY <3>2, <3>3
  <2>3. CallersOK(q)'
    BY <2>1 DEF CallersOK, At, SaverOf
  <2>4. WorkersOK(q)'
    BY <2>1 DEF WorkersOK, At, SaverOf
  <2>. QED  BY <2>2, <2>3, <2>4 DEF RunOK
<1>3. NothingUnbound'
  BY DEF IInv, NothingUnbound
<1>. QED  BY <1>1, <1>2, <1>3 DEF IInv

(* What is known of a run one of whose controllers is at work.                     *)
LEMMA AtWork ==
  ASSUME IInv, NEW r \in Runs, NEW c \in Callers, At(r, c) # "none"
  PROVE  /\ TypeOK /\ thread[r] \in Ids /\ thread[r] # 0 /\ SaversOK(r) /\ CallersOK(r)
         /\ At(r, "execution") # "ready" => \A w \in Workers : worker[r][w] = Free
<1>1. thread[r] # 0 /\ thread[r] \in Ids
  BY DEF IInv, TypeOK, ThreadsDiffer, NoController, At
<1>. QED  BY <1>1 DEF IInv, RunOK, WorkersOK

(* Each of the next nine changes the controllers of one run only.            *)
LEMMA LookStep ==
  ASSUME IInv, NEW r \in Runs, NEW c \in Callers, Look(r, c)
  PROVE  IInv'
<1>1. /\ TypeOK /\ thread[r] \in Ids /\ thread[r] # 0 /\ SaversOK(r) /\ CallersOK(r)
      /\ At(r, "execution") # "ready" => \A w \in Workers : worker[r][w] = Free
  BY AtWork DEF Look, Callers
<1>2. [at |-> IF cached[thread[r]] = 0 THEN "build" ELSE "take", saver |-> 0] \in Controller
  BY DEF Controller
<1>3. /\ controller' \in [Runs -> [Callers -> Controller]]
      /\ controller'[r][c] = [at |-> IF cached[thread[r]] = 0 THEN "build" ELSE "take", saver |-> controller[r][c].saver]
      /\ \A d \in Callers : d # c => controller'[r][d] = controller[r][d]
      /\ \A q \in Runs : q # r => controller'[q] = controller[q]
  BY <1>1, <1>2, GoesOn DEF Look, Callers
<1>4. TypeOK'
  BY <1>1, <1>3 DEF Look, TypeOK, CallersOK, At, stored
<1>5. CallersOK(r)'
  BY <1>1, <1>3 DEF Look, TypeOK, CallersOK, SaversOK, At, SaverOf, Callers, NoController, stored
<1>. QED
  BY <1>1, <1>3, <1>4, <1>5, OnlyControllers DEF Look, CallersOK, At, Callers, NoController, stored

(* The saver of the table is taken.                                          *)
LEMMA TakeStep ==
  ASSUME IInv, NEW r \in Runs, NEW c \in Callers, Take(r, c)
  PROVE  IInv'
<1>1. /\ TypeOK /\ thread[r] \in Ids /\ thread[r] # 0 /\ SaversOK(r) /\ CallersOK(r)
      /\ At(r, "execution") # "ready" => \A w \in Workers : worker[r][w] = Free
  BY AtWork DEF Take, Callers
<1>3. /\ controller' \in [Runs -> [Callers -> Controller]]
      /\ controller'[r][c] = [at |-> "check", saver |-> cached[thread[r]]]
      /\ \A d \in Callers : d # c => controller'[r][d] = controller[r][d]
      /\ \A q \in Runs : q # r => controller'[q] = controller[q]
  BY <1>1 DEF Take, TypeOK, Controller, NoController, Callers
<1>4. TypeOK'
  BY <1>1, <1>3 DEF Take, TypeOK, CallersOK, At, stored
<1>5. CallersOK(r)'
  BY <1>1, <1>3 DEF Take, TypeOK, CallersOK, SaversOK, At, SaverOf, Callers, NoController, stored
<1>. QED
  BY <1>1, <1>3, <1>4, <1>5, OnlyControllers DEF Take, CallersOK, At, Callers, NoController, stored

(* The execution begins to ask for its saver.                                *)
LEMMA LaunchStep ==
  ASSUME IInv, NEW r \in Runs, Launch(r)
  PROVE  IInv'
<1>1. /\ TypeOK /\ thread[r] \in Ids /\ thread[r] # 0 /\ SaversOK(r) /\ CallersOK(r)
      /\ At(r, "execution") # "ready" => \A w \in Workers : worker[r][w] = Free
  BY AtWork DEF Launch, Callers
<1>3. /\ controller' \in [Runs -> [Callers -> Controller]]
      /\ controller'[r]["handler"] = NoController
      /\ controller'[r]["execution"] = [NoController EXCEPT !.at = "look"]
      /\ \A q \in Runs : q # r => controller'[q] = controller[q]
  BY <1>1 DEF Launch, TypeOK, Controller, NoController, Callers
<1>4. TypeOK'
  BY <1>1, <1>3 DEF Launch, TypeOK, CallersOK, At
<1>5. CallersOK(r)'
  BY <1>1, <1>3 DEF Launch, TypeOK, CallersOK, SaversOK, At, SaverOf, Callers, NoController
<1>. QED
  BY <1>1, <1>3, <1>4, <1>5, OnlyControllers DEF Launch, CallersOK, At, Callers, NoController

(* So does the one that goes on with the run.                                *)
LEMMA ResumeStep ==
  ASSUME IInv, NEW r \in Runs, Resume(r)
  PROVE  IInv'
<1>1. /\ thread[r] # 0 /\ TypeOK /\ CallersOK(r)
      /\ \A w \in Workers : worker[r][w] = Free
  BY DEF Resume, IInv, TypeOK, RunOK, WorkersOK, ThreadsDiffer, Callers
<1>2. [at |-> "look", saver |-> 0] \in Controller
  BY DEF Controller
<1>3. /\ controller' \in [Runs -> [Callers -> Controller]]
      /\ controller'[r]["execution"] = [at |-> "look", saver |-> controller[r]["execution"].saver]
      /\ \A d \in Callers : d # "execution" => controller'[r][d] = controller[r][d]
      /\ \A q \in Runs : q # r => controller'[q] = controller[q]
  BY <1>1, <1>2, GoesOn DEF Resume, Callers
<1>4. TypeOK'
  BY <1>1, <1>3 DEF Resume, TypeOK, CallersOK, At, stored
<1>5. CallersOK(r)'
  BY <1>1, <1>3 DEF Resume, TypeOK, CallersOK, SaversOK, At, SaverOf, Callers, NoController, stored
<1>. QED
  BY <1>1, <1>3, <1>4, <1>5, OnlyControllers DEF Resume, CallersOK, At, Callers, NoController, stored

(* The handler asks for a saver after its request.                           *)
LEMMA RequestStep ==
  ASSUME IInv, NEW r \in Runs, Request(r)
  PROVE  IInv'
<1>1. /\ TypeOK /\ thread[r] \in Ids /\ thread[r] # 0 /\ SaversOK(r) /\ CallersOK(r)
      /\ At(r, "execution") # "ready" => \A w \in Workers : worker[r][w] = Free
  BY AtWork DEF Request, Callers
<1>2. [at |-> "look", saver |-> 0] \in Controller
  BY DEF Controller
<1>3. /\ controller' \in [Runs -> [Callers -> Controller]]
      /\ controller'[r]["handler"] = [at |-> "look", saver |-> controller[r]["handler"].saver]
      /\ \A d \in Callers : d # "handler" => controller'[r][d] = controller[r][d]
      /\ \A q \in Runs : q # r => controller'[q] = controller[q]
  BY <1>1, <1>2, GoesOn DEF Request, Callers
<1>4. TypeOK'
  BY <1>1, <1>3 DEF Request, TypeOK, CallersOK, At, stored
<1>5. CallersOK(r)'
  BY <1>1, <1>3 DEF Request, TypeOK, CallersOK, SaversOK, At, SaverOf, Callers, NoController, stored
<1>. QED
  BY <1>1, <1>3, <1>4, <1>5, OnlyControllers DEF Request, CallersOK, At, Callers, NoController, stored

(* A cancelled run has its checkpoint row.                                   *)
LEMMA CancelledStep ==
  ASSUME IInv, NEW r \in Runs, NEW c \in Callers, Cancelled(r, c)
  PROVE  IInv'
<1>1. /\ TypeOK /\ thread[r] \in Ids /\ thread[r] # 0 /\ SaversOK(r) /\ CallersOK(r)
      /\ At(r, "execution") # "ready" => \A w \in Workers : worker[r][w] = Free
  BY AtWork DEF Cancelled, Callers
<1>3. /\ controller' \in [Runs -> [Callers -> Controller]]
      /\ controller'[r][c] = NoController
      /\ \A d \in Callers : d # c => controller'[r][d] = controller[r][d]
      /\ \A q \in Runs : q # r => controller'[q] = controller[q]
  BY <1>1 DEF Cancelled, Done, TypeOK, Controller, NoController, Callers
<1>4. TypeOK'
  BY <1>1, <1>3 DEF Cancelled, TypeOK, CallersOK, At
<1>5. CallersOK(r)'
  BY <1>1, <1>3 DEF Cancelled, TypeOK, CallersOK, SaversOK, At, SaverOf, Callers, NoController
<1>. QED
  BY <1>1, <1>3, <1>4, <1>5, OnlyControllers DEF Cancelled, CallersOK, At, Callers, NoController

(* The execution goes on with the saver it has.                              *)
LEMMA NotCancelledStep ==
  ASSUME IInv, NEW r \in Runs, NotCancelled(r)
  PROVE  IInv'
<1>1. /\ TypeOK /\ thread[r] \in Ids /\ thread[r] # 0 /\ SaversOK(r) /\ CallersOK(r)
      /\ At(r, "execution") # "ready" => \A w \in Workers : worker[r][w] = Free
  BY AtWork DEF NotCancelled, Callers
<1>2. [at |-> "start", saver |-> 0] \in Controller
  BY DEF Controller
<1>3. /\ controller' \in [Runs -> [Callers -> Controller]]
      /\ controller'[r]["execution"] = [at |-> "start", saver |-> controller[r]["execution"].saver]
      /\ \A d \in Callers : d # "execution" => controller'[r][d] = controller[r][d]
      /\ \A q \in Runs : q # r => controller'[q] = controller[q]
  BY <1>1, <1>2, GoesOn DEF NotCancelled, Callers
<1>4. TypeOK'
  BY <1>1, <1>3 DEF NotCancelled, TypeOK, CallersOK, At, stored
<1>5. CallersOK(r)'
  BY <1>1, <1>3 DEF NotCancelled, TypeOK, CallersOK, SaversOK, At, SaverOf, Callers, NoController, stored
<1>. QED
  BY <1>1, <1>3, <1>4, <1>5, OnlyControllers DEF NotCancelled, CallersOK, At, Callers, NoController, stored

(* The execution has a saver that has everything.                            *)
LEMMA StartStep ==
  ASSUME IInv, NEW r \in Runs, Start(r)
  PROVE  IInv'
<1>1. /\ TypeOK /\ thread[r] \in Ids /\ thread[r] # 0 /\ SaversOK(r) /\ CallersOK(r)
      /\ At(r, "execution") # "ready" => \A w \in Workers : worker[r][w] = Free
  BY AtWork DEF Start, Callers
<1>2. [at |-> "ready", saver |-> 0] \in Controller
  BY DEF Controller
<1>3. /\ controller' \in [Runs -> [Callers -> Controller]]
      /\ controller'[r]["execution"] = [at |-> "ready", saver |-> controller[r]["execution"].saver]
      /\ \A d \in Callers : d # "execution" => controller'[r][d] = controller[r][d]
      /\ \A q \in Runs : q # r => controller'[q] = controller[q]
  BY <1>1, <1>2, GoesOn DEF Start, Callers
<1>4. TypeOK'
  BY <1>1, <1>3 DEF Start, TypeOK, CallersOK, At
<1>5. CallersOK(r)'
  BY <1>1, <1>3 DEF Start, TypeOK, CallersOK, SaversOK, At, SaverOf, Callers, NoController
<1>. QED
  BY <1>1, <1>3, <1>4, <1>5, OnlyControllers DEF Start, CallersOK, At, Callers, NoController

(* An execution that ends has no writer left.                                *)
LEMMA EndStep ==
  ASSUME IInv, NEW r \in Runs, End(r)
  PROVE  IInv'
<1>1. /\ TypeOK /\ thread[r] \in Ids /\ thread[r] # 0 /\ SaversOK(r) /\ CallersOK(r)
      /\ At(r, "execution") # "ready" => \A w \in Workers : worker[r][w] = Free
  BY AtWork DEF End, Callers
<1>3. /\ controller' \in [Runs -> [Callers -> Controller]]
      /\ controller'[r]["execution"] = NoController
      /\ \A d \in Callers : d # "execution" => controller'[r][d] = controller[r][d]
      /\ \A q \in Runs : q # r => controller'[q] = controller[q]
  BY <1>1 DEF End, Done, TypeOK, Controller, NoController, Callers
<1>4. TypeOK'
  BY <1>1, <1>3 DEF End, TypeOK, CallersOK, At, stored
<1>5. CallersOK(r)'
  BY <1>1, <1>3 DEF End, TypeOK, CallersOK, SaversOK, At, SaverOf, Callers, NoController, stored
<1>. QED
  BY <1>1, <1>3, <1>4, <1>5, OnlyControllers DEF End, CallersOK, At, Callers, NoController, stored

(* A cancellation of an executing run changes the request only.              *)
LEMMA CancelStep ==
  ASSUME IInv, NEW r \in Runs, Cancel(r)
  PROVE  IInv'
<1>1. /\ UNCHANGED <<stored, savers, cached, worker, crashes>>
      /\ r \in created /\ At(r, "handler") = "none"
  BY DEF Cancel
<1>2. TypeOK /\ thread[r] # 0 /\ CallersOK(r)
  BY <1>1 DEF IInv, ThreadsDiffer, RunOK
<1>3. CASE At(r, "execution") = "ready" /\ requested' = requested \cup {r} /\ UNCHANGED controller
  <2>1. TypeOK'
    BY <1>1, <1>2, <1>3 DEF TypeOK, stored
  <2>2. CallersOK(r)'
    BY <1>1, <1>2, <1>3 DEF CallersOK, stored, At, SaverOf
  <2>. QED  BY <1>1, <1>2, <1>3, <2>1, <2>2, OnlyControllers DEF stored
<1>4. CASE Goes(r, "handler", "request") /\ UNCHANGED requested
  <2>1. [at |-> "request", saver |-> 0] \in Controller
    BY DEF Controller
  <2>2. /\ controller' \in [Runs -> [Callers -> Controller]]
        /\ controller'[r]["handler"] = [at |-> "request", saver |-> controller[r]["handler"].saver]
        /\ \A d \in Callers : d # "handler" => controller'[r][d] = controller[r][d]
        /\ \A q \in Runs : q # r => controller'[q] = controller[q]
    BY <1>2, <1>4, <2>1, GoesOn DEF Callers
  <2>3. TypeOK'
    BY <1>1, <1>2, <1>4, <2>2 DEF TypeOK, stored
  <2>4. CallersOK(r)'
    BY <1>1, <1>2, <1>4, <2>2 DEF CallersOK, stored, At, SaverOf, Callers
  <2>. QED
    BY <1>1, <1>2, <1>4, <2>2, <2>3, <2>4, OnlyControllers DEF stored, At, Callers
<1>. QED  BY <1>3, <1>4 DEF Cancel

(* The saver that an execution uses is the one of its thread, and no other run's.  *)
LEMMA OwnSaver ==
  ASSUME IInv, NEW r \in Runs, At(r, "execution") = "ready"
  PROVE  /\ thread[r] \in Ids /\ Holds(SaverOf(r), r) /\ savers[SaverOf(r)] \in Saver
         /\ At(r, "handler") # "install" /\ SaverOf(r) = cached[thread[r]]
         /\ \A q \in Runs \ {r}, s \in Nat :
              thread[q] # 0 /\ Holds(s, q) => s # SaverOf(r)
<1>1. thread[r] # 0 /\ thread[r] \in Ids
  BY DEF IInv, TypeOK, ThreadsDiffer, NoController, Callers, At
<1>2. SaversOK(r) /\ CallersOK(r)
  BY <1>1 DEF IInv, RunOK
<1>3. Holds(SaverOf(r), r) /\ SaverOf(r) = cached[thread[r]] /\ At(r, "handler") # "install"
  BY <1>2 DEF SaversOK, CallersOK
<1>4. savers[SaverOf(r)] \in Saver
  BY <1>3 DEF Holds, IInv, TypeOK
<1>5. ASSUME NEW q \in Runs \ {r}, NEW s \in Nat, thread[q] # 0, Holds(s, q)
      PROVE  s # SaverOf(r)
  BY <1>3, <1>5 DEF Holds, IInv, ThreadsDiffer
<1>. QED  BY <1>1, <1>3, <1>4, <1>5

(* The new saver has what is stored, and the savers there were are as they were.   *)
LEMMA BuildStep ==
  ASSUME IInv, NEW r \in Runs, NEW c \in Callers, Build(r, c)
  PROVE  IInv'
<1> DEFINE new == [thread |-> thread[r], memory |-> disk[thread[r]], lock |-> "free"]
           built == [at |-> "install", saver |-> Len(savers')]
<1>1. /\ At(r, c) = "build" /\ savers' = Append(savers, new)
      /\ controller' = [controller EXCEPT ![r][c] = built]
      /\ UNCHANGED <<stored, cached, requested, worker, crashes>>
  BY DEF Build
<1>2. /\ TypeOK /\ thread[r] \in Ids /\ thread[r] # 0 /\ SaversOK(r) /\ CallersOK(r)
      /\ At(r, "execution") # "ready" => \A w \in Workers : worker[r][w] = Free
  BY <1>1, AtWork
<1>3. new \in Saver
  BY <1>2 DEF TypeOK, Saver
<1>4. /\ savers' \in Seq(Saver) /\ Len(savers') = Len(savers) + 1
      /\ savers'[Len(savers')] = new
      /\ \A i \in 1..Len(savers) : savers'[i] = savers[i]
  <2> HIDE DEF new
  <2>. QED  BY <1>1, <1>2, <1>3 DEF TypeOK
<1>5. built \in Controller
  BY <1>2, <1>4 DEF Controller, TypeOK
<1>6. /\ controller' \in [Runs -> [Callers -> Controller]]
      /\ controller'[r][c] = built
      /\ \A d \in Callers : d # c => controller'[r][d] = controller[r][d]
      /\ \A q \in Runs : q # r => controller'[q] = controller[q]
  <2> HIDE DEF built
  <2>. QED  BY <1>1, <1>2, <1>5 DEF TypeOK
<1>7. TypeOK'
  BY <1>1, <1>2, <1>4, <1>6 DEF TypeOK, stored
<1>8. ThreadsDiffer'
  BY <1>1, <1>2, <1>6 DEF IInv, ThreadsDiffer, stored
<1>9. ASSUME NEW q \in Runs, NEW i, Holds(i, q)
      PROVE  Holds(i, q)'
  BY <1>1, <1>2, <1>4, <1>9 DEF Holds, stored, TypeOK
<1>10. PICK last \in Nat : last = Len(savers')
  BY <1>2, <1>4 DEF TypeOK
<1>11. Holds(last, r)'
  BY <1>1, <1>2, <1>4, <1>10 DEF Holds, stored, TypeOK, SaversOK
<1>12. ASSUME NEW q \in Runs, thread'[q] # 0
       PROVE  RunOK(q)'
  <2>1. SaversOK(q) /\ CallersOK(q) /\ WorkersOK(q) /\ thread[q] # 0
    BY <1>1, <1>12 DEF IInv, RunOK, stored
  <2>2. SaversOK(q)'
    <3>1. CASE q = r
      <4>1. controller'[r][c].saver = last /\ cached'[thread'[r]] = cached[thread[r]]
        BY <1>1, <1>6, <1>10 DEF stored
      <4>. QED  BY <1>1, <1>6, <1>9, <1>11, <2>1, <3>1, <4>1 DEF SaversOK, At, stored
    <3>2. CASE q # r
      BY <1>1, <1>6, <1>9, <2>1, <3>2 DEF SaversOK, At, stored
    <3>. QED  BY <3>1, <3>2
  <2>3. CallersOK(q)'
    BY <1>1, <1>6, <2>1 DEF CallersOK, At, SaverOf, stored, Callers
  <2>4. WorkersOK(q)'
    <3>1. CASE At(q, "execution") = "ready"
      <4>1. controller'[q]["execution"] = controller[q]["execution"]
        BY <1>1, <1>6, <3>1 DEF At, Callers
      <4>2. SaverOf(q) \in 1..Len(savers)
        BY <2>1, <3>1, OwnSaver DEF Holds
      <4>. QED  BY <1>1, <1>4, <2>1, <4>1, <4>2 DEF WorkersOK, At, SaverOf
    <3>2. CASE At(q, "execution") # "ready"
      BY <1>1, <2>1, <3>2 DEF WorkersOK
    <3>. QED  BY <3>1, <3>2
  <2>. QED  BY <2>2, <2>3, <2>4 DEF RunOK
<1>13. NothingUnbound'
  BY <1>1 DEF IInv, NothingUnbound, stored
<1>. QED  BY <1>7, <1>8, <1>12, <1>13 DEF IInv

(* The table gets a saver of the thread, which has all that is stored.       *)
LEMMA InstallStep ==
  ASSUME IInv, NEW r \in Runs, NEW c \in Callers, Install(r, c)
  PROVE  IInv'
<1> DEFINE s == controller[r][c].saver
<1>1. /\ At(r, c) = "install" /\ cached' = [cached EXCEPT ![thread[r]] = s]
      /\ Goes(r, c, "take")
      /\ UNCHANGED <<stored, savers, requested, worker, crashes>>
  BY DEF Install
<1>2. /\ TypeOK /\ thread[r] \in Ids /\ thread[r] # 0 /\ SaversOK(r) /\ CallersOK(r)
      /\ At(r, "execution") # "ready" => \A w \in Workers : worker[r][w] = Free
  BY <1>1, AtWork
<1>3. Holds(s, r) /\ s \in 0..Len(savers) /\ s # 0
  BY <1>1, <1>2 DEF SaversOK, Holds, TypeOK
<1> HIDE DEF s
<1>4. /\ cached' \in [Ids -> 0..Len(savers)] /\ cached'[thread[r]] = s
      /\ \A t \in Ids : t # thread[r] => cached'[t] = cached[t]
  BY <1>1, <1>2, <1>3 DEF TypeOK
<1>5. [at |-> "take", saver |-> 0] \in Controller
  BY DEF Controller
<1>6. /\ controller' \in [Runs -> [Callers -> Controller]]
      /\ controller'[r][c] = [at |-> "take", saver |-> controller[r][c].saver]
      /\ \A d \in Callers : d # c => controller'[r][d] = controller[r][d]
      /\ \A q \in Runs : q # r => controller'[q] = controller[q]
  BY <1>1, <1>2, <1>5, GoesOn
<1>7. TypeOK'
  BY <1>1, <1>2, <1>4, <1>6 DEF TypeOK, stored
<1>8. ThreadsDiffer'
  BY <1>1, <1>2, <1>6 DEF IInv, ThreadsDiffer, stored
<1>9. ASSUME NEW q \in Runs, thread'[q] # 0
      PROVE  RunOK(q)'
  <2>1. SaversOK(q) /\ CallersOK(q) /\ WorkersOK(q) /\ thread[q] # 0
    BY <1>1, <1>9 DEF IInv, RunOK, stored
  <2>2. \A i : Holds(i, q)' <=> Holds(i, q)
    BY <1>1 DEF Holds, stored
  <2>3. CASE q = r
    <3>1. SaversOK(q)'
      BY <1>1, <1>3, <1>4, <1>6, <2>1, <2>2, <2>3 DEF SaversOK, At, stored
    <3>2. CallersOK(q)'
      BY <1>1, <1>3, <1>4, <1>6, <2>1, <2>3 DEF CallersOK, At, SaverOf, stored, Callers
    <3>3. At(r, "execution") # "ready"
      BY <1>1, <1>2 DEF CallersOK, Callers
    <3>4. WorkersOK(q)'
      BY <1>1, <1>2, <2>3, <3>3 DEF WorkersOK
    <3>. QED  BY <3>1, <3>2, <3>4 DEF RunOK
  <2>4. CASE q # r
    <3>1. cached'[thread[q]] = cached[thread[q]] /\ controller'[q] = controller[q]
      BY <1>2, <1>4, <1>6, <2>1, <2>4 DEF IInv, ThreadsDiffer, TypeOK
    <3>2. SaversOK(q)'
      BY <1>1, <2>1, <2>2, <3>1 DEF SaversOK, At, stored
    <3>3. CallersOK(q)'
      BY <1>1, <2>1, <3>1 DEF CallersOK, At, SaverOf, stored
    <3>4. WorkersOK(q)'
      BY <1>1, <2>1, <3>1 DEF WorkersOK, At, SaverOf
    <3>. QED  BY <3>2, <3>3, <3>4 DEF RunOK
  <2>. QED  BY <2>3, <2>4
<1>10. NothingUnbound'
  BY <1>1, <1>2, <1>4 DEF IInv, NothingUnbound, stored
<1>. QED  BY <1>7, <1>8, <1>9, <1>10 DEF IInv

(* One element of a sequence is replaced.                                    *)
LEMMA Replaced ==
  ASSUME NEW old \in Seq(Saver), NEW s \in 1..Len(old), NEW e \in Saver, NEW new,
         new = [old EXCEPT ![s] = e]
  PROVE  /\ new \in Seq(Saver) /\ Len(new) = Len(old) /\ new[s] = e
         /\ \A i \in 1..Len(old) : i # s => new[i] = old[i]
BY ExceptSeq

(* A write takes the lock: nobody else has it, and what is frozen has it all. *)
LEMMA PutStep ==
  ASSUME IInv, NEW r \in Runs, NEW w \in Workers, Put(r, w)
  PROVE  IInv'
<1> DEFINE s == SaverOf(r)
           memory == savers[s].memory \cup {writes'}
           new == [thread |-> savers[s].thread, memory |-> memory, lock |-> "held"]
           busy == [write |-> writes', frozen |-> memory]
<1>1. /\ At(r, "execution") = "ready" /\ worker[r][w] = Free /\ savers[s].lock = "free"
      /\ writes' = writes + 1
      /\ savers' = [savers EXCEPT ![s] = new]
      /\ worker' = [worker EXCEPT ![r][w] = busy]
      /\ UNCHANGED <<thread, created, marked, disk, cached, controller, requested, returned,
                     crashes>>
  BY DEF Put
<1>2. /\ thread[r] \in Ids /\ Holds(s, r) /\ savers[s] \in Saver /\ s = cached[thread[r]]
      /\ At(r, "handler") # "install"
      /\ \A q \in Runs \ {r}, i \in Nat : thread[q] # 0 /\ Holds(i, q) => i # s
  BY <1>1, OwnSaver
<1>3. TypeOK /\ s \in 1..Len(savers) /\ writes' \in Nat /\ memory \in SUBSET Nat
      /\ new \in Saver
  BY <1>1, <1>2 DEF IInv, TypeOK, Holds, Saver
<1>4. /\ savers' \in Seq(Saver) /\ Len(savers') = Len(savers) /\ savers'[s] = new
      /\ \A i \in 1..Len(savers) : i # s => savers'[i] = savers[i]
  <2> HIDE DEF new
  <2>. QED  BY <1>1, <1>3, Replaced DEF TypeOK
<1>5. /\ worker' \in [Runs -> [Workers -> [write : Nat, frozen : SUBSET Nat]]]
      /\ worker'[r][w] = busy /\ \A v \in Workers : v # w => worker'[r][v] = worker[r][v]
      /\ \A q \in Runs : q # r => worker'[q] = worker[q]
  BY <1>1, <1>3 DEF TypeOK
<1> HIDE DEF s, memory, busy
<1>6. TypeOK'
  BY <1>1, <1>3, <1>4, <1>5 DEF TypeOK
<1>7. ThreadsDiffer'
  BY <1>1 DEF IInv, ThreadsDiffer
<1>8. SaverOf(r) = s /\ savers[s].memory \subseteq memory /\ writes' \in memory
  BY DEF s, memory
<1>9. ASSUME NEW q \in Runs, NEW i \in Nat, thread[q] # 0, Holds(i, q)
      PROVE  Holds(i, q)'
  BY <1>1, <1>2, <1>4, <1>8, <1>9 DEF Holds
<1>10. ASSUME NEW q \in Runs, thread'[q] # 0
       PROVE  RunOK(q)'
  <2>1. SaversOK(q) /\ CallersOK(q) /\ WorkersOK(q) /\ thread[q] # 0
    BY <1>1, <1>10 DEF IInv, RunOK
  <2>2. SaversOK(q)'
    BY <1>1, <1>3, <1>9, <2>1 DEF SaversOK, TypeOK, At, Controller
  <2>3. CallersOK(q)'
    BY <1>1, <2>1 DEF CallersOK, At, SaverOf
  <2>4. WorkersOK(q)'
    <3>1. CASE q = r
      <4>1. \A v \in Workers : worker[r][v] = Free
        BY <1>1, <1>8, <2>1, <3>1 DEF WorkersOK
      <4>2. \A v \in Workers : worker'[r][v] # Free => v = w
        BY <1>5, <4>1
      <4>3. SaverOf(r)' = s /\ At(r, "execution")' = "ready"
        BY <1>1, <1>8 DEF SaverOf, At
      <4>4. busy.frozen = memory /\ busy.write \in memory
        BY <1>8 DEF busy
      <4>. QED  BY <1>4, <1>5, <3>1, <4>2, <4>3, <4>4 DEF WorkersOK
    <3>2. CASE q # r
      <4>1. ASSUME At(q, "execution") = "ready"
            PROVE  SaverOf(q) # s /\ SaverOf(q) \in 1..Len(savers)
        BY <1>2, <2>1, <3>2, <4>1, OwnSaver DEF Holds
      <4>2. worker'[q] = worker[q] /\ SaverOf(q)' = SaverOf(q)
            /\ At(q, "execution")' = At(q, "execution")
        BY <1>1, <1>5, <3>2 DEF SaverOf, At
      <4>. QED  BY <1>4, <2>1, <4>1, <4>2 DEF WorkersOK
    <3>. QED  BY <3>1, <3>2
  <2>. QED  BY <2>2, <2>3, <2>4 DEF RunOK
<1>11. NothingUnbound'
  <2>1. thread[r] # 0
    BY <1>1 DEF IInv, ThreadsDiffer, NoController, Callers, At
  <2>. QED  BY <1>1, <1>5, <2>1 DEF IInv, NothingUnbound
<1>. QED  BY <1>6, <1>7, <1>10, <1>11 DEF IInv

(* When a thread lets go of the lock nobody writes for this run, and what the      *)
(* savers hold is what it was.                                               *)
LEMMA Letting ==
  ASSUME IInv, NEW r \in Runs, NEW w \in Workers, worker[r][w] # Free, Released(r, w),
         UNCHANGED <<thread, cached, controller>>
  PROVE  /\ At(r, "execution") = "ready" /\ WorkersOK(r)
         /\ savers' \in Seq(Saver) /\ Len(savers') = Len(savers)
         /\ \A i \in 1..Len(savers) : /\ savers'[i].thread = savers[i].thread
                                      /\ savers'[i].memory = savers[i].memory
         /\ worker' \in [Runs -> [Workers -> [write : Nat, frozen : SUBSET Nat]]]
         /\ \A v \in Workers : worker'[r][v] = Free
         /\ \A q \in Runs : q # r => worker'[q] = worker[q]
         /\ \A q \in Runs : thread[q] # 0 => WorkersOK(q)'
<1> DEFINE s == SaverOf(r)
           new == [thread |-> savers[s].thread, memory |-> savers[s].memory, lock |-> "free"]
<1>1. thread[r] # 0
  BY DEF IInv, NothingUnbound
<1>2. WorkersOK(r) /\ At(r, "execution") = "ready"
  BY <1>1 DEF IInv, RunOK, WorkersOK
<1>3. /\ Holds(s, r) /\ savers[s] \in Saver
      /\ \A q \in Runs \ {r}, i \in Nat : thread[q] # 0 /\ Holds(i, q) => i # s
  BY <1>2, OwnSaver
<1>4. TypeOK /\ s \in 1..Len(savers) /\ new \in Saver
  BY <1>3 DEF IInv, Holds, Saver
<1>5. [savers[s] EXCEPT !.lock = "free"] = new
  BY <1>3 DEF Saver
<1>6. savers' = [savers EXCEPT ![s] = new]
  BY <1>4, <1>5 DEF Released, TypeOK
<1>7. /\ savers' \in Seq(Saver) /\ Len(savers') = Len(savers) /\ savers'[s] = new
      /\ \A i \in 1..Len(savers) : i # s => savers'[i] = savers[i]
  <2> HIDE DEF new
  <2>. QED  BY <1>4, <1>6, Replaced DEF TypeOK
<1>8. \A i \in 1..Len(savers) : /\ savers'[i].thread = savers[i].thread
                                /\ savers'[i].memory = savers[i].memory
  BY <1>7
<1>9. Free \in [write : Nat, frozen : SUBSET Nat]
  BY DEF Free
<1>10. /\ worker' \in [Runs -> [Workers -> [write : Nat, frozen : SUBSET Nat]]]
       /\ worker'[r][w] = Free /\ \A v \in Workers : v # w => worker'[r][v] = worker[r][v]
       /\ \A q \in Runs : q # r => worker'[q] = worker[q]
  BY <1>4, <1>9 DEF Released, TypeOK
<1>11. \A v \in Workers : worker'[r][v] = Free
  BY <1>2, <1>10 DEF WorkersOK
<1> HIDE DEF s, new
<1>12. ASSUME NEW q \in Runs, thread[q] # 0
       PROVE  WorkersOK(q)'
  <2>1. CASE q = r
    BY <1>11, <2>1 DEF WorkersOK
  <2>2. CASE q # r
    <3>1. WorkersOK(q)
      BY <1>12 DEF IInv, RunOK
    <3>2. ASSUME At(q, "execution") = "ready"
          PROVE  SaverOf(q) # s /\ SaverOf(q) \in 1..Len(savers)
      BY <1>3, <1>12, <2>2, <3>2, OwnSaver DEF Holds
    <3>3. worker'[q] = worker[q] /\ SaverOf(q)' = SaverOf(q)
          /\ At(q, "execution")' = At(q, "execution")
      BY <1>10, <2>2 DEF SaverOf, At
    <3>. QED  BY <1>7, <3>1, <3>2, <3>3 DEF WorkersOK
  <2>. QED  BY <2>1, <2>2
<1>. QED  BY <1>2, <1>7, <1>8, <1>10, <1>11, <1>12

(* The memory of the savers as it was, the invariant holds after the lock is free   *)
(* if what has returned is stored, in memory and of this run.                    *)
LEMMA AfterWrite ==
  ASSUME IInv, NEW r \in Runs, NEW w \in Workers, worker[r][w] # Free, Released(r, w),
         UNCHANGED <<thread, created, marked, cached, controller, requested, writes, crashes>>,
         disk' \in [Ids -> SUBSET Nat], returned' \in [Runs -> SUBSET Nat],
         \A q \in Runs \ {r} : returned'[q] = returned[q] /\
           (thread[q] # 0 => disk'[thread[q]] = disk[thread[q]]),
         returned'[r] \subseteq disk'[thread[r]],
         returned'[r] \subseteq savers[SaverOf(r)].memory
  PROVE  IInv'
<1>1. /\ At(r, "execution") = "ready"
      /\ savers' \in Seq(Saver) /\ Len(savers') = Len(savers)
      /\ \A i \in 1..Len(savers) : /\ savers'[i].thread = savers[i].thread
                                   /\ savers'[i].memory = savers[i].memory
      /\ worker' \in [Runs -> [Workers -> [write : Nat, frozen : SUBSET Nat]]]
      /\ \A v \in Workers : worker'[r][v] = Free
      /\ \A q \in Runs : q # r => worker'[q] = worker[q]
      /\ \A q \in Runs : thread[q] # 0 => WorkersOK(q)'
  BY Letting
<1>2. /\ thread[r] \in Ids /\ Holds(SaverOf(r), r)
      /\ At(r, "handler") # "install" /\ SaverOf(r) = cached[thread[r]]
  BY <1>1, OwnSaver
<1>3. TypeOK'
  BY <1>1 DEF IInv, TypeOK
<1>4. ThreadsDiffer'
  BY DEF IInv, ThreadsDiffer
<1>5. ASSUME NEW q \in Runs, NEW i \in Nat, q # r, Holds(i, q)
      PROVE  Holds(i, q)'
  BY <1>1, <1>5 DEF Holds
<1>6. Holds(SaverOf(r), r)'
  BY <1>1, <1>2 DEF Holds, SaverOf
<1>7. ASSUME NEW q \in Runs, thread'[q] # 0
      PROVE  RunOK(q)'
  <2>1. SaversOK(q) /\ CallersOK(q)
    BY <1>7 DEF IInv, RunOK
  <2>2. SaversOK(q)'
    <3>1. CASE q = r
      <4>1. Holds(cached[thread[r]], r)'
        BY <1>2, <1>6 DEF SaverOf
      <4>2. At(r, "execution")' # "install" /\ At(r, "handler")' # "install"
            /\ At(r, "execution")' # "take"
        BY <1>1, <1>2 DEF At
      <4>3. At(r, "handler")' = "take" => cached'[thread'[r]] # 0
        BY <2>1, <3>1 DEF SaversOK, At, Callers
      <4>. QED  BY <3>1, <4>1, <4>2, <4>3 DEF SaversOK, Callers, At
    <3>2. CASE q # r
      BY <1>5, <1>7, <2>1, <3>2 DEF SaversOK, IInv, TypeOK, At, Controller
    <3>. QED  BY <3>1, <3>2
  <2>3. CallersOK(q)'
    BY <2>1 DEF CallersOK, At, SaverOf
  <2>. QED  BY <1>1, <1>7, <2>2, <2>3 DEF RunOK
<1>8. NothingUnbound'
  <2>1. \A q \in Runs : thread'[q] = 0 => q # r
    BY DEF IInv, NothingUnbound
  <2>2. \A q \in Runs \ {r} : returned'[q] = returned[q] /\ worker'[q] = worker[q]
    BY <1>1
  <2>3. UNCHANGED <<thread, cached>>
    OBVIOUS
  <2>. QED  BY <2>1, <2>2, <2>3 DEF IInv, NothingUnbound
<1>. QED  BY <1>3, <1>4, <1>7, <1>8 DEF IInv

(* What was frozen replaces what is stored, of which it has everything.      *)
LEMMA PersistStep ==
  ASSUME IInv, NEW r \in Runs, NEW w \in Workers, Persist(r, w)
  PROVE  IInv'
<1> DEFINE frozen == worker[r][w].frozen
           write == worker[r][w].write
<1>1. /\ worker[r][w] # Free /\ Released(r, w)
      /\ disk' = [disk EXCEPT ![savers[SaverOf(r)].thread] = frozen]
      /\ returned' = [returned EXCEPT ![r] = @ \cup {write}]
      /\ UNCHANGED <<thread, created, marked, cached, controller, requested, writes, crashes>>
  BY DEF Persist
<1>2. At(r, "execution") = "ready" /\ WorkersOK(r)
  BY <1>1, Letting
<1>3. thread[r] \in Ids /\ Holds(SaverOf(r), r)
  BY <1>2, OwnSaver
<1>4. frozen = savers[SaverOf(r)].memory /\ write \in frozen
  BY <1>1, <1>2 DEF WorkersOK
<1>5. frozen \in SUBSET Nat /\ write \in Nat
  BY DEF IInv, TypeOK
<1> HIDE DEF frozen, write
<1>6. disk' = [disk EXCEPT ![thread[r]] = frozen]
  BY <1>1, <1>3 DEF Holds
<1>7. disk' \in [Ids -> SUBSET Nat] /\ disk'[thread[r]] = frozen
      /\ \A t \in Ids : t # thread[r] => disk'[t] = disk[t]
  BY <1>3, <1>5, <1>6 DEF IInv, TypeOK
<1>8. returned' \in [Runs -> SUBSET Nat] /\ returned'[r] = returned[r] \cup {write}
      /\ \A q \in Runs \ {r} : returned'[q] = returned[q]
  BY <1>1, <1>5 DEF IInv, TypeOK
<1>9. \A q \in Runs \ {r} : thread[q] # 0 => disk'[thread[q]] = disk[thread[q]]
  BY <1>7 DEF IInv, TypeOK, ThreadsDiffer
<1>10. returned'[r] \subseteq frozen
  BY <1>3, <1>4, <1>8 DEF Holds
<1>. QED  BY <1>1, <1>4, <1>7, <1>8, <1>9, <1>10, AfterWrite

(* A save that fails changes neither the store nor the memory.               *)
LEMMA SaveFailsStep ==
  ASSUME IInv, NEW r \in Runs, NEW w \in Workers, SaveFails(r, w)
  PROVE  IInv'
<1>1. /\ worker[r][w] # Free /\ Released(r, w)
      /\ UNCHANGED <<thread, created, marked, disk, returned, writes>>
      /\ UNCHANGED <<cached, controller, requested, crashes>>
  BY DEF SaveFails, stored
<1>2. Holds(SaverOf(r), r) /\ thread[r] # 0
  BY <1>1, Letting, OwnSaver DEF IInv, NothingUnbound
<1>3. returned[r] \subseteq disk[thread[r]]
  BY <1>2 DEF IInv, RunOK, SaversOK
<1>4. disk \in [Ids -> SUBSET Nat] /\ returned \in [Runs -> SUBSET Nat]
  BY DEF IInv, TypeOK
<1>. QED  BY <1>1, <1>2, <1>3, <1>4, AfterWrite DEF Holds

(* After a crash there is no saver to speak of.                              *)
LEMMA CrashStep ==
  ASSUME IInv, Crash
  PROVE  IInv'
<1>1. TypeOK'
  BY DEF IInv, TypeOK, Crash, stored, NoController, Controller, Free
<1>2. ThreadsDiffer'
  <2>1. ASSUME NEW r \in Runs, thread[r] = 0
        PROVE  r \notin created
    BY <2>1 DEF IInv, ThreadsDiffer
  <2>. QED  BY <2>1 DEF IInv, ThreadsDiffer, Crash, stored
<1>3. ASSUME NEW r \in Runs, thread'[r] # 0
      PROVE  RunOK(r)'
  <2>1. returned'[r] \subseteq disk'[thread'[r]]
    BY <1>3 DEF IInv, RunOK, SaversOK, Crash, stored
  <2>2. thread'[r] \in Ids /\ cached'[thread'[r]] = 0
    BY <1>3 DEF IInv, TypeOK, Crash, stored
  <2>3. \A c \in Callers : At(r, c)' = "none"
    BY DEF Crash, At, NoController
  <2>4. \A w \in Workers : worker'[r][w] = Free
    BY DEF Crash
  <2>. QED  BY <2>1, <2>2, <2>3, <2>4 DEF RunOK, SaversOK, CallersOK, WorkersOK, Callers
<1>4. NothingUnbound'
  BY DEF IInv, NothingUnbound, Crash, stored
<1>. QED  BY <1>1, <1>2, <1>3, <1>4 DEF IInv

(* A thread id that is bound for the first time has nothing under it.        *)
LEMMA BeginRunStep ==
  ASSUME 0 \notin Ids, IInv, NEW r \in Runs, BeginRun(r)
  PROVE  IInv'
<1>1. /\ thread[r] = 0 /\ Goes(r, "handler", "look")
      /\ UNCHANGED <<created, marked, disk, savers, cached, requested, worker, returned,
                     writes, crashes>>
  BY DEF BeginRun
<1>2. PICK t \in Ids : /\ \A other \in Runs : thread[other] # t
                       /\ thread' = [thread EXCEPT ![r] = t]
  BY DEF BeginRun
<1>3. TypeOK /\ r \notin created /\ \A c \in Callers : controller[r][c] = NoController
  BY <1>1 DEF IInv, ThreadsDiffer
<1>4. thread' \in [Runs -> Ids \cup {0}] /\ thread'[r] = t /\ t # 0
      /\ \A q \in Runs : q # r => thread'[q] = thread[q]
  BY <1>2, <1>3 DEF TypeOK
<1>5. [at |-> "look", saver |-> 0] \in Controller
  BY DEF Controller
<1>6. /\ controller' \in [Runs -> [Callers -> Controller]]
      /\ controller'[r]["handler"] = [at |-> "look", saver |-> controller[r]["handler"].saver]
      /\ \A d \in Callers : d # "handler" => controller'[r][d] = controller[r][d]
      /\ \A q \in Runs : q # r => controller'[q] = controller[q]
  BY <1>1, <1>3, <1>5, GoesOn DEF Callers
<1>7. TypeOK'
  BY <1>1, <1>3, <1>4, <1>6 DEF TypeOK
<1>8. ThreadsDiffer'
  BY <1>1, <1>2, <1>4, <1>6 DEF IInv, ThreadsDiffer
<1>9. ASSUME NEW q \in Runs, thread'[q] # 0
      PROVE  RunOK(q)'
  <2>1. CASE q = r
    <3>1. returned'[r] = {} /\ cached'[thread'[r]] = 0 /\ \A w \in Workers : worker'[r][w] = Free
      BY <1>1, <1>2, <1>4 DEF IInv, NothingUnbound
    <3>2. At(r, "execution")' = "none" /\ At(r, "handler")' = "look"
      BY <1>3, <1>6 DEF At, NoController, Callers
    <3>. QED
      BY <1>1, <1>3, <2>1, <3>1, <3>2 DEF RunOK, SaversOK, CallersOK, WorkersOK, Callers
  <2>2. CASE q # r
    <3>1. SaversOK(q) /\ CallersOK(q) /\ WorkersOK(q)
      BY <1>4, <1>9, <2>2 DEF IInv, RunOK
    <3>2. thread'[q] = thread[q] /\ controller'[q] = controller[q]
      BY <1>4, <1>6, <2>2
    <3>3. \A i : Holds(i, q)' <=> Holds(i, q)
      BY <1>1, <3>2 DEF Holds
    <3>4. SaversOK(q)'
      BY <1>1, <3>1, <3>2, <3>3 DEF SaversOK, At
    <3>5. CallersOK(q)' /\ WorkersOK(q)'
      BY <1>1, <3>1, <3>2 DEF CallersOK, WorkersOK, At, SaverOf
    <3>. QED  BY <3>4, <3>5 DEF RunOK
  <2>. QED  BY <2>1, <2>2
<1>10. NothingUnbound'
  BY <1>1, <1>4 DEF IInv, NothingUnbound
<1>. QED  BY <1>7, <1>8, <1>9, <1>10 DEF IInv

-----------------------------------------------------------------------------
(* Every step keeps the invariant.                                           *)
LEMMA InvStep == ASSUME 0 \notin Ids PROVE IInv /\ [Next]_kvars => IInv'
<1> SUFFICES ASSUME IInv, [Next]_kvars
             PROVE  IInv'
  OBVIOUS
<1>1. CASE UNCHANGED kvars
  BY <1>1 DEF kvars, IInv, TypeOK, ThreadsDiffer, RunOK, SaversOK, Holds, CallersOK,
              WorkersOK, NothingUnbound, At, SaverOf
<1>2. CASE Crash
  BY <1>2, CrashStep
<1>3. CASE \E r \in Runs : BeginRun(r) \/ Launch(r) \/ Resume(r) \/ Cancel(r) \/ Request(r)
                          \/ NotCancelled(r) \/ Start(r) \/ End(r)
  BY <1>3, BeginRunStep, LaunchStep, ResumeStep, CancelStep, RequestStep,
     NotCancelledStep, StartStep, EndStep
<1>4. CASE \E r \in Runs, c \in Callers :
             Look(r, c) \/ Build(r, c) \/ Install(r, c) \/ Take(r, c) \/ Cancelled(r, c)
  BY <1>4, LookStep, BuildStep, InstallStep, TakeStep, CancelledStep
<1>5. CASE \E r \in Runs, w \in Workers : Put(r, w) \/ Persist(r, w) \/ SaveFails(r, w)
  BY <1>5, PutStep, PersistStep, SaveFailsStep
<1>. QED  BY <1>1, <1>2, <1>3, <1>4, <1>5 DEF Next

(* Whoever goes on with a run meets all of its past, for any number of runs, of     *)
(* threads that write, of writes, savers and crashes: PersistentInMemorySaver saves  *)
(* under its lock, and _execute_run looks at the request to cancel after it has its   *)
(* saver.  A thread id is not the number that stands for none.                     *)
THEOREM PastIsMet == ASSUME 0 \notin Ids PROVE Spec => []ResumesWithEverything
<1>1. IInv => ResumesWithEverything
  BY DEF IInv, RunOK, SaversOK, CallersOK, ResumesWithEverything, Holds
<1>. QED  BY InvInit, InvStep, <1>1, PTL DEF Spec

=============================================================================
