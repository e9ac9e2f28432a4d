-------------------------------- MODULE TuiProofs --------------------------------
(*****************************************************************************)
(* Proofs about the TUI in the composition: its store and its screens, for every *)
(* number of tasks, events, inputs and screens.                                *)
(*****************************************************************************)
EXTENDS MCServices, FiniteSetTheorems, SequenceTheorems, WellFoundedInduction, TLAPS

-----------------------------------------------------------------------------
(*****************************************************************************)
(* The store of the TUI.                                                      *)
(*****************************************************************************)
Told == [type : {"started", "asked", "resumed", "completed"}, approval : Nat]

(* The buffer of a run has no event twice, and no more than it may hold.          *)
BufferOK(b) == b \in Seq(Nat) /\ Len(b) <= BufferLimit /\ Store!IsInjective(b)

(* What a worker knows.                                                       *)
Record(d) ==
  d = [at |-> d.at, task |-> d.task, reply |-> d.reply, approval |-> d.approval, from |-> d.from]

(* Where the events come from, and where the workers send them.                  *)
FeedsOK ==
  /\ uFeeds \in Seq([task : Tasks, next : Nat]) /\ uEvents \in Seq([task : Tasks, number : Nat])
  /\ uListener.at # "idle" => uListener.task \in Tasks
  /\ uSync.at # "idle" => uSync.task \in Tasks
  /\ Record(uSync)

(* What the answer to task.get says of the run was so at a moment since the       *)
(* decision was confirmed, and a decision that is on its way has passed that test.  *)
DecideOK ==
  /\ Record(uDecide)
  /\ uDecide.at # "idle" => uDecide.task \in Tasks /\ uDecide.from \in 0..Len(uLog[uDecide.task])
  /\ uDecide.at = "got" =>
       \E n \in uDecide.from..Len(uLog[uDecide.task]) :
         uDecide.reply.pending = Store!PendingAt(uDecide.task, n)
  /\ NeverDecidesStale

StoreInv ==
  /\ uLog \in [Tasks -> Seq(Told)]
  /\ DOMAIN uBuffer = Tasks /\ \A t \in Tasks : BufferOK(uBuffer[t])
  /\ FeedsOK /\ DecideOK

(* What a worker knows after one of its fields is set.                       *)
LEMMA RecordWith ==
  ASSUME NEW d, Record(d), NEW new
  PROVE  /\ [d EXCEPT !.at = new] =
              [at |-> new, task |-> d.task, reply |-> d.reply, approval |-> d.approval, from |-> d.from]
         /\ [d EXCEPT !.reply = new] =
              [at |-> d.at, task |-> d.task, reply |-> new, approval |-> d.approval, from |-> d.from]
         /\ [d EXCEPT !.approval = new] =
              [at |-> d.at, task |-> d.task, reply |-> d.reply, approval |-> new, from |-> d.from]
<1> DEFINE e == [at |-> d.at, task |-> d.task, reply |-> d.reply, approval |-> d.approval, from |-> d.from]
<1>1. [e EXCEPT !.at = new] =
        [at |-> new, task |-> d.task, reply |-> d.reply, approval |-> d.approval, from |-> d.from]
  OBVIOUS
<1>2. [e EXCEPT !.reply = new] =
        [at |-> d.at, task |-> d.task, reply |-> new, approval |-> d.approval, from |-> d.from]
  OBVIOUS
<1>3. [e EXCEPT !.approval = new] =
        [at |-> d.at, task |-> d.task, reply |-> d.reply, approval |-> new, from |-> d.from]
  OBVIOUS
<1>4. d = e BY DEF Record
<1> HIDE DEF e
<1> QED BY <1>1, <1>2, <1>3, <1>4

(* After two or three of them are set.                                       *)
LEMMA RecordSet ==
  ASSUME NEW d, Record(d), NEW step, NEW reply, NEW approval
  PROVE  /\ [d EXCEPT !.at = step, !.reply = reply] =
              [at |-> step, task |-> d.task, reply |-> reply, approval |-> d.approval, from |-> d.from]
         /\ [d EXCEPT !.reply = reply, !.at = step] =
              [at |-> step, task |-> d.task, reply |-> reply, approval |-> d.approval, from |-> d.from]
         /\ [d EXCEPT !.at = step, !.approval = approval] =
              [at |-> step, task |-> d.task, reply |-> d.reply, approval |-> approval, from |-> d.from]
         /\ [d EXCEPT !.reply = reply, !.at = step, !.approval = approval] =
              [at |-> step, task |-> d.task, reply |-> reply, approval |-> approval, from |-> d.from]
<1> DEFINE a == [d EXCEPT !.at = step]
           r == [d EXCEPT !.reply = reply]
           b == [r EXCEPT !.at = step]
<1>1. /\ [d EXCEPT !.at = step, !.reply = reply] = [a EXCEPT !.reply = reply]
      /\ [d EXCEPT !.reply = reply, !.at = step] = b
      /\ [d EXCEPT !.at = step, !.approval = approval] = [a EXCEPT !.approval = approval]
      /\ [d EXCEPT !.reply = reply, !.at = step, !.approval = approval] = [b EXCEPT !.approval = approval]
  OBVIOUS
<1>2. a = [at |-> step, task |-> d.task, reply |-> d.reply, approval |-> d.approval, from |-> d.from]
  BY RecordWith
<1>3. r = [at |-> d.at, task |-> d.task, reply |-> reply, approval |-> d.approval, from |-> d.from]
  BY RecordWith
<1> HIDE DEF a, r
<1>4. Record(a) /\ Record(r) BY <1>2, <1>3 DEF Record
<1>5. /\ a.task = d.task /\ a.reply = d.reply /\ a.approval = d.approval /\ a.from = d.from /\ a.at = step
      /\ r.task = d.task /\ r.reply = reply /\ r.approval = d.approval /\ r.from = d.from
  BY <1>2, <1>3
<1>6. b = [at |-> step, task |-> d.task, reply |-> reply, approval |-> d.approval, from |-> d.from]
  <2>1. b = [at |-> step, task |-> r.task, reply |-> r.reply, approval |-> r.approval, from |-> r.from]
    BY <1>4, RecordWith
  <2> QED BY <1>5, <2>1
<1> HIDE DEF b
<1>7. /\ Record(b) /\ b.at = step /\ b.task = d.task /\ b.reply = reply /\ b.from = d.from
  BY <1>6 DEF Record
<1>8. /\ [a EXCEPT !.reply = reply] =
           [at |-> a.at, task |-> a.task, reply |-> reply, approval |-> a.approval, from |-> a.from]
      /\ [a EXCEPT !.approval = approval] =
           [at |-> a.at, task |-> a.task, reply |-> a.reply, approval |-> approval, from |-> a.from]
      /\ [b EXCEPT !.approval = approval] =
           [at |-> b.at, task |-> b.task, reply |-> b.reply, approval |-> approval, from |-> b.from]
  BY <1>4, <1>7, RecordWith
<1> QED BY <1>1, <1>5, <1>6, <1>7, <1>8

(* A step of the composition is one of the store, or leaves it alone.        *)
LEMMA StoreSteps == [ServicesNext]_services => [Store!Next]_storeVars
BY DEF ServicesNext, services, Resting

(* At first no event is recorded and no worker runs.                         *)
LEMMA StoreInit == Store!Init => StoreInv
<1> SUFFICES ASSUME Store!Init PROVE StoreInv
  OBVIOUS
<1>1. uLog \in [Tasks -> Seq(Told)] BY DEF Store!Init
<1>2. DOMAIN uBuffer = Tasks /\ \A t \in Tasks : uBuffer[t] = <<>> BY DEF Store!Init
<1>3. BufferOK(<<>>) BY BufferAssumption DEF BufferOK, Store!IsInjective
<1>4. FeedsOK BY DEF Store!Init, FeedsOK, Record, Store!Idle
<1>5. DecideOK
  BY DEF Store!Init, DecideOK, Record, Store!Idle, NeverDecidesStale, Store!NeverDecidesStale
<1> QED BY <1>1, <1>2, <1>3, <1>4, <1>5 DEF StoreInv

(* An event that is recorded is there once, and the oldest makes room.             *)
LEMMA RecordedOnce ==
  ASSUME NEW b, BufferOK(b), NEW n \in Nat
  PROVE  BufferOK(Store!Recorded(b, n))
<1>1. b \in Seq(Nat) /\ Len(b) \in Nat /\ \A i, j \in 1..Len(b) : b[i] = b[j] => i = j
  BY DEF BufferOK, Store!IsInjective
<1>2. CASE n \in Store!ToSet(b) BY <1>2 DEF Store!Recorded
<1>3. CASE n \notin Store!ToSet(b) /\ Len(b) < BufferLimit
  <2> DEFINE c == Append(b, n)
  <2>1. \A i \in 1..Len(b) : b[i] # n BY <1>1, <1>3 DEF Store!ToSet
  <2>2. c \in Seq(Nat) /\ Len(c) = Len(b) + 1 /\ c[Len(b) + 1] = n /\ \A i \in 1..Len(b) : c[i] = b[i]
    BY <1>1
  <2> HIDE DEF c
  <2>3. \A i, j \in 1..Len(c) : c[i] = c[j] => i = j BY SMTT(30), <1>1, <2>1, <2>2
  <2>4. BufferOK(c) BY <1>1, <1>3, <2>2, <2>3, BufferAssumption DEF BufferOK, Store!IsInjective
  <2> QED BY <1>3, <2>4 DEF Store!Recorded, c
<1>4. CASE n \notin Store!ToSet(b) /\ ~(Len(b) < BufferLimit)
  <2> DEFINE d == Tail(b)
             c == Append(d, n)
  <2>1. \A i \in 1..Len(b) : b[i] # n BY <1>1, <1>4 DEF Store!ToSet
  <2>2. Len(b) = BufferLimit /\ Len(b) > 0 BY <1>1, <1>4, BufferAssumption DEF BufferOK
  <2>3. d \in Seq(Nat) /\ Len(d) = Len(b) - 1 /\ \A i \in 1..Len(d) : d[i] = b[i + 1]
    BY <1>1, <2>2
  <2> HIDE DEF d
  <2>4. c \in Seq(Nat) /\ Len(c) = Len(b) /\ c[Len(b)] = n /\ \A i \in 1..Len(b) - 1 : c[i] = b[i + 1]
    BY <1>1, <2>3
  <2> HIDE DEF c
  <2>5. ASSUME NEW i \in 1..Len(c), NEW j \in 1..Len(c), c[i] = c[j] PROVE i = j
    <3>1. CASE i < Len(b) /\ j < Len(b)
      <4>1. i + 1 \in 1..Len(b) /\ j + 1 \in 1..Len(b) /\ b[i + 1] = b[j + 1]
        BY SMTT(30), <1>1, <2>4, <2>5, <3>1
      <4> QED BY <1>1, <4>1
    <3>2. CASE i = Len(b) /\ j < Len(b)
      <4>1. j + 1 \in 1..Len(b) /\ b[j + 1] = n BY <1>1, <2>4, <2>5, <3>2
      <4> QED BY <2>1, <4>1
    <3>3. CASE j = Len(b) /\ i < Len(b)
      <4>1. i + 1 \in 1..Len(b) /\ b[i + 1] = n BY <1>1, <2>4, <2>5, <3>3
      <4> QED BY <2>1, <4>1
    <3> QED BY <1>1, <2>4, <3>1, <3>2, <3>3
  <2>6. BufferOK(c) BY <2>2, <2>4, <2>5, BufferAssumption DEF BufferOK, Store!IsInjective
  <2> QED BY <1>4, <2>6 DEF Store!Recorded, c, d
<1> QED BY <1>2, <1>3, <1>4

(* A report that is added leaves the earlier ones, and so what the run was waiting *)
(* for at each of them.                                                       *)
LEMMA EmitKeeps ==
  ASSUME uLog \in [Tasks -> Seq(Told)], NEW t \in Tasks, NEW approval \in Nat,
         NEW type \in {"started", "asked", "resumed", "completed"}, Store!Emit(t, type, approval)
  PROVE  /\ uLog' \in [Tasks -> Seq(Told)]
         /\ \A u \in Tasks :
              /\ Len(uLog[u]) \in Nat /\ Len(uLog'[u]) \in Nat /\ Len(uLog[u]) <= Len(uLog'[u])
              /\ \A n \in 0..Len(uLog[u]) : Store!PendingAt(u, n)' = Store!PendingAt(u, n)
<1> DEFINE e == [type |-> type, approval |-> approval]
<1>1. e \in Told BY DEF Told
<1>2. uLog' = [uLog EXCEPT ![t] = Append(uLog[t], e)] BY DEF Store!Emit
<1> HIDE DEF e
<1>3. Append(uLog[t], e) \in Seq(Told) /\ Len(Append(uLog[t], e)) = Len(uLog[t]) + 1
      /\ \A n \in 1..Len(uLog[t]) : Append(uLog[t], e)[n] = uLog[t][n]
  BY <1>1
<1>4. uLog' \in [Tasks -> Seq(Told)] BY <1>2, <1>3
<1>5. ASSUME NEW u \in Tasks
      PROVE  /\ Len(uLog[u]) \in Nat /\ Len(uLog'[u]) \in Nat /\ Len(uLog[u]) <= Len(uLog'[u])
             /\ \A n \in 0..Len(uLog[u]) : Store!PendingAt(u, n)' = Store!PendingAt(u, n)
  <2>1. Len(uLog[u]) \in Nat OBVIOUS
  <2>2. uLog'[u] = IF u = t THEN Append(uLog[t], e) ELSE uLog[u] BY <1>2
  <2>3. Len(uLog'[u]) \in Nat /\ Len(uLog[u]) <= Len(uLog'[u])
        /\ \A n \in 1..Len(uLog[u]) : uLog'[u][n] = uLog[u][n]
    BY <1>3, <2>1, <2>2
  <2>4. ASSUME NEW n \in 0..Len(uLog[u]) PROVE Store!PendingAt(u, n)' = Store!PendingAt(u, n)
    <3>1. CASE n = 0 BY <3>1 DEF Store!PendingAt, Store!LastType
    <3>2. CASE n # 0
      <4>1. uLog'[u][n] = uLog[u][n] BY <2>1, <2>3, <3>2
      <4> QED BY <3>2, <4>1 DEF Store!PendingAt, Store!LastType
    <3> QED BY <3>1, <3>2
  <2> QED BY <2>1, <2>3, <2>4
<1> QED BY <1>4, <1>5

(* So a decision is none the worse for it.                                     *)
LEMMA DecideKeeps ==
  ASSUME StoreInv, UNCHANGED uDecide,
         \A u \in Tasks :
           /\ Len(uLog[u]) \in Nat /\ Len(uLog'[u]) \in Nat /\ Len(uLog[u]) <= Len(uLog'[u])
           /\ \A n \in 0..Len(uLog[u]) : Store!PendingAt(u, n)' = Store!PendingAt(u, n)
  PROVE  DecideOK'
<1> DEFINE t == uDecide.task
<1>1. DecideOK BY DEF StoreInv
<1>2. CASE uDecide.at = "idle"
  BY <1>1, <1>2 DEF DecideOK, NeverDecidesStale, Store!NeverDecidesStale
<1>3. CASE uDecide.at # "idle"
  <2>1. t \in Tasks /\ uDecide.from \in 0..Len(uLog[t]) BY <1>1, <1>3 DEF DecideOK
  <2>2. \A n \in uDecide.from..Len(uLog[t]) :
          n \in uDecide.from..Len(uLog'[t]) /\ Store!PendingAt(t, n)' = Store!PendingAt(t, n)
    BY <2>1
  <2>3. uDecide.from \in 0..Len(uLog'[t]) BY <2>1
  <2>4. uDecide.at = "got" =>
          \E n \in uDecide.from..Len(uLog'[t]) : uDecide.reply.pending = Store!PendingAt(t, n)'
    BY <1>1, <2>2 DEF DecideOK
  <2>5. uDecide.at = "approve" =>
          \E n \in uDecide.from..Len(uLog'[t]) : Store!PendingAt(t, n)' \in {uDecide.approval, 0}
    BY <1>1, <2>2 DEF DecideOK, NeverDecidesStale, Store!NeverDecidesStale
  <2> QED BY <1>1, <2>1, <2>3, <2>4, <2>5 DEF DecideOK, NeverDecidesStale, Store!NeverDecidesStale
<1> QED BY <1>2, <1>3

(* The runtime adds a report to the log of a run.                            *)
LEMMA StoreRuntime ==
  ASSUME StoreInv, NEW t \in Tasks, Store!RuntimeStep(t) PROVE StoreInv'
<1>1. uLog \in [Tasks -> Seq(Told)] /\ Len(uLog[t]) + 1 \in Nat BY DEF StoreInv
<1>2. \E type \in {"started", "asked", "resumed", "completed"}, a \in Nat : Store!Emit(t, type, a)
  BY <1>1 DEF Store!RuntimeStep
<1>3. UNCHANGED <<uFeeds, uEvents, uBuffer, uListener, uSync, uDecide>>
  BY DEF Store!RuntimeStep, Store!store, Store!workers
<1>4. uLog' \in [Tasks -> Seq(Told)] BY <1>1, <1>2, EmitKeeps
<1>5. DecideOK' BY <1>1, <1>2, <1>3, EmitKeeps, DecideKeeps
<1> QED BY <1>3, <1>4, <1>5 DEF StoreInv, FeedsOK

(* The steps that only feed events, or the workers that listen.                   *)
LEMMA StoreKeeps ==
  ASSUME StoreInv, UNCHANGED <<uLog, uBuffer, uDecide>>, FeedsOK'
  PROVE  StoreInv'
BY DEF StoreInv, DecideOK, NeverDecidesStale, Store!NeverDecidesStale, Store!PendingAt,
       Store!LastType

(* A stream delivers the next event of its run.                              *)
LEMMA StoreFeed ==
  ASSUME StoreInv, NEW f \in DOMAIN uFeeds, Store!Feed(f) PROVE StoreInv'
<1> DEFINE e == [task |-> uFeeds[f].task, number |-> uFeeds[f].next]
<1>1. /\ uEvents' = Append(uEvents, e) /\ uFeeds' = [uFeeds EXCEPT ![f].next = @ + 1]
      /\ UNCHANGED <<uLog, uBuffer, uDecide, uListener, uSync>>
  BY DEF Store!Feed, Store!store, Store!workers
<1>0. uFeeds \in Seq([task : Tasks, next : Nat]) BY DEF StoreInv, FeedsOK
<1>2. uFeeds[f] \in [task : Tasks, next : Nat]
  <2>1. f \in 1..Len(uFeeds) BY <1>0
  <2> QED BY <1>0, <2>1, ElementOfSeq
<1>3. e \in [task : Tasks, number : Nat] BY <1>2
<1>4. uEvents' \in Seq([task : Tasks, number : Nat]) BY <1>1, <1>3 DEF StoreInv, FeedsOK
<1>5. [uFeeds[f] EXCEPT !.next = @ + 1] \in [task : Tasks, next : Nat] BY <1>2
<1>6. uFeeds' \in Seq([task : Tasks, next : Nat]) BY <1>0, <1>1, <1>5
<1> QED BY <1>1, <1>4, <1>6, StoreKeeps DEF StoreInv, FeedsOK

(* The app records the event at the head of its queue, if it is not there    *)
(* yet.                                                                      *)
LEMMA StoreConsume == ASSUME StoreInv, Store!Consume PROVE StoreInv'
<1> DEFINE t == Head(uEvents).task
           n == Head(uEvents).number
<1>1. uEvents \in Seq([task : Tasks, number : Nat]) /\ uEvents # <<>> /\ uEvents' = Tail(uEvents)
  BY DEF StoreInv, FeedsOK, Store!Consume
<1>2. Head(uEvents) \in [task : Tasks, number : Nat] /\ uEvents' \in Seq([task : Tasks, number : Nat])
  BY <1>1, HeadTailProperties
<1>3. t \in Tasks /\ n \in Nat BY <1>2
<1>4. /\ uListener' \in {uListener, Store!Idle}
      /\ uBuffer' \in {uBuffer, [uBuffer EXCEPT ![t] = Store!Recorded(uBuffer[t], n)]}
      /\ UNCHANGED <<uLog, uFeeds, uSync, uDecide>>
  BY DEF Store!Consume, Store!ReduceEvent, Store!runtime
<1>5. BufferOK(Store!Recorded(uBuffer[t], n)) BY <1>3, RecordedOnce DEF StoreInv
<1>6. DOMAIN uBuffer' = Tasks /\ \A u \in Tasks : BufferOK(uBuffer'[u])
  BY <1>3, <1>4, <1>5 DEF StoreInv
<1>7. FeedsOK' BY <1>2, <1>4 DEF StoreInv, FeedsOK, Store!Idle
<1> QED BY <1>4, <1>6, <1>7
        DEF StoreInv, DecideOK, NeverDecidesStale, Store!NeverDecidesStale, Store!PendingAt,
            Store!LastType

(* A dialog that is closed may start a decision, from what the log says      *)
(* then.                                                                     *)
LEMMA StoreClose ==
  ASSUME StoreInv, NEW confirmed \in BOOLEAN, Store!CloseDialog(confirmed) PROVE StoreInv'
<1>1. UNCHANGED <<uLog, uFeeds, uEvents, uBuffer, uListener, uSync>>
  BY DEF Store!CloseDialog, Store!runtime, Store!store
<1>2. CASE UNCHANGED uDecide BY <1>1, <1>2, StoreKeeps DEF StoreInv, FeedsOK
<1>3. CASE ~UNCHANGED uDecide
  <2>1. /\ uChosen \in Tasks \X Store!Ids
        /\ uDecide' = [at |-> "get", task |-> uChosen[1], reply |-> <<>>, approval |-> uChosen[2],
                       from |-> Len(uLog[uChosen[1]])]
    BY <1>3 DEF Store!CloseDialog, Store!Known
  <2>2. uChosen[1] \in Tasks /\ Len(uLog[uChosen[1]]) \in Nat BY <2>1 DEF StoreInv
  <2>3. uDecide'.task = uChosen[1] /\ uDecide'.from \in 0..Len(uLog'[uDecide'.task])
        /\ uDecide'.at = "get"
    BY <1>1, <2>1, <2>2
  <2>4. Record(uDecide')
    BY <2>1 DEF Record
  <2>5. DecideOK' BY <2>2, <2>3, <2>4 DEF DecideOK, NeverDecidesStale, Store!NeverDecidesStale
  <2> QED BY <1>1, <2>5 DEF StoreInv, FeedsOK
<1> QED BY <1>2, <1>3

(* The runtime answers task.get, and the approval that is then sent, as the  *)
(* log is at that moment.                                                    *)
LEMMA StoreAnswerDecide == ASSUME StoreInv, Store!AnswerDecide PROVE StoreInv'
<1> DEFINE t == uDecide.task
<1>1. /\ UNCHANGED <<uFeeds, uEvents, uBuffer, uListener, uSync>> /\ uDecide.at # "idle"
      /\ uLog \in [Tasks -> Seq(Told)] /\ DecideOK
  BY DEF Store!AnswerDecide, Store!store, StoreInv
<1>2. t \in Tasks /\ uDecide.from \in 0..Len(uLog[t]) /\ Len(uLog[t]) \in Nat
  BY <1>1 DEF DecideOK
<1>3. CASE uDecide.at = "get" /\ uDecide' = [uDecide EXCEPT !.at = "got", !.reply = Store!Snapshot(t)]
           /\ UNCHANGED uLog
  <2>1. uDecide' = [at |-> "got", task |-> t, reply |-> Store!Snapshot(t),
                    approval |-> uDecide.approval, from |-> uDecide.from]
    BY <1>1, <1>3, RecordSet DEF DecideOK
  <2>2. Store!Snapshot(t).pending = Store!PendingAt(t, Len(uLog[t]))
    BY DEF Store!Snapshot, Store!Pending
  <2>3. /\ uDecide'.at = "got" /\ uDecide'.task = t /\ uDecide'.from = uDecide.from
        /\ uDecide'.reply.pending = Store!PendingAt(t, Len(uLog[t]))
        /\ Record(uDecide')
    BY <2>1, <2>2 DEF Record
  <2>4. Store!PendingAt(t, Len(uLog[t]))' = Store!PendingAt(t, Len(uLog[t]))
    BY <1>3 DEF Store!PendingAt, Store!LastType
  <2>5. \E n \in uDecide.from..Len(uLog[t]) : uDecide'.reply.pending = Store!PendingAt(t, n)'
    BY <1>2, <1>3, <2>3, <2>4
  <2>6. DecideOK'
    BY <1>2, <1>3, <2>3, <2>5 DEF DecideOK, NeverDecidesStale, Store!NeverDecidesStale
  <2> QED BY <1>1, <1>3, <2>6 DEF StoreInv, FeedsOK
<1>4. CASE \E step \in {"answered", "reread", "listed"} : \E reply, approval :
             uDecide' = [at |-> step, task |-> t, reply |-> reply, approval |-> approval,
                         from |-> uDecide.from]
           /\ (UNCHANGED uLog \/ Store!Emit(t, "resumed", 0))
  <2>1. /\ uLog' \in [Tasks -> Seq(Told)] /\ Len(uLog[t]) <= Len(uLog'[t]) /\ Len(uLog'[t]) \in Nat
    <3>1. CASE UNCHANGED uLog BY <1>1, <1>2, <3>1
    <3>2. CASE Store!Emit(t, "resumed", 0) BY <1>1, <1>2, <3>2, EmitKeeps
    <3> QED BY <1>4, <3>1, <3>2
  <2>2. /\ Record(uDecide')
        /\ uDecide'.at \in {"answered", "reread", "listed"} /\ uDecide'.task = t
        /\ uDecide'.from = uDecide.from
    BY <1>4 DEF Record
  <2>3. DecideOK'
    BY <1>2, <2>1, <2>2 DEF DecideOK, NeverDecidesStale, Store!NeverDecidesStale
  <2> QED BY <1>1, <2>1, <2>3 DEF StoreInv, FeedsOK
<1>5. Record(uDecide) BY <1>1 DEF DecideOK
<1>6. CASE /\ Store!Emit(t, "resumed", 0)
           /\ uDecide' = [uDecide EXCEPT !.at = "answered",
                                         !.reply = [status |-> "executing", pending |-> 0]]
  <2>1. uDecide' = [at |-> "answered", task |-> t, reply |-> [status |-> "executing", pending |-> 0],
                    approval |-> uDecide.approval, from |-> uDecide.from]
    BY <1>5, <1>6, RecordSet
  <2> QED BY <1>4, <1>6, <2>1
<1>7. CASE uDecide' = [uDecide EXCEPT !.at = "reread", !.approval = 0] /\ UNCHANGED uLog
  <2>1. uDecide' = [at |-> "reread", task |-> t, reply |-> uDecide.reply, approval |-> 0,
                    from |-> uDecide.from]
    BY <1>5, <1>7, RecordSet
  <2> QED BY <1>4, <1>7, <2>1
<1>8. ASSUME NEW step \in {"answered", "listed"}, NEW reply,
             uDecide' = [uDecide EXCEPT !.at = step, !.reply = reply], UNCHANGED uLog
      PROVE  StoreInv'
  <2>1. uDecide' = [at |-> step, task |-> t, reply |-> reply, approval |-> uDecide.approval,
                    from |-> uDecide.from]
    BY <1>5, <1>8, RecordSet
  <2> QED BY <1>4, <1>8, <2>1
<1> QED BY <1>3, <1>6, <1>7, <1>8 DEF Store!AnswerDecide

(* The worker sends the decision only if the answer still waits for the      *)
(* approval.                                                                 *)
LEMMA StoreDecide == ASSUME StoreInv, Store!Decide PROVE StoreInv'
<1> DEFINE t == uDecide.task
<1>1. /\ UNCHANGED <<uLog, uFeeds, uEvents, uBuffer, uSync>> /\ uDecide.at # "idle" /\ DecideOK
  BY DEF Store!Decide, Store!runtime, StoreInv
<1>2. t \in Tasks /\ uDecide.from \in 0..Len(uLog[t]) BY <1>1 DEF DecideOK
<1>3. uListener' \in {uListener, [Store!Idle EXCEPT !.at = "ask", !.task = t]}
  BY DEF Store!Decide, Store!StartStream
<1>4. FeedsOK'
  <2>1. [Store!Idle EXCEPT !.at = "ask", !.task = t].task = t BY DEF Store!Idle
  <2> QED BY <1>1, <1>2, <1>3, <2>1 DEF StoreInv, FeedsOK
<1>5. Record(uDecide) BY <1>1 DEF DecideOK
<1>7. CASE /\ uDecide.at = "got" /\ ~Store!IsStale(uDecide.reply, uDecide.approval)
           /\ uDecide' = [uDecide EXCEPT !.reply = <<>>, !.at = "approve"]
  <2>1. uDecide' = [at |-> "approve", task |-> t, reply |-> <<>>, approval |-> uDecide.approval,
                    from |-> uDecide.from]
    BY <1>5, <1>7, RecordSet
  <2>2. /\ uDecide'.at = "approve" /\ uDecide'.task = t /\ uDecide'.from = uDecide.from
        /\ uDecide'.approval = uDecide.approval
        /\ Record(uDecide')
    BY <2>1 DEF Record
  <2>3. PICK n \in uDecide.from..Len(uLog[t]) : uDecide.reply.pending = Store!PendingAt(t, n)
    BY <1>1, <1>7 DEF DecideOK
  <2>4. Store!PendingAt(t, n) \in {uDecide.approval, 0} BY <1>7, <2>3 DEF Store!IsStale
  <2>5. Store!PendingAt(t, n)' = Store!PendingAt(t, n) BY <1>1, <2>2 DEF Store!PendingAt, Store!LastType
  <2>6. DecideOK'
    BY <1>1, <1>2, <2>2, <2>3, <2>4, <2>5 DEF DecideOK, NeverDecidesStale, Store!NeverDecidesStale
  <2> QED BY <1>1, <1>4, <2>6 DEF StoreInv
<1>8. CASE \E reply, approval :
             uDecide' = [at |-> "list", task |-> t, reply |-> reply, approval |-> approval,
                         from |-> uDecide.from]
  <2>1. /\ uDecide'.at = "list" /\ uDecide'.task = t /\ uDecide'.from = uDecide.from
        /\ Record(uDecide')
    BY <1>8 DEF Record
  <2>2. DecideOK' BY <1>1, <1>2, <2>1 DEF DecideOK, NeverDecidesStale, Store!NeverDecidesStale
  <2> QED BY <1>1, <1>4, <2>2 DEF StoreInv
<1>9. CASE uDecide' = Store!Idle
  <2>1. DecideOK' BY <1>9 DEF DecideOK, NeverDecidesStale, Store!NeverDecidesStale, Store!Idle, Record
  <2> QED BY <1>1, <1>4, <2>1 DEF StoreInv
<1> QED
  <2>1. CASE uDecide' = [uDecide EXCEPT !.reply = <<>>, !.at = "list", !.approval = 0]
    BY ZenonT(60), <1>5, <1>8, RecordSet, <2>1
  <2>2. CASE uDecide' = [uDecide EXCEPT !.at = "list", !.reply = <<>>]
    BY ZenonT(60), <1>5, <1>8, RecordSet, <2>2
  <2> QED BY <1>7, <1>9, <2>1, <2>2 DEF Store!Decide

(* Every step of the runtime, the streams, the user and the workers keeps    *)
(* the invariant.                                                            *)
LEMMA StoreNext == StoreInv /\ [Store!Next]_storeVars => StoreInv'
<1> SUFFICES ASSUME StoreInv, [Store!Next]_storeVars PROVE StoreInv'
  OBVIOUS
<1>0. FeedsOK BY DEF StoreInv
<1>1. CASE UNCHANGED storeVars BY <1>0, <1>1, StoreKeeps DEF storeVars, FeedsOK
<1>2. ASSUME NEW t \in Tasks, Store!RuntimeStep(t) PROVE StoreInv' BY <1>2, StoreRuntime
<1>3. ASSUME NEW t \in Tasks, Store!Select(t) PROVE StoreInv'
  BY <1>0, <1>3, StoreKeeps DEF Store!Select, Store!runtime, Store!Idle, FeedsOK, Record
<1>4. ASSUME NEW f \in DOMAIN uFeeds, Store!Feed(f) PROVE StoreInv' BY <1>4, StoreFeed
<1>5. CASE Store!AnswerSync
  <2>1. uSync'.task = uSync.task /\ uSync.at # "idle" /\ Record(uSync')
    BY <1>0, <1>5, RecordSet DEF Store!AnswerSync, FeedsOK, Record
  <2> QED BY <1>0, <1>5, <2>1, StoreKeeps
          DEF Store!AnswerSync, Store!runtime, Store!store, FeedsOK
<1>6. CASE Store!Sync
  <2>1. uSync.task \in Tasks BY <1>0, <1>6 DEF Store!Sync, FeedsOK
  <2>2. uListener' \in {uListener, [Store!Idle EXCEPT !.at = "ask", !.task = uSync.task]}
    BY <1>6 DEF Store!Sync, Store!StartStream
  <2>3. [Store!Idle EXCEPT !.at = "ask", !.task = uSync.task].task = uSync.task BY DEF Store!Idle
  <2>4. Record(uSync') /\ (uSync' = Store!Idle \/ uSync'.task = uSync.task)
    BY <1>0, <1>6, RecordSet DEF Store!Sync, Store!Idle, FeedsOK, Record
  <2>5. UNCHANGED <<uLog, uFeeds, uEvents, uBuffer, uDecide>> BY <1>6 DEF Store!Sync, Store!runtime
  <2>6. uListener'.at # "idle" => uListener'.task \in Tasks BY <1>0, <2>1, <2>2, <2>3 DEF FeedsOK
  <2>7. uSync'.at # "idle" => uSync'.task \in Tasks BY <2>1, <2>4 DEF Store!Idle
  <2>8. FeedsOK' BY <1>0, <2>4, <2>5, <2>6, <2>7 DEF FeedsOK
  <2> QED BY <2>5, <2>8, StoreKeeps
<1>7. CASE Store!AskStream
  <2>1. /\ uListener.task \in Tasks /\ uListener'.task = uListener.task
        /\ uFeeds' = Append(uFeeds, [task |-> uListener.task, next |-> 1])
        /\ UNCHANGED <<uLog, uEvents, uBuffer, uDecide, uSync>>
    BY <1>0, <1>7 DEF Store!AskStream, Store!store, FeedsOK
  <2>2. [task |-> uListener.task, next |-> 1] \in [task : Tasks, next : Nat] BY <2>1
  <2>3. uFeeds' \in Seq([task : Tasks, next : Nat]) BY <1>0, <2>1, <2>2 DEF FeedsOK
  <2> QED BY <1>0, <2>1, <2>3, StoreKeeps DEF FeedsOK
<1>8. CASE Store!Consume BY <1>8, StoreConsume
<1>9. CASE Store!OpenDialog
  BY <1>0, <1>9, StoreKeeps DEF Store!OpenDialog, Store!runtime, Store!store, Store!workers, FeedsOK
<1>10. ASSUME NEW confirmed \in BOOLEAN, Store!CloseDialog(confirmed) PROVE StoreInv'
  BY <1>10, StoreClose
<1>11. CASE Store!AnswerDecide BY <1>11, StoreAnswerDecide
<1>12. CASE Store!Decide BY <1>12, StoreDecide
<1> QED BY <1>1, <1>2, <1>3, <1>4, <1>5, <1>6, <1>7, <1>8, <1>9, <1>10, <1>11, <1>12
        DEF Store!Next

(* However often a history is streamed again, and by whichever stream, the timeline *)
(* of a run has an event at most once.                                         *)
THEOREM TimelineHasNoRepeats == ServicesSpec => []NoRecordTwice
<1>1. ServicesInit => StoreInv BY StoreInit DEF ServicesInit
<1>2. StoreInv /\ [ServicesNext]_services => StoreInv' BY StoreSteps, StoreNext
<1>3. StoreInv => NoRecordTwice BY DEF StoreInv, BufferOK, NoRecordTwice, Store!NoRecordTwice
<1> QED BY <1>1, <1>2, <1>3, PTL DEF ServicesSpec

(* A decision that is sent was not superseded all the while since it was confirmed. *)
THEOREM DecisionsAreNotStale == ServicesSpec => []NeverDecidesStale
<1>1. ServicesInit => StoreInv BY StoreInit DEF ServicesInit
<1>2. StoreInv /\ [ServicesNext]_services => StoreInv' BY StoreSteps, StoreNext
<1>3. StoreInv => NeverDecidesStale BY DEF StoreInv, DecideOK
<1> QED BY <1>1, <1>2, <1>3, PTL DEF ServicesSpec

-----------------------------------------------------------------------------
(* A set of numbers that is not empty has a least one.                          *)
LEMMA LeastOf ==
  ASSUME NEW T \in SUBSET Nat, T # {}
  PROVE  \E n \in T : \A m \in T : n <= m
<1>1. PICK n \in T : \A m \in T : ~(<<m, n>> \in OpToRel(<, Nat))
  BY NatLessThanWellFounded, WFMin
<1>2. \A m \in T : m \in Nat /\ ~(m < n) BY <1>1 DEF OpToRel
<1>3. n \in Nat OBVIOUS
<1>4. \A m \in T : n <= m BY <1>2, <1>3
<1> QED BY <1>4

(* One that is bounded has a greatest one.                                     *)
LEMMA GreatestOf ==
  ASSUME NEW T \in SUBSET Nat, T # {}, NEW k \in Nat, \A n \in T : n <= k
  PROVE  \E n \in T : \A m \in T : n >= m
<1> DEFINE D == {k - n : n \in T}
<1>0. \A n \in T : k - n \in Nat OBVIOUS
<1>1. D \in SUBSET Nat /\ D # {} BY <1>0
<1> HIDE DEF D
<1>2. PICK d \in D : \A e \in D : d <= e BY <1>1, LeastOf
<1> USE DEF D
<1>3. PICK n \in T : d = k - n BY <1>2
<1>4. \A m \in T : d <= k - m BY <1>2
<1>5. \A m \in T : n >= m BY <1>3, <1>4
<1> QED BY <1>5

(* And one task has the longest log: of the sets of tasks without one, there is no    *)
(* smallest.                                                                  *)
LEMMA LongestLog ==
  ASSUME Tasks # {}
  PROVE  \E t \in Tasks : \A u \in Tasks : MaxLogged[t] >= MaxLogged[u]
<1> DEFINE Longest(S, t) == t \in S /\ \A u \in S : MaxLogged[t] >= MaxLogged[u]
           Bad == {n \in Nat : \E S \in SUBSET Tasks :
                     Cardinality(S) = n /\ S # {} /\ ~\E t \in S : Longest(S, t)}
<1>1. \A t \in Tasks : MaxLogged[t] \in Nat BY LimitsAssumption
<1>2. \A S \in SUBSET Tasks : IsFiniteSet(S) /\ Cardinality(S) \in Nat
  BY TasksAssumption, FS_Subset, FS_CardinalityType
<1>3. ASSUME Bad # {} PROVE FALSE
  <2>1. PICK n \in Bad : \A m \in Bad : n <= m
    <3>1. Bad \in SUBSET Nat OBVIOUS
    <3> HIDE DEF Bad
    <3> QED BY <1>3, <3>1, LeastOf
  <2>2. PICK S \in SUBSET Tasks : Cardinality(S) = n /\ S # {} /\ ~\E t \in S : Longest(S, t)
    BY <2>1
  <2>3. PICK x \in S : TRUE BY <2>2
  <2> DEFINE R == S \ {x}
  <2>4. IsFiniteSet(S) /\ Cardinality(R) = n - 1 /\ R \in SUBSET Tasks /\ n \in Nat
    BY <1>2, <2>2, <2>3, FS_RemoveElement
  <2>5. CASE R = {}
    <3>1. S = {x} BY <2>3, <2>5
    <3> QED BY <1>1, <2>2, <3>1
  <2>6. CASE R # {}
    <3>1. Cardinality(R) \notin Bad
      <4>1. Cardinality(R) < n /\ Cardinality(R) \in Nat BY <1>2, <2>4
      <4> HIDE DEF Bad, R
      <4> QED BY <2>1, <2>4, <4>1
    <3>2. \E t \in R : Longest(R, t) BY <1>2, <2>4, <2>6, <3>1
    <3>3. PICK t \in R : \A u \in R : MaxLogged[t] >= MaxLogged[u] BY <3>2
    <3>4. CASE MaxLogged[t] >= MaxLogged[x]
      <4>1. \A u \in S : MaxLogged[t] >= MaxLogged[u] BY <3>3, <3>4
      <4> QED BY <2>2, <4>1
    <3>5. CASE ~(MaxLogged[t] >= MaxLogged[x])
      <4>1. \A u \in S : MaxLogged[x] >= MaxLogged[u]
        <5>1. x \in Tasks /\ t \in Tasks /\ \A u \in S : u \in Tasks BY <2>2
        <5> QED BY <1>1, <3>3, <3>5, <5>1
      <4> QED BY <2>2, <2>3, <4>1
    <3> QED BY <3>4, <3>5
  <2> QED BY <2>5, <2>6
<1>4. Cardinality(Tasks) \notin Bad BY <1>3
<1>5. \E t \in Tasks : Longest(Tasks, t) BY <1>2, <1>4
<1> QED BY <1>5

(* The ids of approvals are the numbers of the events of the longest log.          *)
LEMMA IdsUpTo ==
  ASSUME Tasks # {}
  PROVE  \E k \in Nat : Store!Ids = 1..k /\ \A t \in Tasks : MaxLogged[t] \in 0..k
<1> DEFINE M == {MaxLogged[t] : t \in Tasks}
<1>1. \A t \in Tasks : MaxLogged[t] \in Nat BY LimitsAssumption
<1>2. \E n \in M : \A m \in M : n >= m
  <2>1. PICK t \in Tasks : \A u \in Tasks : MaxLogged[t] >= MaxLogged[u] BY LongestLog
  <2> QED BY <2>1
<1> DEFINE k == Store!Max(M)
<1>3. k \in M /\ \A m \in M : k >= m BY <1>2 DEF Store!Max
<1>4. Store!Ids = 1..k BY DEF Store!Ids
<1> HIDE DEF k
<1>5. k \in Nat /\ \A t \in Tasks : MaxLogged[t] \in 0..k BY <1>1, <1>3
<1> QED BY <1>4, <1>5

-----------------------------------------------------------------------------
Statuses == {"unknown", "accepted", "executing", "awaiting", "completed"}
Tables  == [Store!Ids -> {"none", "pending", "decided"}]
Named  == (Tasks \X Store!Ids) \cup {Store!NoApproval}

(* Only a question has an approval, and it has the number of its event.               *)
LogOK ==
  \A t \in Tasks :
    /\ Len(uLog[t]) <= MaxLogged[t]
    /\ \A i \in 1..Len(uLog[t]) :
         /\ uLog[t][i].approval \in {0} \cup Store!Ids
         /\ uLog[t][i].type = "asked" => uLog[t][i].approval \in Store!Ids

(* What is on its way is in the log of its run, and so is what the timeline has.      *)
QueueOK ==
  /\ \A f \in 1..Len(uFeeds) : uFeeds[f].next \in 1..Len(uLog[uFeeds[f].task]) + 1
  /\ \A i \in 1..Len(uEvents) : uEvents[i].number \in 1..Len(uLog[uEvents[i].task])
  /\ \A t \in Tasks : \A i \in 1..Len(uBuffer[t]) : uBuffer[t][i] \in 1..Len(uLog[t])

ShownOK ==
  /\ DOMAIN uSnapshot = Tasks /\ \A t \in Tasks : uSnapshot[t].status \in Statuses
  /\ uApprovals \in [Tasks -> Tables]
  /\ uSelected \in Tasks \cup {Store!None} /\ uStreamKey \in Tasks \cup {Store!None}
  /\ uChosen \in Named /\ uDialog \in Named

(* The answer that a worker has is to what it asked.                             *)
WorkOK ==
  /\ uListener.at \in {"idle", "ask", "listen"}
  /\ uSync.at \in {"idle", "get", "got", "list", "listed"}
  /\ uDecide.at \in {"idle", "get", "got", "approve", "reread", "answered", "list", "listed"}
  /\ uSync.at = "got" => uSync.reply.status \in Statuses
  /\ uSync.at = "listed" => uSync.reply \in Tables
  /\ uDecide.at \in {"got", "answered"} => uDecide.reply.status \in Statuses
  /\ uDecide.at = "listed" => uDecide.reply \in Tables

StoreBounded == LogOK /\ QueueOK /\ ShownOK /\ WorkOK

(* The types of the store.                                                    *)
LEMMA StoreTypeOK == StoreInv /\ StoreBounded => Store!TypeOK
<1> SUFFICES ASSUME StoreInv, StoreBounded PROVE Store!TypeOK
  OBVIOUS
<1>1. ASSUME NEW t \in Tasks
      PROVE  /\ uLog[t] \in Seq([type : {"started", "asked", "resumed", "completed"},
                                 approval : {0} \cup Store!Ids])
             /\ Len(uLog[t]) <= MaxLogged[t]
             /\ uBuffer[t] \in Seq(1..Len(uLog[t])) /\ Len(uBuffer[t]) <= BufferLimit
             /\ uSnapshot[t].status \in Statuses /\ uApprovals[t] \in Tables
  <2> DEFINE E == [type : {"started", "asked", "resumed", "completed"}, approval : {0} \cup Store!Ids]
  <2>1. uLog[t] \in Seq(Told) /\ uBuffer[t] \in Seq(Nat) BY DEF StoreInv, BufferOK
  <2>2. \A i \in 1..Len(uLog[t]) : uLog[t][i] \in E
    <3>1. \A i \in 1..Len(uLog[t]) : uLog[t][i] \in Told BY <2>1
    <3> QED BY <3>1 DEF StoreBounded, LogOK, Told
  <2> HIDE DEF E
  <2>3. uLog[t] \in Seq(E)
    <3>1. uLog[t] = [i \in 1..Len(uLog[t]) |-> uLog[t][i]] /\ Len(uLog[t]) \in Nat BY <2>1
    <3> QED BY <2>2, <3>1
  <2>4. uBuffer[t] \in Seq(1..Len(uLog[t]))
    <3>1. uBuffer[t] = [i \in 1..Len(uBuffer[t]) |-> uBuffer[t][i]] /\ Len(uBuffer[t]) \in Nat BY <2>1
    <3>2. \A i \in 1..Len(uBuffer[t]) : uBuffer[t][i] \in 1..Len(uLog[t])
      BY DEF StoreBounded, QueueOK
    <3> QED BY <3>1, <3>2
  <2>5. Len(uBuffer[t]) <= BufferLimit BY DEF StoreInv, BufferOK
  <2> QED BY <2>3, <2>4, <2>5 DEF StoreBounded, LogOK, ShownOK, E
<1>2. uSelected \in Tasks \cup {Store!None} /\ uStreamKey \in Tasks \cup {Store!None}
      /\ {uChosen, uDialog} \subseteq (Tasks \X Store!Ids) \cup {Store!NoApproval}
  BY DEF StoreBounded, ShownOK, Named
<1> QED BY <1>1, <1>2 DEF Store!TypeOK, StoreBounded, WorkOK, Statuses, Tables

(* At first there is nothing.                                                 *)
LEMMA StoreBoundedInit == Store!Init => StoreBounded
<1> SUFFICES ASSUME Store!Init PROVE StoreBounded
  OBVIOUS
<1>1. \A t \in Tasks : uLog[t] = <<>> /\ Len(uLog[t]) = 0 /\ Len(uBuffer[t]) = 0 BY DEF Store!Init
<1>2. Len(uFeeds) = 0 /\ Len(uEvents) = 0 BY DEF Store!Init
<1>3. \A t \in Tasks : MaxLogged[t] \in Nat BY LimitsAssumption
<1>4. LogOK BY <1>1, <1>3 DEF LogOK
<1>5. QueueOK BY <1>1, <1>2 DEF QueueOK
<1>6. ShownOK BY DEF Store!Init, ShownOK, Statuses, Tables, Named
<1>7. WorkOK BY DEF Store!Init, WorkOK, Store!Idle
<1> QED BY <1>4, <1>5, <1>6, <1>7 DEF StoreBounded

(* The status that an event, or a run that has none, stands for.                *)
LEMMA StatusType ==
  ASSUME NEW type \in {"accepted", "started", "asked", "resumed", "completed"}
  PROVE  Store!StatusOf(type) \in Statuses
BY DEF Store!StatusOf, Statuses

(* What the runtime answers to task.get and to task.approvals.list.             *)
LEMMA RepliesAre ==
  ASSUME StoreInv, NEW t \in Tasks
  PROVE  Store!Snapshot(t).status \in Statuses /\ Store!Approvals(t) \in Tables
<1>1. uLog[t] \in Seq(Told) BY DEF StoreInv
<1>2. Store!LastType(t, Len(uLog[t])) \in {"accepted", "started", "asked", "resumed", "completed"}
  <2>1. CASE Len(uLog[t]) = 0 BY <2>1 DEF Store!LastType
  <2>2. CASE Len(uLog[t]) # 0
    <3>1. Len(uLog[t]) \in 1..Len(uLog[t]) BY <1>1, <2>2
    <3>2. uLog[t][Len(uLog[t])] \in Told BY <1>1, <3>1
    <3> QED BY <2>2, <3>2 DEF Store!LastType, Told
  <2> QED BY <2>1, <2>2
<1>3. Store!Snapshot(t).status \in Statuses BY <1>2, StatusType DEF Store!Snapshot
<1>4. Store!Approvals(t) \in Tables  BY DEF Store!Approvals, Tables
<1> QED BY <1>3, <1>4

(* The newest of some approvals is one of them.                                *)
LEMMA NewestIs ==
  ASSUME NEW waiting \in SUBSET (Tasks \X Store!Ids)
  PROVE  Store!Newest(waiting) \in Named
<1>1. CASE waiting = {} BY <1>1 DEF Store!Newest, Named
<1>2. CASE waiting # {}
  <2>1. PICK x \in waiting : TRUE BY <1>2
  <2>2. PICK k \in Nat : Store!Ids = 1..k
    <3>1. Tasks # {} BY <2>1
    <3> QED BY <3>1, IdsUpTo
  <2> DEFINE T == {y[2] : y \in waiting}
  <2>3. T \in SUBSET Nat /\ T # {} /\ \A n \in T : n <= k BY <2>1, <2>2
  <2> HIDE DEF T
  <2>4. PICK n \in T : \A m \in T : n >= m BY <2>2, <2>3, GreatestOf
  <2> USE DEF T
  <2>5. PICK y \in waiting : \A z \in waiting : y[2] >= z[2] BY <2>4
  <2>6. Store!Newest(waiting) \in waiting BY <1>2, <2>5 DEF Store!Newest
  <2> QED BY <2>6 DEF Named
<1> QED BY <1>1, <1>2

(* The steps that leave the log, and what is on its way, alone.                 *)
LEMMA ShownOnly ==
  ASSUME StoreBounded, UNCHANGED <<uLog, uFeeds, uEvents, uBuffer>>, ShownOK', WorkOK'
  PROVE  StoreBounded'
BY DEF StoreBounded, LogOK, QueueOK

(* The reducers, and the stream that a worker starts.                           *)
LEMMA Reduced ==
  ASSUME ShownOK, NEW t \in Tasks
  PROVE  /\ \A task : task.status \in Statuses /\ Store!ReduceTask(t, task) =>
              /\ DOMAIN uSnapshot' = Tasks /\ \A u \in Tasks : uSnapshot'[u].status \in Statuses
              /\ uSelected' \in Tasks \cup {Store!None}
         /\ \A entries \in Tables : Store!ReduceApprovals(t, entries) =>
              uApprovals' \in [Tasks -> Tables] /\ uChosen' \in Named
         /\ Store!StartStream(t) /\ uListener.at \in {"idle", "ask", "listen"} =>
              uStreamKey' \in Tasks \cup {Store!None} /\ uListener'.at \in {"idle", "ask", "listen"}
<1>1. ASSUME NEW task, task.status \in Statuses, Store!ReduceTask(t, task)
      PROVE  /\ DOMAIN uSnapshot' = Tasks /\ \A u \in Tasks : uSnapshot'[u].status \in Statuses
             /\ uSelected' \in Tasks \cup {Store!None}
  <2> DEFINE new == Store!Merged(uSnapshot[t], task)
  <2>1. new.status \in Statuses BY <1>1 DEF Store!Merged
  <2>2. uSnapshot' = [uSnapshot EXCEPT ![t] = new] BY <1>1 DEF Store!ReduceTask
  <2> HIDE DEF new
  <2> QED BY <1>1, <2>1, <2>2 DEF Store!ReduceTask, ShownOK
<1>2. ASSUME NEW entries \in Tables, Store!ReduceApprovals(t, entries)
      PROVE  uApprovals' \in [Tasks -> Tables] /\ uChosen' \in Named
  <2>1. uApprovals' \in [Tasks -> Tables] /\ uChosen' = Store!Resolved(uApprovals', uChosen)
    BY <1>2 DEF Store!ReduceApprovals, ShownOK
  <2>2. Store!Open(uApprovals') \in SUBSET (Tasks \X Store!Ids) BY DEF Store!Open
  <2>3. Store!Newest(Store!Open(uApprovals')) \in Named BY <2>2, NewestIs
  <2> QED BY <2>1, <2>3 DEF Store!Resolved, ShownOK
<1>3. ASSUME Store!StartStream(t), uListener.at \in {"idle", "ask", "listen"}
      PROVE  uStreamKey' \in Tasks \cup {Store!None} /\ uListener'.at \in {"idle", "ask", "listen"}
  <2>1. [Store!Idle EXCEPT !.at = "ask", !.task = t].at = "ask" BY DEF Store!Idle
  <2> QED BY <1>3, <2>1 DEF Store!StartStream, ShownOK
<1> QED BY <1>1, <1>2, <1>3

(* A log that gets longer, by an event that has the approval it should have.         *)
LEMMA LogGrows ==
  ASSUME StoreInv, StoreBounded, NEW t \in Tasks, Len(uLog[t]) < MaxLogged[t],
         NEW type \in {"started", "asked", "resumed", "completed"},
         NEW approval, \/ approval = 0 /\ type # "asked"
                       \/ approval = Len(uLog[t]) + 1,
         Store!Emit(t, type, approval), UNCHANGED <<uFeeds, uEvents, uBuffer>>, ShownOK', WorkOK'
  PROVE  StoreBounded'
<1> DEFINE e == [type |-> type, approval |-> approval]
<1>0. PICK k \in Nat : Store!Ids = 1..k /\ \A u \in Tasks : MaxLogged[u] \in 0..k BY IdsUpTo
<1>1. uLog \in [Tasks -> Seq(Told)] /\ Len(uLog[t]) \in Nat BY DEF StoreInv
<1>2. approval \in {0} \cup Store!Ids /\ (type = "asked" => approval \in Store!Ids)
  BY <1>0, <1>1
<1>3. e \in Told /\ e.type = type /\ e.approval = approval BY <1>0, <1>2 DEF Told
<1>4. uLog' = [uLog EXCEPT ![t] = Append(uLog[t], e)] BY DEF Store!Emit
<1> HIDE DEF e
<1>5. /\ Len(Append(uLog[t], e)) = Len(uLog[t]) + 1
      /\ \A i \in 1..Len(uLog[t]) : Append(uLog[t], e)[i] = uLog[t][i]
      /\ Append(uLog[t], e)[Len(uLog[t]) + 1] = e
  BY <1>1, <1>3
<1>6. /\ Len(uLog'[t]) = Len(uLog[t]) + 1 /\ uLog'[t][Len(uLog[t]) + 1] = e
      /\ \A i \in 1..Len(uLog[t]) : uLog'[t][i] = uLog[t][i]
      /\ \A u \in Tasks \ {t} : uLog'[u] = uLog[u]
  BY <1>1, <1>4, <1>5
<1>7. LogOK'
  <2>1. ASSUME NEW i \in 1..Len(uLog'[t])
        PROVE  /\ uLog'[t][i].approval \in {0} \cup Store!Ids
               /\ uLog'[t][i].type = "asked" => uLog'[t][i].approval \in Store!Ids
    <3>1. CASE i = Len(uLog[t]) + 1 BY <1>2, <1>3, <1>6, <3>1
    <3>2. CASE i # Len(uLog[t]) + 1
      <4>1. i \in 1..Len(uLog[t]) BY <1>1, <1>6, <3>2
      <4> QED BY <1>6, <4>1 DEF StoreBounded, LogOK
    <3> QED BY <3>1, <3>2
  <2>2. Len(uLog'[t]) <= MaxLogged[t] BY <1>0, <1>1, <1>6
  <2>3. \A u \in Tasks \ {t} :
          /\ Len(uLog'[u]) <= MaxLogged[u]
          /\ \A i \in 1..Len(uLog'[u]) :
               /\ uLog'[u][i].approval \in {0} \cup Store!Ids
               /\ uLog'[u][i].type = "asked" => uLog'[u][i].approval \in Store!Ids
    BY <1>6 DEF StoreBounded, LogOK
  <2> QED BY <2>1, <2>2, <2>3 DEF LogOK
<1>8. QueueOK'
  <2>1. \A u \in Tasks : Len(uLog[u]) \in Nat /\ Len(uLog'[u]) \in Nat /\ Len(uLog[u]) <= Len(uLog'[u])
    BY <1>1, <1>6
  <2>2. \A u \in Tasks : 1..Len(uLog[u]) \subseteq 1..Len(uLog'[u])
          /\ 1..Len(uLog[u]) + 1 \subseteq 1..Len(uLog'[u]) + 1
    BY <2>1
  <2>3. /\ \A f \in 1..Len(uFeeds) : uFeeds[f].task \in Tasks
        /\ \A i \in 1..Len(uEvents) : uEvents[i].task \in Tasks
    <3>1. uFeeds \in Seq([task : Tasks, next : Nat]) /\ uEvents \in Seq([task : Tasks, number : Nat])
      BY DEF StoreInv, FeedsOK
    <3>2. \A f \in 1..Len(uFeeds) : uFeeds[f] \in [task : Tasks, next : Nat] BY <3>1, ElementOfSeq
    <3>3. \A i \in 1..Len(uEvents) : uEvents[i] \in [task : Tasks, number : Nat] BY <3>1, ElementOfSeq
    <3> QED BY <3>2, <3>3
  <2> QED BY <2>2, <2>3 DEF StoreBounded, QueueOK
<1> QED BY <1>7, <1>8 DEF StoreBounded

(* The runtime adds an event.                                                 *)
LEMMA BoundedRuntime ==
  ASSUME StoreInv, StoreBounded, NEW t \in Tasks, Store!RuntimeStep(t) PROVE StoreBounded'
<1>1. /\ UNCHANGED <<uFeeds, uEvents, uBuffer>> /\ Len(uLog[t]) < MaxLogged[t]
      /\ UNCHANGED <<uSnapshot, uApprovals, uSelected, uStreamKey, uChosen, uDialog, uListener, uSync, uDecide>>
  BY DEF Store!RuntimeStep, Store!store, Store!workers
<1>2. ShownOK' /\ WorkOK' BY <1>1 DEF StoreBounded, ShownOK, WorkOK
<1>3. \/ Store!Emit(t, "asked", Len(uLog[t]) + 1)
      \/ \E type \in {"started", "resumed", "completed"} : Store!Emit(t, type, 0)
  BY DEF Store!RuntimeStep
<1> QED BY <1>1, <1>2, <1>3, LogGrows

(* A stream delivers an event that is in the log.                              *)
LEMMA BoundedFeed ==
  ASSUME StoreInv, StoreBounded, NEW f \in DOMAIN uFeeds, Store!Feed(f) PROVE StoreBounded'
<1> DEFINE t == uFeeds[f].task
           n == uFeeds[f].next
           e == [task |-> t, number |-> n]
<1>1. uFeeds \in Seq([task : Tasks, next : Nat]) /\ uEvents \in Seq([task : Tasks, number : Nat])
  BY DEF StoreInv, FeedsOK
<1>2. f \in 1..Len(uFeeds) /\ uFeeds[f] \in [task : Tasks, next : Nat]
  <2>1. f \in 1..Len(uFeeds) BY <1>1
  <2> QED BY <1>1, <2>1, ElementOfSeq
<1>3. t \in Tasks /\ n \in Nat /\ Len(uLog[t]) \in Nat BY <1>2 DEF StoreInv
<1>4. n \in 1..Len(uLog[t]) BY <1>2, <1>3 DEF Store!Feed, StoreBounded, QueueOK
<1>5. /\ uEvents' = Append(uEvents, e) /\ uFeeds' = [uFeeds EXCEPT ![f] = [uFeeds[f] EXCEPT !.next = n + 1]]
      /\ UNCHANGED <<uLog, uBuffer, uSnapshot, uApprovals, uSelected, uStreamKey, uChosen, uDialog,
                     uListener, uSync, uDecide>>
  BY DEF Store!Feed, Store!store, Store!workers
<1>6. e \in [task : Tasks, number : Nat] /\ e.task = t /\ e.number = n BY <1>3
<1> DEFINE g == [uFeeds[f] EXCEPT !.next = n + 1]
<1>7. g.task = t /\ g.next = n + 1 BY <1>2
<1> HIDE DEF e, g
<1>8. /\ Len(uFeeds') = Len(uFeeds) /\ uFeeds'[f] = g
      /\ \A i \in 1..Len(uFeeds) : i # f => uFeeds'[i] = uFeeds[i]
  BY <1>1, <1>2, <1>5 DEF g
<1>9. /\ Len(uEvents') = Len(uEvents) + 1 /\ uEvents'[Len(uEvents) + 1] = e
      /\ \A i \in 1..Len(uEvents) : uEvents'[i] = uEvents[i]
  BY <1>1, <1>5, <1>6
<1>10. \A i \in 1..Len(uFeeds') : uFeeds'[i].next \in 1..Len(uLog[uFeeds'[i].task]) + 1
  <2> SUFFICES ASSUME NEW i \in 1..Len(uFeeds') PROVE uFeeds'[i].next \in 1..Len(uLog[uFeeds'[i].task]) + 1
    OBVIOUS
  <2>1. CASE i = f BY <1>3, <1>4, <1>7, <1>8, <2>1
  <2>2. CASE i # f BY <1>8, <2>2 DEF StoreBounded, QueueOK
  <2> QED BY <2>1, <2>2
<1>11. \A i \in 1..Len(uEvents') : uEvents'[i].number \in 1..Len(uLog[uEvents'[i].task])
  <2> SUFFICES ASSUME NEW i \in 1..Len(uEvents') PROVE uEvents'[i].number \in 1..Len(uLog[uEvents'[i].task])
    OBVIOUS
  <2>0. Len(uEvents) \in Nat BY <1>1
  <2>1. CASE i = Len(uEvents) + 1 BY <1>4, <1>6, <1>9, <2>1
  <2>2. CASE i # Len(uEvents) + 1
    <3>1. i \in 1..Len(uEvents) BY <1>9, <2>0, <2>2
    <3> QED BY <1>9, <3>1 DEF StoreBounded, QueueOK
  <2> QED BY <2>1, <2>2
<1>12. QueueOK' BY <1>5, <1>10, <1>11 DEF StoreBounded, QueueOK
<1>13. LogOK' /\ ShownOK' /\ WorkOK' BY <1>5 DEF StoreBounded, LogOK, ShownOK, WorkOK
<1> QED BY <1>12, <1>13 DEF StoreBounded

(* A new stream begins with the first event.                                   *)
LEMMA BoundedAskStream == ASSUME StoreInv, StoreBounded, Store!AskStream PROVE StoreBounded'
<1> DEFINE g == [task |-> uListener.task, next |-> 1]
<1>1. /\ uFeeds' = Append(uFeeds, g) /\ uListener' = [uListener EXCEPT !.at = "listen"]
      /\ uListener.at = "ask"
      /\ UNCHANGED <<uLog, uEvents, uBuffer, uSnapshot, uApprovals, uSelected, uStreamKey, uChosen,
                     uDialog, uSync, uDecide>>
  BY DEF Store!AskStream, Store!store
<1>2. uFeeds \in Seq([task : Tasks, next : Nat]) /\ uListener.task \in Tasks
  BY <1>1 DEF StoreInv, FeedsOK
<1>3. g \in [task : Tasks, next : Nat] /\ g.task = uListener.task /\ g.next = 1 BY <1>2
<1> HIDE DEF g
<1>4. /\ Len(uFeeds') = Len(uFeeds) + 1 /\ uFeeds'[Len(uFeeds) + 1] = g /\ Len(uFeeds) \in Nat
      /\ \A i \in 1..Len(uFeeds) : uFeeds'[i] = uFeeds[i]
  BY <1>1, <1>2, <1>3
<1>5. \A i \in 1..Len(uFeeds') : uFeeds'[i].next \in 1..Len(uLog[uFeeds'[i].task]) + 1
  <2> SUFFICES ASSUME NEW i \in 1..Len(uFeeds') PROVE uFeeds'[i].next \in 1..Len(uLog[uFeeds'[i].task]) + 1
    OBVIOUS
  <2>0. Len(uLog[uListener.task]) \in Nat BY <1>2 DEF StoreInv
  <2>1. CASE i = Len(uFeeds) + 1 BY <1>3, <1>4, <2>0, <2>1
  <2>2. CASE i # Len(uFeeds) + 1
    <3>1. i \in 1..Len(uFeeds) BY <1>4, <2>2
    <3> QED BY <1>4, <3>1 DEF StoreBounded, QueueOK
  <2> QED BY <2>1, <2>2
<1>6. QueueOK' BY <1>1, <1>5 DEF StoreBounded, QueueOK
<1>7. uListener'.at \in {"idle", "ask", "listen"}
  <2>1. CASE "at" \in DOMAIN uListener BY <1>1, <2>1
  <2>2. CASE "at" \notin DOMAIN uListener BY <1>1, <2>2
  <2> QED BY <2>1, <2>2
<1>8. LogOK' /\ ShownOK' /\ WorkOK' BY <1>1, <1>7 DEF StoreBounded, LogOK, ShownOK, WorkOK
<1> QED BY <1>6, <1>8 DEF StoreBounded

(* What the buffer has after an event is recorded: what it had, and the event.     *)
LEMMA RecordedIn ==
  ASSUME NEW b \in Seq(Nat), NEW n \in Nat, NEW T, n \in T, \A i \in 1..Len(b) : b[i] \in T
  PROVE  LET c == Store!Recorded(b, n) IN \A i \in 1..Len(c) : c[i] \in T
<1> DEFINE c == Store!Recorded(b, n)
<1>1. CASE c = b BY <1>1
<1>2. CASE c = Append(b, n)
  <2>1. Len(c) = Len(b) + 1 /\ c[Len(b) + 1] = n /\ \A i \in 1..Len(b) : c[i] = b[i] BY <1>2
  <2> HIDE DEF c
  <2>2. \A i \in 1..Len(c) : c[i] \in T BY <2>1
  <2> QED BY <2>2 DEF c
<1>3. CASE c = Append(Tail(b), n) /\ b # <<>>
  <2> DEFINE d == Tail(b)
  <2>1. d \in Seq(Nat) /\ Len(d) = Len(b) - 1 /\ \A i \in 1..Len(d) : d[i] = b[i + 1] BY <1>3
  <2>2. c = Append(d, n) BY <1>3
  <2> HIDE DEF c, d
  <2>3. Len(c) = Len(d) + 1 /\ c[Len(d) + 1] = n /\ \A i \in 1..Len(d) : c[i] = d[i] BY <2>1, <2>2
  <2>4. ASSUME NEW i \in 1..Len(c) PROVE c[i] \in T
    <3>1. CASE i = Len(d) + 1 BY <2>3, <3>1
    <3>2. CASE i # Len(d) + 1
      <4>1. i \in 1..Len(d) /\ i + 1 \in 1..Len(b) BY <2>1, <2>3, <3>2
      <4> QED BY <2>1, <2>3, <4>1
    <3> QED BY <3>1, <3>2
  <2> QED BY <2>4 DEF c
<1>4. b = <<>> => c \in {b, Append(b, n)} BY BufferAssumption DEF Store!Recorded
<1>5. c \in {b, Append(b, n), Append(Tail(b), n)} BY DEF Store!Recorded
<1> QED BY <1>1, <1>2, <1>3, <1>4, <1>5

(* An event that is taken from the queue is shown.                              *)
LEMMA BoundedConsume == ASSUME StoreInv, StoreBounded, Store!Consume PROVE StoreBounded'
<1> DEFINE t == Head(uEvents).task
           n == Head(uEvents).number
           e == uLog[t][n]
<1>1. uEvents \in Seq([task : Tasks, number : Nat]) /\ uEvents # <<>> /\ uEvents' = Tail(uEvents)
  BY DEF StoreInv, FeedsOK, Store!Consume
<1>2. Head(uEvents) = uEvents[1] /\ Head(uEvents) \in [task : Tasks, number : Nat] /\ 1 \in 1..Len(uEvents)
  <2>1. Head(uEvents) = uEvents[1] /\ 1 \in 1..Len(uEvents) BY <1>1
  <2>2. Head(uEvents) \in [task : Tasks, number : Nat] BY <1>1, HeadTailProperties
  <2> QED BY <2>1, <2>2
<1>3. t \in Tasks /\ n \in 1..Len(uLog[t]) BY <1>2 DEF StoreBounded, QueueOK
<1>4. uLog[t] \in Seq(Told) /\ e \in Told /\ e.approval \in {0} \cup Store!Ids
      /\ (e.type = "asked" => e.approval \in Store!Ids)
  <2>1. uLog[t] \in Seq(Told) BY <1>3 DEF StoreInv
  <2> QED BY <1>3, <2>1, ElementOfSeq DEF StoreBounded, LogOK
<1>5. \A i \in 1..Len(uEvents') : uEvents'[i] = uEvents[i + 1] /\ i + 1 \in 1..Len(uEvents)
  <2>1. Len(uEvents') = Len(uEvents) - 1 /\ \A i \in 1..Len(uEvents') : uEvents'[i] = uEvents[i + 1]
    BY <1>1, HeadTailProperties
  <2>2. Len(uEvents) \in Nat BY <1>1
  <2> QED BY <2>1, <2>2
<1>6. UNCHANGED <<uLog, uFeeds, uDialog, uSync, uDecide>> BY DEF Store!Consume, Store!runtime
<1>7. WorkOK'
  <2>1. uListener' \in {uListener, Store!Idle} BY DEF Store!Consume
  <2> QED BY <1>6, <2>1 DEF StoreBounded, WorkOK, Store!Idle
<1>8. uStreamKey' \in Tasks \cup {Store!None} BY DEF Store!Consume, StoreBounded, ShownOK
<1>9. CASE UNCHANGED <<uSnapshot, uApprovals, uBuffer, uUnread, uSelected, uChosen>>
  <2>1. ShownOK' BY <1>6, <1>8, <1>9 DEF StoreBounded, ShownOK
  <2>2. QueueOK' BY <1>5, <1>6, <1>9 DEF StoreBounded, QueueOK
  <2>3. LogOK' BY <1>6 DEF StoreBounded, LogOK
  <2> QED BY <1>7, <2>1, <2>2, <2>3 DEF StoreBounded
<1>10. CASE Store!ReduceEvent(t, n)
  <2>1. PICK waiting :
          uSnapshot' = [uSnapshot EXCEPT ![t] = [status |-> Store!StatusOf(e.type), pending |-> waiting]]
    BY <1>10 DEF Store!ReduceEvent
  <2>2. Store!StatusOf(e.type) \in Statuses BY <1>4, StatusType DEF Told
  <2>3. DOMAIN uSnapshot' = Tasks /\ \A u \in Tasks : uSnapshot'[u].status \in Statuses
    BY <2>1, <2>2 DEF StoreBounded, ShownOK
  <2>4. uSelected' \in Tasks \cup {Store!None}
    BY <1>3, <1>10 DEF Store!ReduceEvent, StoreBounded, ShownOK
  <2>5. uApprovals' \in [Tasks -> Tables] /\ uChosen' \in Named
    <3>1. uApprovals \in [Tasks -> Tables] /\ uChosen \in Named BY DEF StoreBounded, ShownOK
    <3>2. CASE e.type = "asked"
      <4>1. <<t, e.approval>> \in Named BY <1>3, <1>4, <3>2 DEF Named
      <4>2. [uApprovals[t] EXCEPT ![e.approval] = "pending"] \in Tables
        BY <1>3, <1>4, <3>1, <3>2 DEF Tables
      <4>3. uApprovals' = [uApprovals EXCEPT ![t] = [uApprovals[t] EXCEPT ![e.approval] = "pending"]]
            /\ uChosen' \in {uChosen, <<t, e.approval>>}
        BY <1>10, <3>2 DEF Store!ReduceEvent
      <4> QED BY <1>3, <3>1, <4>1, <4>2, <4>3
    <3>3. CASE e.type # "asked" BY <1>10, <3>1, <3>3 DEF Store!ReduceEvent
    <3> QED BY <3>2, <3>3
  <2>6. ShownOK' BY <1>6, <1>8, <2>3, <2>4, <2>5 DEF StoreBounded, ShownOK
  <2>7. \A u \in Tasks : \A i \in 1..Len(uBuffer'[u]) : uBuffer'[u][i] \in 1..Len(uLog[u])
    <3>1. uBuffer' = [uBuffer EXCEPT ![t] = Store!Recorded(uBuffer[t], n)]
      BY <1>10 DEF Store!ReduceEvent
    <3>2. DOMAIN uBuffer = Tasks /\ uBuffer[t] \in Seq(Nat) BY <1>3 DEF StoreInv, BufferOK
    <3>3. \A i \in 1..Len(uBuffer[t]) : uBuffer[t][i] \in 1..Len(uLog[t])
      BY <1>3 DEF StoreBounded, QueueOK
    <3> DEFINE c == Store!Recorded(uBuffer[t], n)
    <3>4. \A i \in 1..Len(c) : c[i] \in 1..Len(uLog[t])
      <4> DEFINE T == 1..Len(uLog[t])
      <4>1. n \in Nat /\ n \in T BY <1>2, <1>3
      <4> HIDE DEF T, t, n
      <4> QED BY <3>2, <3>3, <4>1, RecordedIn DEF T
    <3>5. uBuffer'[t] = c /\ \A u \in Tasks \ {t} : uBuffer'[u] = uBuffer[u] BY <1>3, <3>1, <3>2
    <3> HIDE DEF c, t
    <3> QED BY <3>4, <3>5 DEF StoreBounded, QueueOK
  <2>8. QueueOK' BY <1>5, <1>6, <2>7 DEF StoreBounded, QueueOK
  <2>9. LogOK' BY <1>6 DEF StoreBounded, LogOK
  <2> QED BY <1>7, <2>6, <2>8, <2>9 DEF StoreBounded
<1> QED BY <1>9, <1>10 DEF Store!Consume

(* A task is selected, and with it its newest approval; its sync begins.            *)
LEMMA BoundedSelect ==
  ASSUME StoreBounded, NEW t \in Tasks, Store!Select(t) PROVE StoreBounded'
<1>1. /\ UNCHANGED <<uLog, uFeeds, uEvents, uBuffer, uSnapshot, uApprovals, uDialog, uStreamKey,
                     uListener, uDecide>>
      /\ uSelected' = t
      /\ uChosen' = Store!Newest({x \in Store!Open(uApprovals) : x[1] = t})
      /\ uSync' = [Store!Idle EXCEPT !.at = "get", !.task = t]
  BY DEF Store!Select, Store!runtime
<1>2. uChosen' \in Named
  <2>1. {x \in Store!Open(uApprovals) : x[1] = t} \in SUBSET (Tasks \X Store!Ids) BY DEF Store!Open
  <2> QED BY <1>1, <2>1, NewestIs
<1>3. uSync'.at = "get" BY <1>1 DEF Store!Idle
<1>4. ShownOK' /\ WorkOK' BY <1>1, <1>2, <1>3 DEF StoreBounded, ShownOK, WorkOK
<1> QED BY <1>1, <1>4, ShownOnly

(* The sync: what it is answered is what it asked for.                            *)
LEMMA BoundedSync ==
  ASSUME StoreInv, StoreBounded, Store!AnswerSync \/ Store!Sync PROVE StoreBounded'
<1>1. UNCHANGED <<uLog, uFeeds, uEvents, uBuffer, uDialog, uDecide>>
  BY DEF Store!AnswerSync, Store!Sync, Store!runtime, Store!store
<1>2. Record(uSync) /\ uSync.at # "idle" /\ uSync.task \in Tasks
  BY DEF StoreInv, FeedsOK, Store!AnswerSync, Store!Sync
<1> DEFINE t == uSync.task
<1>3. CASE Store!AnswerSync
  <2>1. UNCHANGED <<uSnapshot, uApprovals, uSelected, uStreamKey, uChosen, uListener>>
    BY <1>3 DEF Store!AnswerSync, Store!store
  <2>2. \/ uSync'.at = "got" /\ uSync'.reply = Store!Snapshot(t)
        \/ uSync'.at = "listed" /\ uSync'.reply = Store!Approvals(t)
    <3>1. CASE uSync' = [uSync EXCEPT !.at = "got", !.reply = Store!Snapshot(t)]
      BY <1>2, <3>1, RecordSet
    <3>2. CASE uSync' = [uSync EXCEPT !.at = "listed", !.reply = Store!Approvals(t)]
      BY <1>2, <3>2, RecordSet
    <3> QED BY <1>3, <3>1, <3>2 DEF Store!AnswerSync
  <2>3. ShownOK' BY <1>1, <2>1 DEF StoreBounded, ShownOK
  <2>4. Store!Snapshot(t).status \in Statuses /\ Store!Approvals(t) \in Tables  BY <1>2, RepliesAre
  <2>5. WorkOK' BY <1>1, <2>1, <2>2, <2>4 DEF StoreBounded, WorkOK
  <2> QED BY <1>1, <2>3, <2>5, ShownOnly
<1>4. CASE Store!Sync
  <2>0. ShownOK BY DEF StoreBounded
  <2>1. CASE /\ uSync.at = "got" /\ Store!ReduceTask(t, uSync.reply)
             /\ uSync' = [uSync EXCEPT !.at = "list", !.reply = <<>>]
             /\ UNCHANGED <<uApprovals, uChosen, uStreamKey, uListener>>
    <3>1. uSync.reply.status \in Statuses BY <2>1 DEF StoreBounded, WorkOK
    <3>2. /\ DOMAIN uSnapshot' = Tasks /\ \A u \in Tasks : uSnapshot'[u].status \in Statuses
          /\ uSelected' \in Tasks \cup {Store!None}
      BY <1>2, <2>0, <2>1, <3>1, Reduced
    <3>3. uSync'.at = "list" BY <1>2, <2>1, RecordSet
    <3>4. ShownOK' /\ WorkOK' BY <1>1, <2>1, <3>2, <3>3 DEF StoreBounded, ShownOK, WorkOK
    <3> QED BY <1>1, <3>4, ShownOnly
  <2>2. CASE /\ uSync.at = "listed" /\ Store!ReduceApprovals(t, uSync.reply) /\ Store!StartStream(t)
             /\ uSync' = Store!Idle /\ UNCHANGED <<uSnapshot, uSelected>>
    <3>1. uSync.reply \in Tables /\ uListener.at \in {"idle", "ask", "listen"}
      BY <2>2 DEF StoreBounded, WorkOK
    <3>2. uApprovals' \in [Tasks -> Tables] /\ uChosen' \in Named
      BY <1>2, <2>0, <2>2, <3>1, Reduced
    <3>3. uStreamKey' \in Tasks \cup {Store!None} /\ uListener'.at \in {"idle", "ask", "listen"}
      BY <1>2, <2>0, <2>2, <3>1, Reduced
    <3>4. ShownOK' BY <1>1, <2>2, <3>2, <3>3 DEF StoreBounded, ShownOK
    <3>5. WorkOK' BY <1>1, <2>2, <3>3 DEF StoreBounded, WorkOK, Store!Idle
    <3> QED BY <1>1, <3>4, <3>5, ShownOnly
  <2> QED BY <1>4, <2>1, <2>2 DEF Store!Sync
<1> QED BY <1>3, <1>4

(* The dialogs: what is confirmed is an approval of a run.                        *)
LEMMA BoundedDialog ==
  ASSUME StoreBounded, Store!OpenDialog \/ \E confirmed \in BOOLEAN : Store!CloseDialog(confirmed)
  PROVE  StoreBounded'
<1>1. /\ UNCHANGED <<uLog, uFeeds, uEvents, uBuffer, uSnapshot, uApprovals, uSelected, uChosen, uStreamKey,
                     uListener, uSync>>
      /\ uDialog' \in {uChosen, Store!NoApproval}
  BY DEF Store!OpenDialog, Store!CloseDialog, Store!runtime, Store!store, Store!workers
<1>2. uDecide' = uDecide \/ uDecide'.at = "get"
  BY DEF Store!OpenDialog, Store!CloseDialog, Store!workers
<1>3. ShownOK' BY <1>1 DEF StoreBounded, ShownOK, Named
<1>4. WorkOK' BY <1>1, <1>2 DEF StoreBounded, WorkOK
<1> QED BY <1>1, <1>3, <1>4, ShownOnly

(* The runtime answers the worker that decides, and resumes the run.               *)
LEMMA BoundedAnswerDecide ==
  ASSUME StoreInv, StoreBounded, Store!AnswerDecide PROVE StoreBounded'
<1> DEFINE t == uDecide.task
<1>1. UNCHANGED <<uFeeds, uEvents, uBuffer, uSnapshot, uApprovals, uSelected, uStreamKey, uChosen, uDialog,
                  uListener, uSync>>
  BY DEF Store!AnswerDecide, Store!store
<1>2. Record(uDecide) /\ t \in Tasks BY DEF StoreInv, DecideOK, Store!AnswerDecide
<1>3. ShownOK' BY <1>1 DEF StoreBounded, ShownOK
<1>4. Store!Snapshot(t).status \in Statuses /\ Store!Approvals(t) \in Tables  BY <1>2, RepliesAre
<1>5. ASSUME UNCHANGED uLog,
             \/ uDecide'.at = "reread"
             \/ uDecide'.at \in {"got", "answered"} /\ uDecide'.reply = Store!Snapshot(t)
             \/ uDecide'.at = "listed" /\ uDecide'.reply = Store!Approvals(t)
      PROVE  StoreBounded'
  <2>1. WorkOK' BY <1>1, <1>4, <1>5 DEF StoreBounded, WorkOK
  <2> QED BY <1>1, <1>3, <1>5, <2>1, ShownOnly
<1>6. CASE /\ Len(uLog[t]) < MaxLogged[t] /\ Store!Emit(t, "resumed", 0)
           /\ uDecide' = [uDecide EXCEPT !.at = "answered",
                                         !.reply = [status |-> "executing", pending |-> 0]]
  <2>1. PICK r : r = [status |-> "executing", pending |-> 0] OBVIOUS
  <2>2. uDecide'.at = "answered" /\ uDecide'.reply.status \in Statuses
    <3>1. uDecide' = [uDecide EXCEPT !.at = "answered", !.reply = r] BY <1>6, <2>1
    <3>2. uDecide'.at = "answered" /\ uDecide'.reply = r BY <1>2, <3>1, RecordSet
    <3> QED BY <2>1, <3>2 DEF Statuses
  <2>3. WorkOK' BY <1>1, <2>2 DEF StoreBounded, WorkOK
  <2> QED BY <1>1, <1>2, <1>3, <1>6, <2>3, LogGrows
<1>7. CASE uDecide' = [uDecide EXCEPT !.at = "reread", !.approval = 0] /\ UNCHANGED uLog
  <2>1. uDecide'.at = "reread" BY <1>2, <1>7, RecordSet
  <2> QED BY <1>5, <1>7, <2>1
<1>8. ASSUME NEW step \in {"got", "answered"}, UNCHANGED uLog,
             uDecide' = [uDecide EXCEPT !.at = step, !.reply = Store!Snapshot(t)]
      PROVE  StoreBounded'
  <2>1. uDecide'.at = step /\ uDecide'.reply = Store!Snapshot(t) BY <1>2, <1>8, RecordSet
  <2> QED BY <1>5, <1>8, <2>1
<1>9. CASE uDecide' = [uDecide EXCEPT !.at = "listed", !.reply = Store!Approvals(t)] /\ UNCHANGED uLog
  <2>1. uDecide'.at = "listed" /\ uDecide'.reply = Store!Approvals(t) BY <1>2, <1>9, RecordSet
  <2> QED BY <1>5, <1>9, <2>1
<1> QED BY <1>6, <1>7, <1>8, <1>9 DEF Store!AnswerDecide

(* The worker that decides reduces its answers.                                 *)
LEMMA BoundedDecide == ASSUME StoreInv, StoreBounded, Store!Decide PROVE StoreBounded'
<1> DEFINE t == uDecide.task
<1>1. UNCHANGED <<uLog, uFeeds, uEvents, uBuffer, uDialog, uSync>> BY DEF Store!Decide, Store!runtime
<1>2. Record(uDecide) /\ t \in Tasks BY DEF StoreInv, DecideOK, Store!Decide
<1>3. ShownOK /\ WorkOK BY DEF StoreBounded
<1>4. ASSUME uDecide.at \in {"got", "answered"}, Store!ReduceTask(t, uDecide.reply),
             uDecide'.at \in {"list", "approve"}, UNCHANGED <<uApprovals, uChosen, uStreamKey, uListener>>
      PROVE  StoreBounded'
  <2>1. uDecide.reply.status \in Statuses BY <1>3, <1>4 DEF WorkOK
  <2>2. /\ DOMAIN uSnapshot' = Tasks /\ \A u \in Tasks : uSnapshot'[u].status \in Statuses
        /\ uSelected' \in Tasks \cup {Store!None}
    BY <1>2, <1>3, <1>4, <2>1, Reduced
  <2>3. ShownOK' /\ WorkOK' BY <1>1, <1>3, <1>4, <2>2 DEF ShownOK, WorkOK
  <2> QED BY <1>1, <2>3, ShownOnly
<1>5. CASE /\ uDecide.at = "listed" /\ Store!ReduceApprovals(t, uDecide.reply)
           /\ IF uDecide.approval # 0 THEN Store!StartStream(t) ELSE UNCHANGED <<uStreamKey, uListener>>
           /\ uDecide' = Store!Idle /\ UNCHANGED <<uSnapshot, uSelected>>
  <2>1. uDecide.reply \in Tables  BY <1>3, <1>5 DEF WorkOK
  <2>2. uApprovals' \in [Tasks -> Tables] /\ uChosen' \in Named
    BY <1>2, <1>3, <1>5, <2>1, Reduced
  <2>3. uStreamKey' \in Tasks \cup {Store!None} /\ uListener'.at \in {"idle", "ask", "listen"}
    BY <1>2, <1>3, <1>5, Reduced DEF ShownOK, WorkOK
  <2>4. ShownOK' BY <1>1, <1>3, <1>5, <2>2, <2>3 DEF ShownOK
  <2>5. WorkOK' BY <1>1, <1>3, <1>5, <2>3 DEF WorkOK, Store!Idle
  <2> QED BY <1>1, <2>4, <2>5, ShownOnly
<1>6. CASE uDecide.at = "got"
  <2>1. uDecide'.at \in {"list", "approve"}
    <3>1. CASE uDecide' = [uDecide EXCEPT !.reply = <<>>, !.at = "list", !.approval = 0]
      BY <1>2, <3>1, RecordSet
    <3>2. CASE uDecide' = [uDecide EXCEPT !.reply = <<>>, !.at = "approve"] BY <1>2, <3>2, RecordSet
    <3> QED BY <1>6, <3>1, <3>2 DEF Store!Decide
  <2> QED BY <1>4, <1>6, <2>1 DEF Store!Decide
<1>7. CASE uDecide.at = "answered"
  <2>1. uDecide' = [uDecide EXCEPT !.at = "list", !.reply = <<>>] BY <1>7 DEF Store!Decide
  <2>2. uDecide'.at = "list" BY <1>2, <2>1, RecordSet
  <2> QED BY <1>4, <1>7, <2>2 DEF Store!Decide
<1> QED BY <1>5, <1>6, <1>7 DEF Store!Decide

(* So it is with every step.                                                  *)
LEMMA StoreBoundedNext == StoreInv /\ StoreBounded /\ [Store!Next]_storeVars => StoreBounded'
<1> SUFFICES ASSUME StoreInv, StoreBounded, [Store!Next]_storeVars PROVE StoreBounded'
  OBVIOUS
<1>1. CASE UNCHANGED storeVars
  BY <1>1 DEF storeVars, StoreBounded, LogOK, QueueOK, ShownOK, WorkOK
<1>2. CASE ~UNCHANGED storeVars
  <2>1. Store!Next BY <1>2
  <2> QED BY <2>1, BoundedRuntime, BoundedFeed, BoundedAskStream, BoundedConsume, BoundedSelect, BoundedSync,
         BoundedDialog, BoundedAnswerDecide, BoundedDecide DEF Store!Next
<1> QED BY <1>1, <1>2

-----------------------------------------------------------------------------
(*****************************************************************************)
(* The screens.                                                               *)
(*****************************************************************************)
Shown == Screens!Screens \cup Screens!Overlays
States == [stack : Seq(Shown), active : Screens!Screens, palette : BOOLEAN,
           asked : SUBSET Screens!Workers]

(* The first of the stack is a screen, and while the palette is flagged there is   *)
(* a screen or the palette above it: nothing but that is taken off then.          *)
Good(u) ==
  /\ u \in States
  /\ Len(u.stack) > 0 /\ Len(u.stack) <= MaxDepth /\ u.stack[1] \in Screens!Screens
  /\ u.palette => \E i \in 2..Len(u.stack) : u.stack[i] \in Screens!Screens \cup {"command_palette"}

(* A state of the screens is the record of its four fields.                  *)
LEMMA StateOf ==
  ASSUME NEW u \in States
  PROVE  u = [stack |-> u.stack, active |-> u.active, palette |-> u.palette, asked |-> u.asked]
BY DEF States

(* A step of the composition is one of the screens, or leaves them alone.    *)
LEMMA ScreensSteps == [ServicesNext]_services => [Screens!Next]_ui
BY DEF ServicesNext, services, Resting, screensVars

(* The app starts with one screen.                                           *)
LEMMA GoodInit == Screens!Init => Good(ui)
BY LimitsAssumption DEF Screens!Init, Good, States, Shown, Screens!Screens

(* Switching to another screen replaces the top.                             *)
LEMMA GoodShow ==
  ASSUME NEW u, Good(u), NEW s \in Screens!Screens
  PROVE  \A v \in Screens!Show(u, s) : Good(v)
<1> DEFINE n == Len(u.stack)
           stack == [u.stack EXCEPT ![n] = s]
<1>1. u.stack \in Seq(Shown) /\ n \in Nat /\ n > 0 /\ s \in Shown
  BY DEF Good, States, Shown
<1>2. stack \in Seq(Shown) /\ Len(stack) = n /\ \A i \in 1..n : stack[i] = IF i = n THEN s ELSE u.stack[i]
  BY <1>1
<1>3. Screens!Switched(u, s) = [stack |-> stack, active |-> s, palette |-> u.palette, asked |-> u.asked]
  <2>1. u = [stack |-> u.stack, active |-> u.active, palette |-> u.palette, asked |-> u.asked]
    BY StateOf DEF Good
  <2>2. Screens!Switched(u, s) = [u EXCEPT !.stack = stack, !.active = s]
    BY <2>1 DEF Screens!Switched
  <2> HIDE DEF stack
  <2> QED BY <2>1, <2>2
<1> HIDE DEF stack
<1>4. u.palette => n >= 2
  BY <1>1 DEF Good
<1>5. Good([stack |-> stack, active |-> s, palette |-> u.palette, asked |-> u.asked])
  BY <1>1, <1>2, <1>4 DEF Good, States
<1> QED BY <1>3, <1>5 DEF Screens!Show

(* A stack that grows keeps what is in it.                                    *)
LEMMA GoodPush ==
  ASSUME NEW u \in States, NEW s \in Shown, Len(u.stack) > 0, u.stack[1] \in Screens!Screens,
         u.palette => \/ s = "command_palette"
                      \/ \E i \in 2..Len(u.stack) :
                           u.stack[i] \in Screens!Screens \cup {"command_palette"}
  PROVE  \A v \in Screens!Push(u, s) : Good(v)
<1> DEFINE n == Len(u.stack)
           stack == Append(u.stack, s)
<1>1. u.stack \in Seq(Shown) /\ n \in Nat /\ n > 0
  BY DEF States
<1>2. stack \in Seq(Shown) /\ Len(stack) = n + 1 /\ stack[n + 1] = s /\ \A i \in 1..n : stack[i] = u.stack[i]
  BY <1>1
<1>3. [u EXCEPT !.stack = Append(@, s)]
        = [stack |-> stack, active |-> u.active, palette |-> u.palette, asked |-> u.asked]
  BY SMTT(30), StateOf
<1> HIDE DEF stack
<1>4. n < MaxDepth =>
        Good([stack |-> stack, active |-> u.active, palette |-> u.palette, asked |-> u.asked])
  <2>0. SUFFICES ASSUME n < MaxDepth
                 PROVE Good([stack |-> stack, active |-> u.active, palette |-> u.palette, asked |-> u.asked])
    OBVIOUS
  <2>1. stack[1] \in Screens!Screens BY <1>1, <1>2
  <2>2. u.palette => \E i \in 2..n + 1 : stack[i] \in Screens!Screens \cup {"command_palette"}
    <3> SUFFICES ASSUME u.palette
                 PROVE \E i \in 2..n + 1 : stack[i] \in Screens!Screens \cup {"command_palette"}
      OBVIOUS
    <3>1. CASE s = "command_palette" BY <1>1, <1>2, <3>1
    <3>2. CASE s # "command_palette" BY <1>1, <1>2, <3>2
    <3> QED BY <3>1, <3>2
  <2>3. n + 1 <= MaxDepth BY <1>1, <2>0, LimitsAssumption
  <2> QED BY <1>1, <1>2, <2>1, <2>2, <2>3 DEF Good, States
<1> QED BY <1>3, <1>4 DEF Screens!Push

(* Pushing a screen, unless it is the top already.                             *)
LEMMA GoodPushed ==
  ASSUME NEW u, Good(u), NEW s \in Shown
  PROVE  /\ \A v \in Screens!Push(u, s) : Good(v)
         /\ \A v \in Screens!PushNew(u, s) : Good(v)
<1>1. \A v \in Screens!Push(u, s) : Good(v) BY GoodPush DEF Good
<1> QED BY <1>1 DEF Screens!PushNew

(* What is left when the top goes, unless it was the last one under the palette.   *)
LEMMA Popping ==
  ASSUME NEW u, Good(u), Len(u.stack) >= 2
  PROVE  LET v == Screens!Popped(u) IN
           /\ v \in States /\ v.palette = u.palette
           /\ v = [stack |-> v.stack, active |-> u.active, palette |-> u.palette, asked |-> u.asked]
           /\ Len(v.stack) = Len(u.stack) - 1
           /\ \A i \in 1..Len(v.stack) : v.stack[i] = u.stack[i]
<1> DEFINE n == Len(u.stack)
           stack == SubSeq(u.stack, 1, n - 1)
<1>1. u \in States /\ u.stack \in Seq(Shown) /\ n \in Nat /\ n >= 2
  BY DEF Good, States
<1>2. stack \in Seq(Shown) /\ Len(stack) = n - 1 /\ \A i \in 1..n - 1 : stack[i] = u.stack[i]
  BY <1>1
<1>3. Screens!Popped(u) = [stack |-> stack, active |-> u.active, palette |-> u.palette, asked |-> u.asked]
  <2>1. \A s, t, a, p, q : [[stack |-> s, active |-> a, palette |-> p, asked |-> q] EXCEPT !.stack = t]
                          = [stack |-> t, active |-> a, palette |-> p, asked |-> q]
    OBVIOUS
  <2>2. Screens!Popped(u) = [u EXCEPT !.stack = stack] BY DEF Screens!Popped
  <2>3. u = [stack |-> u.stack, active |-> u.active, palette |-> u.palette, asked |-> u.asked]
    BY <1>1, StateOf
  <2> HIDE DEF stack
  <2> QED BY <2>1, <2>2, <2>3
<1> HIDE DEF stack
<1>4. [stack |-> stack, active |-> u.active, palette |-> u.palette, asked |-> u.asked] \in States
  BY <1>1, <1>2 DEF States
<1> QED BY <1>1, <1>2, <1>3, <1>4

(* An overlay that is closed is not the last one on the stack.               *)
LEMMA GoodPop ==
  ASSUME NEW u, Good(u), Screens!Top(u) \in Screens!Overlays \ {"command_palette"}
  PROVE  Good(Screens!Popped(u))
<1> DEFINE v == Screens!Popped(u)
<1>1. /\ Len(u.stack) \in Nat /\ u.stack[1] \in Screens!Screens /\ Len(u.stack) > 0
      /\ Len(u.stack) <= MaxDepth
  BY DEF Good, States
<1>2. u.stack[Len(u.stack)] \notin Screens!Screens \cup {"command_palette"}
  BY DEF Screens!Top, Screens!Overlays, Screens!Screens
<1>3. Len(u.stack) >= 2 BY <1>1, <1>2
<1>4. /\ v \in States /\ v.palette = u.palette /\ Len(v.stack) = Len(u.stack) - 1
      /\ \A i \in 1..Len(v.stack) : v.stack[i] = u.stack[i]
  BY <1>3, Popping
<1> HIDE DEF v
<1>5. Len(v.stack) > 0 /\ Len(v.stack) <= MaxDepth /\ v.stack[1] \in Screens!Screens
  <2>1. Len(v.stack) \in Nat /\ Len(v.stack) > 0 BY <1>1, <1>3, <1>4
  <2>2. v.stack[1] = u.stack[1] BY <1>4, <2>1
  <2>3. Len(v.stack) <= MaxDepth BY <1>1, <1>4, LimitsAssumption
  <2> QED BY <1>1, <2>1, <2>2, <2>3
<1>6. ASSUME v.palette
      PROVE \E i \in 2..Len(v.stack) : v.stack[i] \in Screens!Screens \cup {"command_palette"}
  <2>1. PICK i \in 2..Len(u.stack) : u.stack[i] \in Screens!Screens \cup {"command_palette"}
    BY <1>4, <1>6 DEF Good
  <2>2. i # Len(u.stack) BY <1>2, <2>1
  <2>3. i \in 2..Len(v.stack) /\ v.stack[i] = u.stack[i] BY <1>1, <1>4, <2>1, <2>2
  <2> QED BY <2>1, <2>3
<1> QED BY <1>4, <1>5, <1>6 DEF Good, v

(* Closing the palette takes what is on top only while the palette is        *)
(* flagged.                                                                  *)
LEMMA GoodClose == ASSUME NEW u, Good(u) PROVE Good(Screens!ClosePalette(u))
<1>1. CASE ~u.palette BY <1>1 DEF Screens!ClosePalette
<1>2. CASE u.palette
  <2> DEFINE v == Screens!Popped(u)
             w == [v EXCEPT !.palette = FALSE]
  <2>1. /\ Len(u.stack) \in Nat /\ Len(u.stack) >= 2 /\ u.stack[1] \in Screens!Screens
        /\ Len(u.stack) <= MaxDepth
    BY <1>2 DEF Good, States
  <2>2. /\ v \in States /\ Len(v.stack) = Len(u.stack) - 1 /\ Len(v.stack) <= MaxDepth
        /\ \A i \in 1..Len(v.stack) : v.stack[i] = u.stack[i]
    BY SMTT(30), <2>1, Popping, LimitsAssumption
  <2>3. Screens!ClosePalette(u) = w BY <1>2 DEF Screens!ClosePalette
  <2> HIDE DEF v
  <2>4. w \in States /\ w.stack = v.stack /\ ~w.palette BY <2>2 DEF States
  <2> HIDE DEF w
  <2>5. Good(w) BY <2>1, <2>2, <2>4 DEF Good
  <2> QED BY <2>3, <2>5
<1> QED BY <1>1, <1>2

(* A worker that is started leaves the screens.                              *)
LEMMA GoodStart ==
  ASSUME NEW u, Good(u), NEW w \in Screens!Workers
  PROVE  \A v \in Screens!Start(u, w) : Good(v)
<1> DEFINE v == [u EXCEPT !.asked = @ \cup {w}]
<1>1. v \in States /\ v.stack = u.stack /\ v.palette = u.palette BY DEF Good, States
<1> HIDE DEF v
<1>2. Good(v) BY <1>1 DEF Good
<1> QED BY <1>2 DEF Screens!Start, v

(* Every handler leaves a good state.                                         *)
LEMMA GoodHandlers ==
  ASSUME NEW u, Good(u)
  PROVE  /\ \A v \in Screens!OpenRuntimeUser(u) : Good(v)
         /\ \A v \in Screens!OpenSelectedArtifact(u) : Good(v)
         /\ \A command \in Screens!PaletteCommands \cup Screens!TypedCommands \cup Screens!Keys :
              \A v \in Screens!Handler(command, u) : Good(v)
<1> USE DEF Screens!Perhaps
<1>1. Shown = Screens!Screens \cup Screens!Overlays BY DEF Shown
<1>2. \A s \in Screens!Screens : \A v \in Screens!Show(u, s) : Good(v) BY GoodShow
<1>3. \A s \in Shown : (\A v \in Screens!Push(u, s) : Good(v)) /\ \A v \in Screens!PushNew(u, s) : Good(v)
  BY GoodPushed
<1>4. \A w \in Screens!Workers : \A v \in Screens!Start(u, w) : Good(v) BY GoodStart
<1>5. Good(Screens!ClosePalette(u)) BY GoodClose
<1>6. /\ "create_task" \in Shown /\ "runtime_user_prompt" \in Shown /\ "help" \in Shown
      /\ "timeline_prompt" \in Shown /\ "confirm" \in Shown /\ "remote_mcp_complete" \in Shown
      /\ "command_palette" \in Shown
  BY DEF Shown, Screens!Overlays
<1>7. /\ "approvals" \in Screens!Screens /\ "artifacts" \in Screens!Screens
      /\ "markdown_viewer" \in Screens!Screens /\ "memory" \in Screens!Screens
      /\ "config" \in Screens!Screens /\ "diagnostics" \in Screens!Screens
      /\ "task_detail" \in Screens!Screens
  BY DEF Screens!Screens
<1>8. "authorize" \in Screens!Workers /\ "reconnect" \in Screens!Workers BY DEF Screens!Workers
<1>10. \A v \in Screens!OpenRuntimeUser(u) : Good(v)
  BY <1>5, <1>6, GoodPushed DEF Screens!OpenRuntimeUser
<1>11. \A v \in Screens!OpenSelectedArtifact(u) : Good(v)
  BY <1>2, <1>7 DEF Screens!OpenSelectedArtifact
<1>12. \A v \in Screens!OpenCreateTask(u) : Good(v)
  BY <1>5, <1>6, GoodPushed DEF Screens!OpenCreateTask
<1>13. \A v \in Screens!ConfirmApproval(u) : Good(v)
  BY <1>3, <1>6 DEF Screens!ConfirmApproval
<1>14. \A v \in Screens!ResumeTask(u) : Good(v) BY <1>13 DEF Screens!ResumeTask
<1>15. \A v \in Screens!Authorize(u) : Good(v) BY <1>4, <1>8, <1>10 DEF Screens!Authorize
<1>16. \A v \in Screens!CompleteAuth(u) : Good(v) BY <1>3, <1>6 DEF Screens!CompleteAuth
<1>17. \A v \in Screens!RevokeAuth(u) : Good(v) BY <1>3, <1>6 DEF Screens!RevokeAuth
<1>18. \A v \in Screens!OpenApprovals(u) : Good(v) BY <1>2, <1>7, <1>13 DEF Screens!OpenApprovals
<1>19. \A v \in Screens!OpenWorkflow(u) : Good(v) BY <1>2, <1>7 DEF Screens!OpenWorkflow
<1>20. \A v \in Screens!OpenArtifacts(u) : Good(v) BY <1>2, <1>7, <1>11 DEF Screens!OpenArtifacts
<1>21. \A v \in Screens!OpenMemory(u) : Good(v) BY <1>2, <1>7 DEF Screens!OpenMemory
<1>22. \A v \in Screens!OpenConfig(u) : Good(v) BY <1>2, <1>7 DEF Screens!OpenConfig
<1>23. \A v \in Screens!OpenDiagnostics(u) : Good(v) BY <1>2, <1>7 DEF Screens!OpenDiagnostics
<1>24. \A v \in Screens!OpenHelp(u) : Good(v)
  <2>1. Screens!Top(u) = "help" => Good(Screens!Popped(u)) BY GoodPop DEF Screens!Overlays
  <2> QED BY <1>3, <1>6, <2>1 DEF Screens!OpenHelp
<1>25. \A v \in Screens!OpenTimelinePrompt(u) : Good(v)
  BY <1>3, <1>6 DEF Screens!OpenTimelinePrompt
<1>26. \A v \in Screens!OpenPalette(u) : Good(v)
  <2> DEFINE p == [u EXCEPT !.palette = TRUE]
  <2>1. p \in States /\ p.stack = u.stack BY DEF Good, States
  <2> HIDE DEF p
  <2>2. \A v \in Screens!Push(p, "command_palette") : Good(v)
    BY <1>6, <2>1, GoodPush DEF Good
  <2> QED BY <1>5, <2>2 DEF Screens!OpenPalette, p
<1>27. ASSUME NEW command \in Screens!PaletteCommands \cup Screens!TypedCommands \cup Screens!Keys,
              NEW v \in Screens!Handler(command, u)
       PROVE  Good(v)
  BY <1>27, <1>2, <1>4, <1>7, <1>8, <1>10, <1>12, <1>14, <1>15, <1>16, <1>17, <1>18, <1>19, <1>20,
     <1>21, <1>22, <1>23, <1>24, <1>25, <1>26
  DEF Screens!Handler, Screens!PaletteCommands, Screens!TypedCommands, Screens!Keys,
      Screens!PriorityKeys
<1> QED BY <1>10, <1>11, <1>27

(* Back and Escape.                                                          *)
LEMMA GoodBack == ASSUME NEW u, Good(u) PROVE \A v \in Screens!Back(u) : Good(v)
<1>1. \A s \in Screens!Screens : \A v \in Screens!Show(u, s) : Good(v) BY GoodShow
<1>2. Good(Screens!ClosePalette(u)) BY GoodClose
<1>3. Screens!Top(u) \in {"help", "timeline_prompt", "create_task"} => Good(Screens!Popped(u))
  BY GoodPop DEF Screens!Overlays
<1>4. \A v \in UNION {Screens!Show(u, origin) : origin \in Screens!Screens} : Good(v)
  BY <1>1
<1>5. "artifacts" \in Screens!Screens /\ "dashboard" \in Screens!Screens BY DEF Screens!Screens
<1> QED BY <1>1, <1>2, <1>3, <1>4, <1>5 DEF Screens!Back

(* The buttons and the commands of the dialogs.                              *)
LEMMA GoodDialog == ASSUME NEW u, Good(u) PROVE \A v \in Screens!Dialog(u) : Good(v)
<1>1. Good(Screens!ClosePalette(u)) BY GoodClose
<1>2. Screens!Top(u) \in Screens!Overlays \ {"command_palette"} => Good(Screens!Popped(u))
  BY GoodPop
<1>3. \A w \in Screens!Workers : \A v \in Screens!Start(u, w) : Good(v) BY GoodStart
<1>4. \A v \in Screens!OpenRuntimeUser(u) : Good(v) BY GoodHandlers
<1>5. \A v \in Screens!Push(u, "remote_mcp_complete") : Good(v)
  BY GoodPushed DEF Shown, Screens!Overlays
<1>6. Screens!Top(u) = "runtime_user_prompt" =>
        \A v \in Screens!Start(Screens!Popped(u), "create") : Good(v)
  BY <1>2, GoodStart DEF Screens!Overlays, Screens!Workers
<1> QED BY <1>1, <1>2, <1>3, <1>4, <1>5, <1>6
        DEF Screens!Dialog, Screens!Overlays, Screens!Workers

(* A worker's answer, which comes while other screens may be shown.          *)
LEMMA GoodAnswer ==
  ASSUME NEW w \in Screens!Workers, Good(ui), Screens!Answer(w) PROVE Good(ui')
<1> DEFINE u == [ui EXCEPT !.asked = @ \ {w}]
<1>1. u \in States /\ u.stack = ui.stack /\ u.palette = ui.palette BY DEF Good, States
<1>0. ui' \in Screens!Perhaps(u, CASE w = "create"    -> Screens!Created(u)
                                  [] w = "reconnect" -> Screens!Reconnected(u)
                                  [] w = "authorize" -> Screens!Authorized(u)
                                  [] w = "complete"  -> Screens!Completed(u))
  BY DEF Screens!Answer, Screens!May
<1> HIDE DEF u
<1>2. Good(u) BY <1>1 DEF Good
<1>3. \A s \in Screens!Screens : \A v \in Screens!Show(u, s) : Good(v) BY <1>2, GoodShow
<1>4. Screens!Top(u) \in Screens!Overlays \ {"command_palette"} => Good(Screens!Popped(u))
  BY <1>2, GoodPop
<1>5. \A v \in Screens!Created(u) : Good(v)
  <2>1. CASE Screens!Top(u) = "create_task"
    <3>1. Good(Screens!Popped(u)) BY <1>4, <2>1 DEF Screens!Overlays
    <3>2. \A v \in Screens!Show(Screens!Popped(u), "task_detail") : Good(v)
      BY <3>1, GoodShow DEF Screens!Screens
    <3> QED BY <2>1, <3>2 DEF Screens!Created
  <2>2. CASE Screens!Top(u) # "create_task"
    BY <1>3, <2>2 DEF Screens!Created, Screens!Screens
  <2> QED BY <2>1, <2>2
<1>6. \A v \in Screens!Reconnected(u) : Good(v)
  BY <1>3 DEF Screens!Reconnected, Screens!Screens
<1>7. \A v \in Screens!Authorized(u) : Good(v)
  BY <1>2, GoodPushed DEF Screens!Authorized, Shown, Screens!Overlays
<1>8. \A v \in Screens!Completed(u) : Good(v)
  BY <1>2, <1>4 DEF Screens!Completed, Screens!PopIf, Screens!Overlays
<1> QED BY <1>0, <1>2, <1>5, <1>6, <1>7, <1>8 DEF Screens!Perhaps, Screens!Workers

(* Every key, command, dialog and answer leaves a good state.                *)
LEMMA GoodNext == Good(ui) /\ [Screens!Next]_ui => Good(ui')
<1> SUFFICES ASSUME Good(ui), [Screens!Next]_ui PROVE Good(ui')
  OBVIOUS
<1>0. \A s \in Screens!Screens : \A v \in Screens!Show(ui, s) : Good(v) BY GoodShow
<1>1. CASE UNCHANGED ui BY <1>1
<1>2. ASSUME NEW key \in Screens!Keys, Screens!Press(key) PROVE Good(ui')
  BY <1>2, GoodHandlers DEF Screens!Press, Screens!May
<1>3. ASSUME NEW command \in Screens!PaletteCommands, Screens!RunPaletteCommand(command)
      PROVE  Good(ui')
  <2>1. Good(Screens!ClosePalette(ui)) BY GoodClose
  <2>2. \A v \in Screens!Handler(command, Screens!ClosePalette(ui)) : Good(v)
    BY <2>1, GoodHandlers
  <2> QED BY <1>3, <2>2 DEF Screens!RunPaletteCommand, Screens!May, Screens!Perhaps
<1>4. ASSUME NEW command \in Screens!TypedCommands, Screens!TypeCommand(command) PROVE Good(ui')
  BY <1>4, GoodHandlers DEF Screens!TypeCommand, Screens!May
<1>5. CASE Screens!OpenTask
  <2>1. Screens!Top(ui) = "timeline_prompt" => Good(Screens!Popped(ui))
    BY GoodPop DEF Screens!Overlays
  <2>2. \A v \in Screens!OpenSelectedArtifact(ui) : Good(v) BY GoodHandlers
  <2> QED BY <1>0, <1>5, <2>1, <2>2
          DEF Screens!OpenTask, Screens!May, Screens!Perhaps, Screens!Screens
<1>6. CASE Screens!Escape BY <1>6, GoodBack DEF Screens!Escape, Screens!May
<1>7. CASE Screens!Quit
  <2>1. \A v \in Screens!Push(ui, "confirm") : Good(v)
    BY GoodPushed DEF Shown, Screens!Overlays
  <2> QED BY <1>7, <2>1, GoodBack DEF Screens!Quit, Screens!May
<1>8. CASE Screens!UseDialog BY <1>8, GoodDialog DEF Screens!UseDialog, Screens!May
<1>9. ASSUME NEW w \in Screens!Workers, Screens!Answer(w) PROVE Good(ui')
  BY <1>9, GoodAnswer
<1> QED BY <1>1, <1>2, <1>3, <1>4, <1>5, <1>6, <1>7, <1>8, <1>9 DEF Screens!Next

(* So the type of the screens holds.                                         *)
LEMMA ScreensTypeOK == Good(ui) => Screens!TypeOK
BY DEF Good, States, Shown, Screens!TypeOK

(* There is a screen to show, and one under the top while the palette is flagged,  *)
(* whatever keys, commands, dialogs and answers have done to the stack, and       *)
(* however deep it is.                                                        *)
THEOREM AlwaysAScreen == ServicesSpec => []AScreenIsLeft
<1>1. ServicesInit => Good(ui) BY GoodInit DEF ServicesInit
<1>2. Good(ui) /\ [ServicesNext]_services => Good(ui)' BY ScreensSteps, GoodNext
<1>3. Good(ui) => AScreenIsLeft
  BY DEF Good, States, AScreenIsLeft, Screens!AScreenIsLeft
<1> QED BY <1>1, <1>2, <1>3, PTL DEF ServicesSpec
=============================================================================
