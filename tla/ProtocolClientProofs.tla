-------------------------- MODULE ProtocolClientProofs --------------------------
(*****************************************************************************)
(* Proofs about the TUI's protocol client: whom an answer or a failure reaches, *)
(* for any number of workers, requests and runtime processes.                  *)
(*****************************************************************************)
EXTENDS ProtocolClient, FiniteSetTheorems, SequenceTheorems, TLAPS

FutureRecs  == [at : {"open", "answered", "failed", "cancelled"},
                answer : {0} \cup Ids, to : {0} \cup Runtimes]
RuntimeRecs == [alive : BOOLEAN, stuck : BOOLEAN, stdin : {"open", "closing", "lost"},
                serving : SUBSET Ids, output : Seq({Garbage} \cup Ids)]
ReaderRecs  == [at : {"start", "read", "stderr", "done", "dead", "cancelled"}, on : Runtimes]
CloserRecs  == [at : {"idle", "stdin", "reader", "exit", "replaced"}, on : {0} \cup Runtimes]

-----------------------------------------------------------------------------
(*****************************************************************************)
(* The inductive invariant.                                                  *)
(*****************************************************************************)
(* A worker that starts a process will need a request and a process number.     *)
SpawnsOK ==
  /\ IsFiniteSet(At("spawn"))
  /\ Issued + Cardinality(At("spawn")) <= MaxRequests
  /\ Len(runtime) + Cardinality(At("spawn")) <= MaxRuntimes

(* The client's process and reader belong together, and close() has both until   *)
(* the process has ended.                                                    *)
ClientOK ==
  /\ readerTask = process
  /\ closer.at \in {"stdin", "reader", "exit"} => process # 0 /\ closer.on \in 1..Len(runtime)

ReadersOK == \A r \in DOMAIN reader : reader[r].on \in 1..Len(runtime)

(* Who returned has a future that is answered.                                 *)
WorkersOK ==
  \A w \in Workers :
    /\ worker[w].at \in {"wait", "answered"} => worker[w].id \in 1..Issued
    /\ worker[w].at = "answered" => future[worker[w].id].at = "answered"

(* A future that is answered has the answer to its own request.                 *)
FuturesOK ==
  \A id \in 1..Issued :
    /\ future[id].to \in 1..Len(runtime)
    /\ future[id].at = "answered" => future[id].answer = id

PInv ==
  TypeOK /\ SpawnsOK /\ ClientOK /\ ReadersOK /\ WorkersOK /\ FuturesOK /\ FailedOnlyAtEnd

(* What everybody needs of the types.                                          *)
LEMMA Types ==
  ASSUME TypeOK
  PROVE  /\ future \in Seq(FutureRecs) /\ Issued \in Nat /\ Issued <= MaxRequests
         /\ DOMAIN future = 1..Issued /\ \A id \in 1..Issued : future[id] \in FutureRecs
         /\ pending \subseteq 1..Issued
         /\ runtime \in Seq(RuntimeRecs) /\ Len(runtime) \in Nat /\ Len(runtime) <= MaxRuntimes
         /\ DOMAIN runtime = 1..Len(runtime)
         /\ \A p \in 1..Len(runtime) : runtime[p] \in RuntimeRecs /\ p \in Runtimes
         /\ reader \in Seq(ReaderRecs) /\ Len(reader) = Len(runtime)
         /\ DOMAIN reader = 1..Len(reader) /\ \A r \in DOMAIN reader : reader[r] \in ReaderRecs
         /\ MaxRequests \in Nat /\ MaxRuntimes \in Nat /\ MaxMishaps \in Nat
         /\ process \in 0..Len(runtime) /\ mishaps \in 0..MaxMishaps
<1>1. /\ future \in Seq(FutureRecs) /\ runtime \in Seq(RuntimeRecs) /\ reader \in Seq(ReaderRecs)
      /\ Issued <= MaxRequests /\ pending \subseteq 1..Issued
      /\ Len(reader) = Len(runtime) /\ Len(runtime) <= MaxRuntimes
      /\ process \in 0..Len(runtime) /\ mishaps \in 0..MaxMishaps
  BY DEF TypeOK, FutureRecs, RuntimeRecs, ReaderRecs
<1>2. /\ Len(future) \in Nat /\ Len(runtime) \in Nat
      /\ DOMAIN future = 1..Len(future) /\ DOMAIN runtime = 1..Len(runtime)
      /\ DOMAIN reader = 1..Len(reader)
  BY <1>1, LenProperties
<1>3. /\ \A id \in DOMAIN future : future[id] \in FutureRecs
      /\ \A p \in DOMAIN runtime : runtime[p] \in RuntimeRecs
      /\ \A r \in DOMAIN reader : reader[r] \in ReaderRecs
  BY <1>1, <1>2, ElementOfSeq
<1>4. MaxRequests \in Nat /\ MaxRuntimes \in Nat /\ MaxMishaps \in Nat BY BoundsAssumption
<1>5. \A p \in 1..Len(runtime) : p \in Runtimes BY <1>1, <1>2, <1>4 DEF Runtimes
<1> QED BY <1>1, <1>2, <1>3, <1>4, <1>5 DEF Issued

-----------------------------------------------------------------------------
(*****************************************************************************)
(* The steps that leave the workers and the futures alone.                     *)
(*****************************************************************************)
(* No process comes to life again: then those steps keep the invariant.          *)
LEMMA QuietStep ==
  ASSUME PInv, UNCHANGED <<worker, future, pending>>,
         runtime' \in Seq(RuntimeRecs), Len(runtime') = Len(runtime),
         \A p \in 1..Len(runtime) : runtime'[p].alive => runtime[p].alive,
         reader' \in Seq(ReaderRecs), Len(reader') = Len(reader),
         \A r \in DOMAIN reader' : reader'[r].on \in 1..Len(runtime),
         process' \in 0..Len(runtime), ClientOK', closer' \in CloserRecs, mishaps' \in 0..MaxMishaps
  PROVE  PInv'
<1>1. TypeOK'
  <2>1. Issued' = Issued BY DEF Issued
  <2>2. {process', readerTask'} \subseteq 0..Len(runtime') BY DEF ClientOK
  <2> QED BY <2>1, <2>2 DEF PInv, TypeOK, RuntimeRecs, ReaderRecs, CloserRecs
<1>2. SpawnsOK' BY DEF PInv, SpawnsOK, At, Issued
<1>3. ReadersOK' BY DEF ReadersOK
<1>4. WorkersOK' BY DEF PInv, WorkersOK, Issued
<1>5. FuturesOK' BY DEF PInv, FuturesOK, Issued
<1>6. FailedOnlyAtEnd'
  <2> SUFFICES ASSUME OneRuntime', NEW id \in 1..Issued, future[id].at = "failed"
               PROVE  ~runtime'[future[id].to].alive
    BY DEF FailedOnlyAtEnd, Issued
  <2>1. OneRuntime BY DEF OneRuntime
  <2>2. ~runtime[future[id].to].alive /\ future[id].to \in 1..Len(runtime)
    BY <2>1 DEF PInv, FailedOnlyAtEnd, FuturesOK
  <2> QED BY <2>2
<1> QED BY <1>1, <1>2, <1>3, <1>4, <1>5, <1>6 DEF PInv

(* One process changes, and does not come to life.                              *)
LEMMA ProcessStep ==
  ASSUME PInv, UNCHANGED <<worker, future, pending, process, readerTask, reader, closer>>,
         NEW p \in 1..Len(runtime), NEW rec \in RuntimeRecs, rec.alive => runtime[p].alive,
         runtime' = [runtime EXCEPT ![p] = rec], mishaps' \in 0..MaxMishaps
  PROVE  PInv'
<1>1. TypeOK BY DEF PInv
<1>2. runtime' \in Seq(RuntimeRecs) /\ Len(runtime') = Len(runtime)
  BY <1>1, Types, ExceptSeq
<1>3. \A q \in 1..Len(runtime) : runtime'[q].alive => runtime[q].alive BY <1>1, Types
<1>4. /\ reader' \in Seq(ReaderRecs) /\ \A r \in DOMAIN reader' : reader'[r].on \in 1..Len(runtime)
      /\ process' \in 0..Len(runtime) /\ closer' \in CloserRecs
  BY <1>1, Types DEF PInv, ReadersOK, TypeOK, CloserRecs
<1>5. ClientOK' BY <1>2 DEF PInv, ClientOK
<1> QED BY <1>2, <1>3, <1>4, <1>5, QuietStep

(* What a runtime does of its own.                                             *)
LEMMA RuntimeSteps ==
  ASSUME PInv, NEW p \in DOMAIN runtime,
         RuntimeStep(p) \/ Garble(p) \/ FillLog(p) \/ Crash(p)
  PROVE  PInv'
<1>0. /\ TypeOK /\ p \in 1..Len(runtime) /\ runtime[p] \in RuntimeRecs
      /\ mishaps \in 0..MaxMishaps /\ MaxMishaps \in Nat
      /\ mishaps < MaxMishaps => mishaps + 1 \in 0..MaxMishaps
  BY Types DEF PInv
<1> DEFINE now == runtime[p]
<1>a. \A id \in {Garbage} \cup Ids : Append(now.output, id) \in Seq({Garbage} \cup Ids)
  <2>1. now.output \in Seq({Garbage} \cup Ids) BY <1>0 DEF RuntimeRecs
  <2> QED BY <2>1, AppendProperties
<1>1. ASSUME NEW id \in now.serving, Answer(p, id) PROVE PInv'
  <2> DEFINE rec == [now EXCEPT !.serving = @ \ {id}, !.output = Append(@, id)]
  <2>1. id \in Ids BY <1>0 DEF RuntimeRecs
  <2>2. rec \in RuntimeRecs /\ rec.alive = now.alive BY <1>0, <1>a, <2>1 DEF RuntimeRecs
  <2>3. runtime' = [runtime EXCEPT ![p] = rec] BY <1>1 DEF Answer
  <2>4. UNCHANGED <<worker, future, pending, process, readerTask, reader, closer, mishaps>>
    BY <1>1 DEF Answer
  <2> HIDE DEF rec, now
  <2> QED BY <1>0, <2>2, <2>3, <2>4, ProcessStep DEF now
<1>2. CASE Garble(p)
  <2>1. PICK lost \in {{}} \cup {{id} : id \in now.serving} :
          runtime' = [runtime EXCEPT ![p].serving = @ \ lost, ![p].output = Append(@, Garbage)]
    BY <1>2 DEF Garble
  <2> DEFINE rec == [now EXCEPT !.serving = @ \ lost, !.output = Append(@, Garbage)]
  <2>2. rec \in RuntimeRecs /\ rec.alive = now.alive BY <1>0, <1>a DEF RuntimeRecs
  <2>3. runtime' = [runtime EXCEPT ![p] = rec] BY <2>1
  <2>4. /\ UNCHANGED <<worker, future, pending, process, readerTask, reader, closer>>
        /\ mishaps' \in 0..MaxMishaps
    BY <1>0, <1>2 DEF Garble
  <2> HIDE DEF rec, now
  <2> QED BY <1>0, <2>2, <2>3, <2>4, ProcessStep DEF now
<1>3. CASE FillLog(p)
  <2> DEFINE rec == [now EXCEPT !.stuck = TRUE]
  <2>2. rec \in RuntimeRecs /\ rec.alive = now.alive BY <1>0 DEF RuntimeRecs
  <2>3. runtime' = [runtime EXCEPT ![p] = rec] BY <1>3 DEF FillLog
  <2>4. /\ UNCHANGED <<worker, future, pending, process, readerTask, reader, closer>>
        /\ mishaps' \in 0..MaxMishaps
    BY <1>0, <1>3 DEF FillLog
  <2> HIDE DEF rec, now
  <2> QED BY <1>0, <2>2, <2>3, <2>4, ProcessStep DEF now
<1>4. CASE Crash(p)
  <2> DEFINE rec == [now EXCEPT !.alive = FALSE, !.serving = {}]
  <2>2. rec \in RuntimeRecs /\ ~rec.alive BY <1>0 DEF RuntimeRecs
  <2>3. runtime' = [runtime EXCEPT ![p] = rec] BY <1>4 DEF Crash
  <2>4. /\ UNCHANGED <<worker, future, pending, process, readerTask, reader, closer>>
        /\ mishaps' \in 0..MaxMishaps
    BY <1>0, <1>4 DEF Crash
  <2> HIDE DEF rec, now
  <2> QED BY <1>0, <2>2, <2>3, <2>4, ProcessStep DEF now
<1>5. CASE Exit(p)
  <2> DEFINE rec == [now EXCEPT !.alive = FALSE]
  <2>2. rec \in RuntimeRecs /\ ~rec.alive BY <1>0 DEF RuntimeRecs
  <2>3. runtime' = [runtime EXCEPT ![p] = rec] BY <1>5 DEF Exit
  <2>4. UNCHANGED <<worker, future, pending, process, readerTask, reader, closer, mishaps>>
    BY <1>5 DEF Exit
  <2> HIDE DEF rec, now
  <2> QED BY <1>0, <2>2, <2>3, <2>4, ProcessStep DEF now
<1>6. CASE PipeLost(p)
  <2> DEFINE rec == [now EXCEPT !.stdin = "lost"]
  <2>2. rec \in RuntimeRecs /\ rec.alive = now.alive BY <1>0 DEF RuntimeRecs
  <2>3. runtime' = [runtime EXCEPT ![p] = rec] BY <1>6 DEF PipeLost
  <2>4. UNCHANGED <<worker, future, pending, process, readerTask, reader, closer, mishaps>>
    BY <1>6 DEF PipeLost
  <2> HIDE DEF rec, now
  <2> QED BY <1>0, <2>2, <2>3, <2>4, ProcessStep DEF now
<1> QED BY <1>1, <1>2, <1>3, <1>4, <1>5, <1>6 DEF RuntimeStep

(* The tasks that read, where they do not settle a future, and the closing.      *)
LEMMA ReaderAndCloserSteps ==
  ASSUME PInv,
         \/ \E r \in DOMAIN reader : Start(r) \/ EndOfOutput(r)
         \/ Reconnect \/ CloserStep
  PROVE  PInv'
<1>0. /\ TypeOK /\ process \in 0..Len(runtime) /\ Len(runtime) \in Nat
      /\ runtime \in Seq(RuntimeRecs) /\ DOMAIN runtime = 1..Len(runtime)
      /\ \A p \in 1..Len(runtime) : runtime[p] \in RuntimeRecs /\ p \in Runtimes
      /\ reader \in Seq(ReaderRecs) /\ Len(reader) = Len(runtime)
      /\ DOMAIN reader = 1..Len(reader) /\ \A r \in DOMAIN reader : reader[r] \in ReaderRecs
      /\ mishaps \in 0..MaxMishaps /\ MaxMishaps \in Nat
  BY Types DEF PInv
<1>m. mishaps < MaxMishaps => mishaps + 1 \in 0..MaxMishaps BY <1>0
<1>1. /\ ClientOK /\ \A r \in DOMAIN reader : reader[r].on \in 1..Len(runtime)
      /\ closer \in CloserRecs
  BY DEF PInv, ReadersOK, TypeOK, CloserRecs
<1>2. ASSUME NEW r \in DOMAIN reader, NEW rec \in ReaderRecs, rec.on \in 1..Len(runtime),
             reader' = [reader EXCEPT ![r] = rec]
      PROVE  /\ reader' \in Seq(ReaderRecs) /\ Len(reader') = Len(reader)
             /\ \A q \in DOMAIN reader' : reader'[q].on \in 1..Len(runtime)
  BY <1>0, <1>1, <1>2, ExceptSeq
<1>3. ASSUME NEW p \in 1..Len(runtime), NEW stdin \in {"closing", "lost"},
             runtime' = [runtime EXCEPT ![p].stdin = stdin]
      PROVE  /\ runtime' \in Seq(RuntimeRecs) /\ Len(runtime') = Len(runtime)
             /\ \A q \in 1..Len(runtime) : runtime'[q].alive => runtime[q].alive
  <2> DEFINE rec == [runtime[p] EXCEPT !.stdin = stdin]
  <2>1. rec \in RuntimeRecs /\ rec.alive = runtime[p].alive BY <1>0 DEF RuntimeRecs
  <2>2. runtime' = [runtime EXCEPT ![p] = rec] BY <1>3
  <2> HIDE DEF rec
  <2> QED BY <1>0, <2>1, <2>2, ExceptSeq
<1>4. ASSUME NEW r \in DOMAIN reader, Start(r) \/ EndOfOutput(r) PROVE PInv'
  <2>1. PICK rec \in ReaderRecs : rec.on \in 1..Len(runtime) /\ reader' = [reader EXCEPT ![r] = rec]
    <3> DEFINE dead == [reader[r] EXCEPT !.at = "dead"]
    <3>1. dead \in ReaderRecs /\ dead.on \in 1..Len(runtime) BY <1>0, <1>1 DEF ReaderRecs
    <3>2. ASSUME process # 0, NEW at \in {"read", "stderr"}
          PROVE  [at |-> at, on |-> process] \in ReaderRecs /\ process \in 1..Len(runtime)
      BY <1>0, <3>2 DEF ReaderRecs
    <3>3. CASE Start(r)
      <4>1. NextRead(r) \in ReaderRecs /\ NextRead(r).on \in 1..Len(runtime)
        BY <3>1, <3>2 DEF NextRead
      <4> QED BY <3>3, <4>1 DEF Start
    <3>4. CASE EndOfOutput(r)
      <4>1. CASE process = 0 BY <3>1, <3>4, <4>1 DEF EndOfOutput
      <4>2. CASE process # 0 BY <3>2, <3>4, <4>2 DEF EndOfOutput
      <4> QED BY <4>1, <4>2
    <3> QED BY <1>4, <3>3, <3>4
  <2>2. UNCHANGED <<worker, future, pending, process, readerTask, runtime, closer, mishaps>>
    BY <1>4 DEF Start, EndOfOutput
  <2>3. ClientOK' BY <1>1, <2>2 DEF ClientOK
  <2> QED BY <1>0, <1>1, <1>2, <2>1, <2>2, <2>3, QuietStep
<1>5. CASE Reconnect
  <2>1. /\ reader' \in Seq(ReaderRecs) /\ Len(reader') = Len(reader)
        /\ \A q \in DOMAIN reader' : reader'[q].on \in 1..Len(runtime)
    <3>1. CASE closer.at = "reader" /\ reader[closer.on].at \in {"start", "read", "stderr"}
      <4> DEFINE rec == [reader[closer.on] EXCEPT !.at = "cancelled"]
      <4>1. closer.on \in DOMAIN reader BY <1>0, <1>1, <3>1 DEF ClientOK
      <4>2. rec \in ReaderRecs /\ rec.on \in 1..Len(runtime) BY <1>0, <1>1, <4>1 DEF ReaderRecs
      <4>3. reader' = [reader EXCEPT ![closer.on] = rec] BY <1>5, <3>1 DEF Reconnect
      <4> HIDE DEF rec
      <4> QED BY <1>2, <4>1, <4>2, <4>3
    <3>2. CASE reader' = reader BY <1>0, <1>1, <3>2
    <3> QED BY <1>5, <3>1, <3>2 DEF Reconnect
  <2>2. /\ runtime' \in Seq(RuntimeRecs) /\ Len(runtime') = Len(runtime)
        /\ \A q \in 1..Len(runtime) : runtime'[q].alive => runtime[q].alive
    <3>1. CASE runtime' = runtime BY <1>0, <3>1
    <3>2. CASE process # 0 /\ runtime' = [runtime EXCEPT ![process].stdin = "closing"]
      <4>1. process \in 1..Len(runtime) /\ "closing" \in {"closing", "lost"} BY <1>0, <3>2
      <4> QED BY <1>3, <3>2, <4>1
    <3> QED BY <1>5, <3>1, <3>2 DEF Reconnect
  <2>3. /\ UNCHANGED <<worker, future, pending, process, readerTask>>
        /\ mishaps' \in 0..MaxMishaps
    BY <1>0, <1>m, <1>5 DEF Reconnect
  <2>4. ClientOK' /\ closer' \in CloserRecs
    <3>1. CASE process = 0 BY <1>1, <1>5, <2>3, <3>1 DEF Reconnect, ClientOK, Out, CloserRecs
    <3>2. CASE process # 0
      <4>1. closer' = [at |-> "stdin", on |-> process] /\ process \in 1..Len(runtime)
        BY <1>0, <1>5, <3>2 DEF Reconnect
      <4> QED BY <1>0, <1>1, <2>2, <2>3, <3>2, <4>1 DEF ClientOK, CloserRecs
    <3> QED BY <3>1, <3>2
  <2> QED BY <1>0, <2>1, <2>2, <2>3, <2>4, QuietStep
<1>6. CASE StdinClosed
  <2>1. /\ UNCHANGED <<worker, future, pending, process, readerTask, reader, mishaps>>
        /\ closer.at = "stdin" /\ closer.on \in 1..Len(runtime) /\ process \in 1..Len(runtime)
        /\ runtime' = [runtime EXCEPT ![closer.on].stdin = "lost"]
    BY <1>0, <1>1, <1>6 DEF StdinClosed, ClientOK
  <2>2. /\ runtime' \in Seq(RuntimeRecs) /\ Len(runtime') = Len(runtime)
        /\ \A q \in 1..Len(runtime) : runtime'[q].alive => runtime[q].alive
    BY <1>3, <2>1
  <2>3. CASE closer' = [at |-> "reader", on |-> readerTask]
    <3>1. ClientOK' /\ closer' \in CloserRecs
      BY <1>0, <1>1, <2>1, <2>2, <2>3 DEF ClientOK, CloserRecs
    <3> QED BY <1>0, <1>1, <2>1, <2>2, <3>1, QuietStep
  <2>4. CASE closer' = Out("replaced")
    <3>1. ClientOK' /\ closer' \in CloserRecs BY <1>1, <2>1, <2>4 DEF ClientOK, CloserRecs, Out
    <3> QED BY <1>0, <1>1, <2>1, <2>2, <3>1, QuietStep
  <2> QED BY <1>6, <2>3, <2>4 DEF StdinClosed
<1>7. CASE ReaderAwaited
  <2>1. /\ UNCHANGED <<worker, future, pending, process, readerTask, runtime, reader, mishaps>>
        /\ process \in 1..Len(runtime)
    BY <1>0, <1>1, <1>7 DEF ReaderAwaited, ClientOK
  <2>2. ClientOK' /\ closer' \in CloserRecs
    <3>1. CASE closer' = [at |-> "exit", on |-> process]
      BY <1>0, <1>1, <2>1, <3>1 DEF ClientOK, CloserRecs
    <3>2. CASE closer' = Out("replaced") \/ closer' = Out("idle")
      BY <1>1, <2>1, <3>2 DEF ClientOK, CloserRecs, Out
    <3> QED BY <1>7, <3>1, <3>2 DEF ReaderAwaited
  <2> QED BY <1>0, <1>1, <2>1, <2>2, QuietStep
<1>8. CASE ProcessAwaited
  <2>1. /\ UNCHANGED <<worker, future, pending, runtime, reader, mishaps>>
        /\ process' = 0 /\ readerTask' = 0 /\ closer' = Out("replaced")
    BY <1>8 DEF ProcessAwaited
  <2>2. ClientOK' /\ closer' \in CloserRecs BY <2>1 DEF ClientOK, CloserRecs, Out
  <2> QED BY <1>0, <1>1, <2>1, <2>2, QuietStep
<1> QED BY <1>4, <1>5, <1>6, <1>7, <1>8 DEF CloserStep

-----------------------------------------------------------------------------
(*****************************************************************************)
(* The steps that settle futures.                                             *)
(*****************************************************************************)
(* A reader takes a line from a process: the futures stay those of the same       *)
(* requests, an answer is the request's own, and only what failed fails.         *)
LEMMA SettleStep ==
  ASSUME PInv, UNCHANGED <<worker, process, readerTask, closer, mishaps>>,
         future' \in Seq(FutureRecs), Len(future') = Len(future), pending' \subseteq pending,
         \A id \in 1..Issued :
           /\ future'[id].to = future[id].to
           /\ future[id].at = "answered" => future'[id].at = "answered"
           /\ future'[id].at = "answered" => future'[id].answer = id
           /\ OneRuntime /\ future'[id].at = "failed" =>
                future[id].at = "failed" \/ ~runtime[future[id].to].alive,
         runtime' \in Seq(RuntimeRecs), Len(runtime') = Len(runtime),
         \A p \in 1..Len(runtime) : runtime'[p].alive = runtime[p].alive,
         reader' \in Seq(ReaderRecs), Len(reader') = Len(reader),
         \A r \in DOMAIN reader' : reader'[r].on \in 1..Len(runtime)
  PROVE  PInv'
<1>0. Issued' = Issued BY DEF Issued
<1>1. TypeOK' BY <1>0 DEF PInv, TypeOK, RuntimeRecs, ReaderRecs, FutureRecs
<1>2. SpawnsOK' BY <1>0 DEF PInv, SpawnsOK, At
<1>3. ClientOK' /\ ReadersOK' BY DEF PInv, ClientOK, ReadersOK
<1>4. WorkersOK' BY <1>0 DEF PInv, WorkersOK
<1>5. FuturesOK' BY <1>0 DEF PInv, FuturesOK
<1>6. FailedOnlyAtEnd'
  <2> SUFFICES ASSUME OneRuntime', NEW id \in 1..Issued, future'[id].at = "failed"
               PROVE  ~runtime'[future'[id].to].alive
    BY <1>0 DEF FailedOnlyAtEnd
  <2>1. OneRuntime BY DEF OneRuntime
  <2>2. future[id].to \in 1..Len(runtime) BY DEF PInv, FuturesOK
  <2>3. ~runtime[future[id].to].alive BY <2>1 DEF PInv, FailedOnlyAtEnd
  <2> QED BY <2>2, <2>3
<1> QED BY <1>1, <1>2, <1>3, <1>4, <1>5, <1>6 DEF PInv

(* An answer is routed to the future of its own request, or the reader dies.      *)
LEMMA ReadStep ==
  ASSUME PInv, NEW r \in DOMAIN reader, Read(r)
  PROVE  PInv'
<1>0. /\ TypeOK /\ process \in 0..Len(runtime) /\ Len(runtime) \in Nat
      /\ runtime \in Seq(RuntimeRecs)
      /\ \A p \in 1..Len(runtime) : runtime[p] \in RuntimeRecs /\ p \in Runtimes
      /\ reader \in Seq(ReaderRecs) /\ Len(reader) = Len(runtime)
      /\ DOMAIN reader = 1..Len(reader) /\ \A q \in DOMAIN reader : reader[q] \in ReaderRecs
      /\ future \in Seq(FutureRecs) /\ DOMAIN future = 1..Issued
      /\ pending \subseteq 1..Issued /\ \A id \in 1..Issued : future[id] \in FutureRecs
  BY Types DEF PInv
<1> DEFINE p == reader[r].on
<1>1. /\ p \in 1..Len(runtime) /\ runtime[p].output # <<>> /\ runtime[p] \in RuntimeRecs
      /\ Took(p) /\ (Route(r) \/ Reject(r))
      /\ UNCHANGED <<worker, process, readerTask, closer, mishaps>>
      /\ \A q \in DOMAIN reader : reader[q].on \in 1..Len(runtime)
  BY <1>0 DEF Read, PInv, ReadersOK
<1>2. /\ runtime' \in Seq(RuntimeRecs) /\ Len(runtime') = Len(runtime)
      /\ \A q \in 1..Len(runtime) : runtime'[q].alive = runtime[q].alive
  <2> DEFINE rec == [runtime[p] EXCEPT !.output = Tail(@)]
  <2>0. Tail(runtime[p].output) \in Seq({Garbage} \cup Ids)
    <3>1. runtime[p].output \in Seq({Garbage} \cup Ids) BY <1>1 DEF RuntimeRecs
    <3> QED BY <1>1, <3>1, HeadTailProperties
  <2>1. rec \in RuntimeRecs /\ rec.alive = runtime[p].alive BY <1>1, <2>0 DEF RuntimeRecs
  <2>2. runtime' = [runtime EXCEPT ![p] = rec] BY <1>1 DEF Took
  <2> HIDE DEF rec
  <2> QED BY <1>0, <1>1, <2>1, <2>2, ExceptSeq
<1>3. /\ reader' \in Seq(ReaderRecs) /\ Len(reader') = Len(reader)
      /\ \A q \in DOMAIN reader' : reader'[q].on \in 1..Len(runtime)
  <2> DEFINE dead == [reader[r] EXCEPT !.at = "dead"]
  <2>1. dead \in ReaderRecs /\ dead.on \in 1..Len(runtime) BY <1>0, <1>1 DEF ReaderRecs
  <2>2. NextRead(r) \in ReaderRecs /\ NextRead(r).on \in 1..Len(runtime)
    <3>1. process # 0 => /\ [at |-> "read", on |-> process] \in ReaderRecs
                         /\ process \in 1..Len(runtime)
      BY <1>0 DEF ReaderRecs
    <3> QED BY <2>1, <3>1 DEF NextRead
  <2>3. PICK rec \in ReaderRecs :
          rec.on \in 1..Len(runtime) /\ reader' = [reader EXCEPT ![r] = rec]
    <3>1. reader' = [reader EXCEPT ![r] = NextRead(r)] \/ reader' = [reader EXCEPT ![r] = dead]
      BY <1>1 DEF Route, Reject
    <3> HIDE DEF dead
    <3> QED BY <2>1, <2>2, <3>1
  <2> QED BY <1>0, <1>1, <2>3, ExceptSeq
<1>4. /\ future' \in Seq(FutureRecs) /\ Len(future') = Len(future) /\ pending' \subseteq pending
      /\ \A id \in 1..Issued :
           /\ future'[id].to = future[id].to
           /\ future[id].at = "answered" => future'[id].at = "answered"
           /\ future'[id].at = "answered" => future'[id].answer = id
           /\ future'[id].at = "failed" => future[id].at = "failed"
  <2>0. \A id \in 1..Issued : future[id].at = "answered" => future[id].answer = id
    BY DEF PInv, FuturesOK
  <2>1. CASE future' = future /\ pending' \subseteq pending BY <1>0, <2>0, <2>1
  <2>2. ASSUME NEW first \in pending, pending' = pending \ {first},
               future' = [future EXCEPT ![first].at = "answered", ![first].answer = first]
        PROVE  /\ future' \in Seq(FutureRecs) /\ Len(future') = Len(future)
               /\ pending' \subseteq pending
               /\ \A id \in 1..Issued :
                    /\ future'[id].to = future[id].to
                    /\ future[id].at = "answered" => future'[id].at = "answered"
                    /\ future'[id].at = "answered" => future'[id].answer = id
                    /\ future'[id].at = "failed" => future[id].at = "failed"
    <3> DEFINE rec == [future[first] EXCEPT !.at = "answered", !.answer = first]
    <3>1. first \in 1..Issued /\ first \in Ids BY <1>0, Types DEF Ids
    <3>2. /\ rec \in FutureRecs /\ rec.to = future[first].to
          /\ rec.at = "answered" /\ rec.answer = first
      BY <1>0, <3>1 DEF FutureRecs
    <3>3. future' = [future EXCEPT ![first] = rec] BY <2>2
    <3> HIDE DEF rec
    <3>4. /\ future' \in Seq(FutureRecs) /\ Len(future') = Len(future)
          /\ \A id \in 1..Issued : future'[id] = IF id = first THEN rec ELSE future[id]
      BY <1>0, <3>1, <3>2, <3>3, ExceptSeq DEF Issued
    <3> QED BY <2>0, <2>2, <3>2, <3>4
  <2>3. CASE Reject(r) BY <2>1, <2>3 DEF Reject
  <2>4. CASE Route(r)
    <3> DEFINE id == Head(runtime[reader[r].on].output)
    <3>1. CASE id \in pending /\ future[id].at = "cancelled" BY <2>1, <2>4, <3>1 DEF Route
    <3>2. CASE id \in pending /\ future[id].at # "cancelled" BY <2>2, <2>4, <3>2 DEF Route
    <3>3. CASE id \notin pending BY <2>1, <2>4, <3>3 DEF Route
    <3> QED BY <3>1, <3>2, <3>3
  <2> QED BY <1>1, <2>3, <2>4
<1> HIDE DEF p
<1> QED BY <1>1, <1>2, <1>3, <1>4, SettleStep

(* A future fails only in the hands of a reader whose process has ended.          *)
LEMMA FailPendingStep ==
  ASSUME PInv, NEW r \in DOMAIN reader, FailPending(r)
  PROVE  PInv'
<1>0. /\ TypeOK /\ Len(runtime) \in Nat /\ runtime \in Seq(RuntimeRecs)
      /\ reader \in Seq(ReaderRecs) /\ Len(reader) = Len(runtime)
      /\ DOMAIN reader = 1..Len(reader) /\ reader[r] \in ReaderRecs
      /\ Issued \in Nat /\ \A id \in 1..Issued : future[id] \in FutureRecs
      /\ pending \subseteq 1..Issued
  BY Types DEF PInv
<1>1. /\ ~runtime[reader[r].on].alive /\ reader[r].on \in 1..Len(runtime)
      /\ future' = AllFailed /\ pending' = {}
      /\ reader' = [reader EXCEPT ![r].at = "done"]
      /\ UNCHANGED <<worker, process, readerTask, runtime, closer, mishaps>>
      /\ \A q \in DOMAIN reader : reader[q].on \in 1..Len(runtime)
  BY DEF FailPending, PInv, ReadersOK
<1>2. /\ reader' \in Seq(ReaderRecs) /\ Len(reader') = Len(reader)
      /\ \A q \in DOMAIN reader' : reader'[q].on \in 1..Len(runtime)
  <2> DEFINE rec == [reader[r] EXCEPT !.at = "done"]
  <2>1. rec \in ReaderRecs /\ rec.on \in 1..Len(runtime) BY <1>0, <1>1 DEF ReaderRecs
  <2>2. reader' = [reader EXCEPT ![r] = rec] BY <1>1
  <2>3. \A q \in DOMAIN reader : reader[q].on \in 1..Len(runtime) BY <1>1
  <2> HIDE DEF rec
  <2>4. /\ reader' \in Seq(ReaderRecs) /\ Len(reader') = Len(reader)
        /\ \A q \in 1..Len(reader) : reader'[q] = IF q = r THEN rec ELSE reader[q]
    BY <1>0, <2>1, <2>2, ExceptSeq
  <2>5. DOMAIN reader' = 1..Len(reader) BY <1>0, <2>4, LenProperties
  <2> QED BY <1>0, <2>1, <2>3, <2>4, <2>5
<1>3. /\ future' \in Seq(FutureRecs) /\ Len(future') = Len(future)
      /\ \A id \in 1..Issued :
           future'[id] = IF id \in pending /\ future[id].at = "open"
                           THEN [future[id] EXCEPT !.at = "failed"] ELSE future[id]
  <2>1. \A id \in 1..Issued : [future[id] EXCEPT !.at = "failed"] \in FutureRecs
    BY <1>0 DEF FutureRecs
  <2>2. future' \in [1..Issued -> FutureRecs] BY <1>0, <1>1, <2>1 DEF AllFailed
  <2>3. future' \in Seq(FutureRecs) /\ Len(future') = Issued
    BY <1>0, <2>2, IsASeq, LenProperties
  <2> QED BY <1>1, <2>3 DEF AllFailed, Issued
<1>4. \A id \in 1..Issued :
        /\ future'[id].to = future[id].to
        /\ future[id].at = "answered" => future'[id].at = "answered"
        /\ future'[id].at = "answered" => future[id].at = "answered"
        /\ future'[id].answer = future[id].answer
  BY <1>0, <1>3 DEF FutureRecs
<1>5. \A id \in 1..Issued : future'[id].at = "answered" => future'[id].answer = id
  BY <1>4 DEF PInv, FuturesOK
<1>6. ASSUME OneRuntime, NEW id \in 1..Issued PROVE ~runtime[future[id].to].alive
  <2>1. future[id].to \in 1..Len(runtime) BY DEF PInv, FuturesOK
  <2>2. future[id].to = reader[r].on BY <1>0, <1>1, <1>6, <2>1 DEF OneRuntime
  <2> QED BY <1>1, <2>2
<1> QED BY <1>0, <1>1, <1>2, <1>3, <1>4, <1>5, <1>6, SettleStep

-----------------------------------------------------------------------------
(*****************************************************************************)
(* The workers.                                                              *)
(*****************************************************************************)
(* A worker goes back to nothing, or on to an answered future.                   *)
LEMMA ResumeStep ==
  ASSUME PInv, NEW w \in Workers, Resume(w)
  PROVE  PInv'
<1>1. /\ UNCHANGED <<future, pending, process, readerTask, runtime, reader, closer, mishaps>>
      /\ worker[w].at = "wait" /\ worker[w].id \in 1..Issued
      /\ worker \in [Workers -> [at : Waiting \cup {"idle", "answered"}, id : {0} \cup Ids]]
  BY DEF Resume, PInv, WorkersOK, TypeOK
<1>2. PICK rec \in [at : {"idle", "answered"}, id : {0} \cup Ids] :
        /\ worker' = [worker EXCEPT ![w] = rec]
        /\ rec.at = "answered" => rec.id \in 1..Issued /\ future[rec.id].at = "answered"
  <2> DEFINE answered == [worker[w] EXCEPT !.at = "answered"]
  <2>1. /\ answered \in [at : {"idle", "answered"}, id : {0} \cup Ids]
        /\ answered.id = worker[w].id
    BY <1>1
  <2>2. Idle \in [at : {"idle", "answered"}, id : {0} \cup Ids] /\ Idle.at = "idle" BY DEF Idle
  <2>3. CASE future[worker[w].id].at = "answered" /\ worker' = [worker EXCEPT ![w] = answered]
    BY <1>1, <2>1, <2>3
  <2>4. CASE worker' = [worker EXCEPT ![w] = Idle] BY <2>2, <2>4
  <2> QED BY <2>3, <2>4 DEF Resume
<1>3. Issued' = Issued BY <1>1 DEF Issued
<1>4. TypeOK' BY <1>1, <1>2, <1>3 DEF PInv, TypeOK, Waiting
<1>5. SpawnsOK'
  <2>1. At("spawn")' = At("spawn") BY <1>1, <1>2 DEF At
  <2> QED BY <1>1, <1>3, <2>1 DEF PInv, SpawnsOK
<1>6. WorkersOK' BY <1>1, <1>2, <1>3 DEF PInv, WorkersOK
<1>7. ClientOK' /\ ReadersOK' /\ FuturesOK' /\ FailedOnlyAtEnd'
  BY <1>1, <1>3 DEF PInv, ClientOK, ReadersOK, FuturesOK, FailedOnlyAtEnd, OneRuntime
<1> QED BY <1>4, <1>5, <1>6, <1>7 DEF PInv

(* A worker that starts a process, or gives that up, keeps the count.             *)
LEMMA SpawnCount ==
  ASSUME SpawnsOK, NEW w \in Workers
  PROVE  /\ Cardinality(At("spawn")) \in Nat
         /\ IsFiniteSet(At("spawn") \cup {w}) /\ IsFiniteSet(At("spawn") \ {w})
         /\ worker[w].at # "spawn" =>
              /\ Cardinality(At("spawn") \cup {w}) = Cardinality(At("spawn")) + 1
              /\ At("spawn") \ {w} = At("spawn")
         /\ worker[w].at = "spawn" =>
              Cardinality(At("spawn") \ {w}) = Cardinality(At("spawn")) - 1
<1>1. IsFiniteSet(At("spawn")) BY DEF SpawnsOK
<1>2. Cardinality(At("spawn")) \in Nat BY <1>1, FS_CardinalityType
<1>3. w \in At("spawn") <=> worker[w].at = "spawn" BY DEF At
<1> QED BY <1>1, <1>2, <1>3, FS_AddElement, FS_RemoveElement

(* connect() is begun, and a worker is cancelled wherever it is.                *)
LEMMA ConnectStep ==
  ASSUME PInv, NEW w \in Workers, Connect(w)
  PROVE  PInv'
<1>1. /\ UNCHANGED <<future, pending, process, readerTask, runtime, reader, closer, mishaps>>
      /\ worker[w].at # "spawn" /\ Fits /\ Len(runtime) + Cardinality(At("spawn")) < MaxRuntimes
      /\ worker' = [worker EXCEPT ![w] = [at |-> "spawn", id |-> 0]]
      /\ worker \in [Workers -> [at : Waiting \cup {"idle", "answered"}, id : {0} \cup Ids]]
  BY DEF Connect, PInv, TypeOK, Waiting
<1>2. Issued' = Issued BY <1>1 DEF Issued
<1>3. TypeOK' BY <1>1, <1>2 DEF PInv, TypeOK, Waiting
<1>4. SpawnsOK'
  <2>1. At("spawn")' = At("spawn") \cup {w} BY <1>1 DEF At
  <2>2. IsFiniteSet(At("spawn")') BY <2>1, SpawnCount DEF PInv
  <2>3. Cardinality(At("spawn")') = Cardinality(At("spawn")) + 1
    BY <1>1, <2>1, SpawnCount DEF PInv
  <2>4. /\ Cardinality(At("spawn")) \in Nat /\ Issued \in Nat /\ Len(runtime) \in Nat
        /\ MaxRequests \in Nat /\ MaxRuntimes \in Nat
    BY Types, SpawnCount DEF PInv
  <2> QED BY <1>1, <1>2, <2>2, <2>3, <2>4 DEF SpawnsOK, Fits
<1>5. WorkersOK' BY <1>1, <1>2 DEF PInv, WorkersOK
<1>6. ClientOK' /\ ReadersOK' /\ FuturesOK' /\ FailedOnlyAtEnd'
  BY <1>1, <1>2 DEF PInv, ClientOK, ReadersOK, FuturesOK, FailedOnlyAtEnd, OneRuntime
<1> QED BY <1>3, <1>4, <1>5, <1>6 DEF PInv

(* A worker that is cancelled in a request leaves what the others share.     *)
LEMMA CancelStep ==
  ASSUME PInv, NEW w \in Workers, Cancel(w)
  PROVE  PInv'
<1>1. /\ UNCHANGED <<pending, process, readerTask, runtime, reader, closer, mishaps>>
      /\ worker' = [worker EXCEPT ![w] = Idle]
      /\ worker \in [Workers -> [at : Waiting \cup {"idle", "answered"}, id : {0} \cup Ids]]
  BY DEF Cancel, PInv, TypeOK
<1>2. /\ future' \in Seq(FutureRecs) /\ Len(future') = Len(future)
      /\ \A id \in 1..Issued :
           /\ future'[id].to = future[id].to /\ future'[id].answer = future[id].answer
           /\ future'[id].at = "answered" <=> future[id].at = "answered"
           /\ future'[id].at = "failed" => future[id].at = "failed"
  <2>0. /\ future \in Seq(FutureRecs) /\ \A id \in 1..Issued : future[id] \in FutureRecs
    BY Types DEF PInv
  <2>1. CASE future' = future BY <2>0, <2>1
  <2>2. CASE /\ worker[w].at = "wait" /\ future[worker[w].id].at = "open"
             /\ future' = [future EXCEPT ![worker[w].id].at = "cancelled"]
    <3> DEFINE rec == [future[worker[w].id] EXCEPT !.at = "cancelled"]
    <3>1. worker[w].id \in 1..Issued BY <2>2 DEF PInv, WorkersOK
    <3>2. /\ rec \in FutureRecs /\ rec.to = future[worker[w].id].to
          /\ rec.answer = future[worker[w].id].answer /\ rec.at = "cancelled"
      BY <2>0, <3>1 DEF FutureRecs
    <3>3. future' = [future EXCEPT ![worker[w].id] = rec] BY <2>2
    <3> HIDE DEF rec
    <3>4. /\ future' \in Seq(FutureRecs) /\ Len(future') = Len(future)
          /\ \A id \in 1..Issued : future'[id] = IF id = worker[w].id THEN rec ELSE future[id]
      BY <2>0, <3>1, <3>2, <3>3, ExceptSeq DEF Issued
    <3> QED BY <2>2, <3>2, <3>4
  <2> QED BY <2>1, <2>2 DEF Cancel
<1>3. Issued' = Issued BY <1>2 DEF Issued
<1>4. TypeOK' BY <1>1, <1>2, <1>3 DEF PInv, TypeOK, Idle, FutureRecs
<1>5. SpawnsOK'
  <2>1. At("spawn")' = At("spawn") \ {w} BY <1>1 DEF At, Idle
  <2>2. IsFiniteSet(At("spawn")') BY <2>1, SpawnCount DEF PInv
  <2>3. Cardinality(At("spawn")') <= Cardinality(At("spawn"))
    <3>1. SpawnsOK /\ Cardinality(At("spawn")) \in Nat BY SpawnCount DEF PInv
    <3>2. CASE worker[w].at = "spawn"
      <4>1. Cardinality(At("spawn") \ {w}) = Cardinality(At("spawn")) - 1
        BY <3>1, <3>2, SpawnCount
      <4> QED BY <2>1, <3>1, <4>1
    <3>3. CASE worker[w].at # "spawn"
      <4>1. At("spawn") \ {w} = At("spawn") BY <3>1, <3>3, SpawnCount
      <4> QED BY <2>1, <3>1, <4>1
    <3> QED BY <3>2, <3>3
  <2>4. /\ Cardinality(At("spawn")) \in Nat /\ Issued \in Nat /\ Len(runtime) \in Nat
        /\ MaxRequests \in Nat /\ MaxRuntimes \in Nat
    BY Types, SpawnCount DEF PInv
  <2>5. Cardinality(At("spawn")') \in Nat BY <2>2, FS_CardinalityType
  <2> QED BY <1>1, <1>3, <2>2, <2>3, <2>4, <2>5 DEF PInv, SpawnsOK
<1>6. WorkersOK' BY <1>1, <1>2, <1>3 DEF PInv, WorkersOK, Idle
<1>7. ClientOK' /\ ReadersOK' BY <1>1 DEF PInv, ClientOK, ReadersOK
<1>8. FuturesOK' BY <1>1, <1>2, <1>3 DEF PInv, FuturesOK
<1>9. FailedOnlyAtEnd' BY <1>1, <1>2, <1>3 DEF PInv, FailedOnlyAtEnd, OneRuntime
<1> QED BY <1>4, <1>5, <1>6, <1>7, <1>8, <1>9 DEF PInv

(* What it is to write a request: a future is added, and the worker waits or has  *)
(* failed.                                                                   *)
LEMMA SubmitIs ==
  ASSUME PInv, NEW w \in Workers, NEW runtimes \in Seq(RuntimeRecs), NEW p \in 1..Len(runtimes),
         Len(runtimes) <= MaxRuntimes, Issued < MaxRequests, Submit(w, p, runtimes)
  PROVE  /\ future' \in Seq(FutureRecs) /\ Issued' = Issued + 1 /\ pending' \subseteq 1..Issued'
         /\ \A id \in 1..Issued : future'[id] = future[id]
         /\ future'[Issued + 1].at = "open" /\ future'[Issued + 1].to = p
         /\ runtime' \in Seq(RuntimeRecs) /\ Len(runtime') = Len(runtimes)
         /\ \A q \in 1..Len(runtimes) : runtime'[q].alive = runtimes[q].alive
         /\ \E rec \in [at : {"wait", "idle"}, id : {0} \cup Ids] :
              /\ worker' = [worker EXCEPT ![w] = rec]
              /\ rec.at = "wait" => rec.id \in 1..Issued'
<1> DEFINE id == Issued + 1
<1>0. /\ Issued \in Nat /\ pending \subseteq 1..Issued /\ future \in Seq(FutureRecs)
      /\ MaxRequests \in Nat /\ MaxRuntimes \in Nat /\ Len(runtimes) \in Nat
      /\ runtimes[p] \in RuntimeRecs
  BY Types, LenProperties, ElementOfSeq DEF PInv
<1>1. id \in Ids /\ id \in 1..(Issued + 1) /\ p \in Runtimes BY <1>0 DEF Ids, Runtimes
<1> DEFINE new == [at |-> "open", answer |-> 0, to |-> p]
<1>2. new \in FutureRecs /\ new.at = "open" /\ new.to = p BY <1>1 DEF FutureRecs
<1>3. future' = Append(future, new) /\ pending' = pending \cup {id} BY DEF Submit
<1> HIDE DEF new
<1>4. /\ future' \in Seq(FutureRecs) /\ Len(future') = Len(future) + 1
      /\ \A i \in 1..Len(future) : future'[i] = future[i]
      /\ future'[Len(future) + 1] = new
  BY <1>0, <1>2, <1>3, AppendProperties
<1>5. /\ Issued' = Issued + 1 /\ \A i \in 1..Issued : future'[i] = future[i]
      /\ future'[Issued + 1] = new
  BY <1>4 DEF Issued
<1>6. pending' \subseteq 1..Issued' BY <1>0, <1>3, <1>5
<1>7. /\ runtime' \in Seq(RuntimeRecs) /\ Len(runtime') = Len(runtimes)
      /\ \A q \in 1..Len(runtimes) : runtime'[q].alive = runtimes[q].alive
  <2>1. CASE runtime' = runtimes BY <2>1
  <2>2. CASE runtime' = [runtimes EXCEPT ![p].serving = @ \cup {id}]
    <3> DEFINE rec == [runtimes[p] EXCEPT !.serving = @ \cup {id}]
    <3>1. rec \in RuntimeRecs /\ rec.alive = runtimes[p].alive BY <1>0, <1>1 DEF RuntimeRecs
    <3>2. runtime' = [runtimes EXCEPT ![p] = rec] BY <2>2
    <3> HIDE DEF rec
    <3> QED BY <3>1, <3>2, ExceptSeq
  <2> QED BY <2>1, <2>2 DEF Submit
<1>8. \E rec \in [at : {"wait", "idle"}, id : {0} \cup Ids] :
        /\ worker' = [worker EXCEPT ![w] = rec]
        /\ rec.at = "wait" => rec.id \in 1..Issued'
  <2>1. CASE worker' = [worker EXCEPT ![w] = [at |-> "wait", id |-> id]]
    <3> DEFINE rec == [at |-> "wait", id |-> id]
    <3>1. rec \in [at : {"wait", "idle"}, id : {0} \cup Ids] /\ rec.id = id BY <1>1
    <3>2. worker' = [worker EXCEPT ![w] = rec] BY <2>1
    <3>3. rec.id \in 1..Issued' BY <1>1, <1>5, <3>1
    <3> HIDE DEF rec
    <3> QED BY <3>1, <3>2, <3>3
  <2>2. CASE worker' = [worker EXCEPT ![w] = Idle]
    <3>1. Idle \in [at : {"wait", "idle"}, id : {0} \cup Ids] /\ Idle.at # "wait" BY DEF Idle
    <3> QED BY <2>2, <3>1
  <2> QED BY <2>1, <2>2 DEF Submit
<1> QED BY <1>2, <1>4, <1>5, <1>6, <1>7, <1>8

(* A request that is written keeps the invariant, of a process that was there or   *)
(* of one that has just been started.                                         *)
LEMMA WrittenStep ==
  ASSUME PInv, NEW w \in Workers, UNCHANGED <<closer, mishaps>>,
         future' \in Seq(FutureRecs), Issued' = Issued + 1, pending' \subseteq 1..Issued',
         \A id \in 1..Issued : future'[id] = future[id],
         future'[Issued + 1].at = "open", future'[Issued + 1].to \in 1..Len(runtime'),
         NEW rec \in [at : {"wait", "idle"}, id : {0} \cup Ids],
         worker' = [worker EXCEPT ![w] = rec], rec.at = "wait" => rec.id \in 1..Issued',
         runtime' \in Seq(RuntimeRecs), Len(runtime) <= Len(runtime'),
         \A p \in 1..Len(runtime) : runtime'[p].alive = runtime[p].alive,
         reader' \in Seq(ReaderRecs), Len(reader') = Len(runtime'),
         \A r \in DOMAIN reader' : reader'[r].on \in 1..Len(runtime'),
         process' \in 0..Len(runtime'), readerTask' = process', process # 0 => process' # 0,
         SpawnsOK'
  PROVE  PInv'
<1>0. /\ Issued \in Nat /\ Len(runtime) \in Nat /\ Len(runtime') \in Nat
      /\ MaxRequests \in Nat /\ MaxRuntimes \in Nat
      /\ worker \in [Workers -> [at : Waiting \cup {"idle", "answered"}, id : {0} \cup Ids]]
  BY Types, LenProperties DEF PInv, TypeOK
<1>1. Cardinality(At("spawn"))' \in Nat BY FS_CardinalityType DEF SpawnsOK
<1>2. Issued' <= MaxRequests /\ Len(runtime') <= MaxRuntimes BY <1>0, <1>1 DEF SpawnsOK
<1>3. worker' \in [Workers -> [at : Waiting \cup {"idle", "answered"}, id : {0} \cup Ids]]
  BY <1>0 DEF Waiting
<1>4. TypeOK'
  <2>1. {process', readerTask'} \subseteq 0..Len(runtime') OBVIOUS
  <2>2. /\ closer' \in [at : {"idle", "stdin", "reader", "exit", "replaced"},
                        on : {0} \cup Runtimes]
        /\ mishaps' \in 0..MaxMishaps
    BY DEF PInv, TypeOK
  <2> QED BY <1>2, <1>3, <2>1, <2>2 DEF TypeOK, FutureRecs, RuntimeRecs, ReaderRecs
<1>5. ClientOK'
  <2>1. ClientOK BY DEF PInv
  <2>2. 1..Len(runtime) \subseteq 1..Len(runtime') BY <1>0
  <2> QED BY <2>1, <2>2 DEF ClientOK
<1>6. ReadersOK' BY DEF ReadersOK
<1>7. 1..Issued' = 1..Issued \cup {Issued + 1} /\ Issued + 1 \notin 1..Issued BY <1>0
<1>8. WorkersOK'
  <2> SUFFICES ASSUME NEW v \in Workers
               PROVE  /\ worker'[v].at \in {"wait", "answered"} => worker'[v].id \in 1..Issued'
                      /\ worker'[v].at = "answered" => future'[worker'[v].id].at = "answered"
    BY DEF WorkersOK
  <2>1. CASE v = w BY <1>0, <2>1
  <2>2. CASE v # w
    <3>1. worker'[v] = worker[v] BY <1>0, <2>2
    <3>2. /\ worker[v].at \in {"wait", "answered"} => worker[v].id \in 1..Issued
          /\ worker[v].at = "answered" => future[worker[v].id].at = "answered"
      BY DEF PInv, WorkersOK
    <3> QED BY <1>7, <3>1, <3>2
  <2> QED BY <2>1, <2>2
<1>9. FuturesOK'
  <2> SUFFICES ASSUME NEW id \in 1..Issued'
               PROVE  /\ future'[id].to \in 1..Len(runtime')
                      /\ future'[id].at = "answered" => future'[id].answer = id
    BY DEF FuturesOK
  <2>1. CASE id \in 1..Issued
    <3>1. /\ future[id].to \in 1..Len(runtime)
          /\ future[id].at = "answered" => future[id].answer = id
      BY <2>1 DEF PInv, FuturesOK
    <3>2. future'[id] = future[id] BY <2>1
    <3>3. 1..Len(runtime) \subseteq 1..Len(runtime') BY <1>0
    <3> QED BY <3>1, <3>2, <3>3
  <2>2. CASE id = Issued + 1 BY <2>2
  <2> QED BY <1>7, <2>1, <2>2
<1>10. FailedOnlyAtEnd'
  <2> SUFFICES ASSUME OneRuntime', NEW id \in 1..Issued', future'[id].at = "failed"
               PROVE  ~runtime'[future'[id].to].alive
    BY DEF FailedOnlyAtEnd
  <2>1. id \in 1..Issued /\ future'[id] = future[id] BY <1>7
  <2>2. OneRuntime BY <1>0 DEF OneRuntime
  <2>3. ~runtime[future[id].to].alive /\ future[id].to \in 1..Len(runtime)
    BY <2>1, <2>2 DEF PInv, FailedOnlyAtEnd, FuturesOK
  <2> QED BY <2>1, <2>3
<1> QED BY <1>4, <1>5, <1>6, <1>8, <1>9, <1>10 DEF PInv

(* A request to the process that the client holds, and one that starts it.       *)
LEMMA RequestStep ==
  ASSUME PInv, NEW w \in Workers, Request(w)
  PROVE  PInv'
<1>0. /\ Issued \in Nat /\ Len(runtime) \in Nat /\ MaxRequests \in Nat /\ MaxRuntimes \in Nat
      /\ runtime \in Seq(RuntimeRecs) /\ Len(runtime) <= MaxRuntimes
      /\ process \in 0..Len(runtime) /\ reader \in Seq(ReaderRecs) /\ Len(reader) = Len(runtime)
  BY Types DEF PInv
<1>1. /\ UNCHANGED <<process, readerTask, reader, closer, mishaps>> /\ process # 0
      /\ worker[w].at # "spawn" /\ Fits /\ Submit(w, process, runtime)
      /\ worker \in [Workers -> [at : Waiting \cup {"idle", "answered"}, id : {0} \cup Ids]]
  BY DEF Request, Waiting, PInv, TypeOK
<1>2. Cardinality(At("spawn")) \in Nat /\ SpawnsOK BY SpawnCount DEF PInv
<1>3. Issued < MaxRequests /\ process \in 1..Len(runtime) BY <1>0, <1>1, <1>2 DEF Fits
<1>4. /\ future' \in Seq(FutureRecs) /\ Issued' = Issued + 1 /\ pending' \subseteq 1..Issued'
      /\ \A id \in 1..Issued : future'[id] = future[id]
      /\ future'[Issued + 1].at = "open" /\ future'[Issued + 1].to = process
      /\ runtime' \in Seq(RuntimeRecs) /\ Len(runtime') = Len(runtime)
      /\ \A q \in 1..Len(runtime) : runtime'[q].alive = runtime[q].alive
      /\ \E rec \in [at : {"wait", "idle"}, id : {0} \cup Ids] :
           /\ worker' = [worker EXCEPT ![w] = rec]
           /\ rec.at = "wait" => rec.id \in 1..Issued'
  BY <1>0, <1>1, <1>3, SubmitIs
<1>5. PICK rec \in [at : {"wait", "idle"}, id : {0} \cup Ids] :
        /\ worker' = [worker EXCEPT ![w] = rec]
        /\ rec.at = "wait" => rec.id \in 1..Issued'
  BY <1>4
<1>6. SpawnsOK'
  <2>1. At("spawn")' = At("spawn") BY <1>1, <1>5 DEF At
  <2> QED BY <1>0, <1>1, <1>2, <1>4, <2>1 DEF SpawnsOK, Fits
<1>7. readerTask' = process' /\ \A r \in DOMAIN reader' : reader'[r].on \in 1..Len(runtime')
  BY <1>1, <1>4 DEF PInv, ClientOK, ReadersOK
<1>8. /\ Len(runtime) <= Len(runtime') /\ reader' \in Seq(ReaderRecs)
      /\ Len(reader') = Len(runtime') /\ process' \in 0..Len(runtime') /\ process' # 0
      /\ future'[Issued + 1].to \in 1..Len(runtime') /\ UNCHANGED <<closer, mishaps>>
  BY <1>0, <1>1, <1>3, <1>4
<1> QED BY <1>4, <1>5, <1>6, <1>7, <1>8, WrittenStep

(* A new process, and its reader, are those the client refers to.            *)
LEMMA SpawnedStep ==
  ASSUME PInv, NEW w \in Workers, Spawned(w)
  PROVE  PInv'
<1> DEFINE p   == Len(runtime) + 1
           new == [alive |-> TRUE, stuck |-> FALSE, stdin |-> "open",
                   serving |-> {}, output |-> <<>>]
           runtimes == Append(runtime, new)
<1>0. /\ Issued \in Nat /\ Len(runtime) \in Nat /\ MaxRequests \in Nat /\ MaxRuntimes \in Nat
      /\ runtime \in Seq(RuntimeRecs) /\ reader \in Seq(ReaderRecs) /\ Len(reader) = Len(runtime)
  BY Types DEF PInv
<1>1. /\ UNCHANGED <<closer, mishaps>> /\ worker[w].at = "spawn"
      /\ process' = p /\ readerTask' = p /\ Submit(w, p, runtimes)
      /\ reader' = Append(reader, [at |-> IF At("spawn") = {w} THEN "read" ELSE "start", on |-> p])
      /\ worker \in [Workers -> [at : Waiting \cup {"idle", "answered"}, id : {0} \cup Ids]]
  BY DEF Spawned, PInv, TypeOK
<1>2. /\ Cardinality(At("spawn")) \in Nat /\ SpawnsOK
      /\ Cardinality(At("spawn") \ {w}) = Cardinality(At("spawn")) - 1
      /\ IsFiniteSet(At("spawn") \ {w}) /\ Cardinality(At("spawn") \ {w}) \in Nat
  BY <1>1, SpawnCount, FS_CardinalityType DEF PInv
<1>3. Issued < MaxRequests /\ p <= MaxRuntimes /\ p \in Runtimes
  BY <1>0, <1>2 DEF SpawnsOK, Runtimes
<1>4. new \in RuntimeRecs BY DEF RuntimeRecs
<1>5. /\ runtimes \in Seq(RuntimeRecs) /\ Len(runtimes) = p /\ p \in 1..Len(runtimes)
      /\ \A q \in 1..Len(runtime) : runtimes[q] = runtime[q]
  <2> HIDE DEF new
  <2> QED BY <1>0, <1>4, AppendProperties
<1> HIDE DEF runtimes
<1>6. /\ future' \in Seq(FutureRecs) /\ Issued' = Issued + 1 /\ pending' \subseteq 1..Issued'
      /\ \A id \in 1..Issued : future'[id] = future[id]
      /\ future'[Issued + 1].at = "open" /\ future'[Issued + 1].to = p
      /\ runtime' \in Seq(RuntimeRecs) /\ Len(runtime') = Len(runtimes)
      /\ \A q \in 1..Len(runtimes) : runtime'[q].alive = runtimes[q].alive
      /\ \E rec \in [at : {"wait", "idle"}, id : {0} \cup Ids] :
           /\ worker' = [worker EXCEPT ![w] = rec]
           /\ rec.at = "wait" => rec.id \in 1..Issued'
  BY <1>1, <1>3, <1>5, SubmitIs
<1>7. PICK rec \in [at : {"wait", "idle"}, id : {0} \cup Ids] :
        /\ worker' = [worker EXCEPT ![w] = rec]
        /\ rec.at = "wait" => rec.id \in 1..Issued'
  BY <1>6
<1>8. SpawnsOK'
  <2>1. At("spawn")' = At("spawn") \ {w} BY <1>1, <1>7 DEF At
  <2>2. /\ Issued + Cardinality(At("spawn")) <= MaxRequests
        /\ Len(runtime) + Cardinality(At("spawn")) <= MaxRuntimes
    BY <1>2 DEF SpawnsOK
  <2>3. Issued' = Issued + 1 /\ Len(runtime') = Len(runtime) + 1 BY <1>5, <1>6
  <2>4. /\ Issued' + Cardinality(At("spawn") \ {w}) <= MaxRequests
        /\ Len(runtime') + Cardinality(At("spawn") \ {w}) <= MaxRuntimes
    BY <1>0, <1>2, <2>2, <2>3
  <2> QED BY <1>2, <2>1, <2>4 DEF SpawnsOK
<1>9. /\ reader' \in Seq(ReaderRecs) /\ Len(reader') = Len(runtime')
      /\ \A r \in DOMAIN reader' : reader'[r].on \in 1..Len(runtime')
  <2> DEFINE at == IF At("spawn") = {w} THEN "read" ELSE "start"
             begun == [at |-> at, on |-> p]
  <2>1. begun \in ReaderRecs /\ begun.on = p BY <1>3 DEF ReaderRecs
  <2>2. reader' = Append(reader, begun) BY <1>1
  <2> HIDE DEF begun
  <2>3. /\ reader' \in Seq(ReaderRecs) /\ Len(reader') = p
        /\ \A r \in 1..Len(reader) : reader'[r] = reader[r]
        /\ reader'[p] = begun
    BY <1>0, <2>1, <2>2, AppendProperties
  <2>4. DOMAIN reader' = 1..Len(reader) \cup {p} BY <1>0, <2>3, LenProperties
  <2>5. \A r \in 1..Len(reader) : reader[r].on \in 1..Len(runtime)
    BY <1>0, LenProperties DEF PInv, ReadersOK
  <2>6. Len(runtime') = p /\ 1..Len(runtime) \subseteq 1..p /\ p \in 1..p BY <1>0, <1>5, <1>6
  <2>7. ASSUME NEW r \in DOMAIN reader' PROVE reader'[r].on \in 1..p
    <3>1. CASE r \in 1..Len(reader) BY <2>3, <2>5, <2>6, <3>1
    <3>2. CASE r = p BY <2>1, <2>3, <2>6, <3>2
    <3> QED BY <2>4, <3>1, <3>2
  <2> HIDE DEF p
  <2> QED BY <2>3, <2>6, <2>7
<1>10. \A q \in 1..Len(runtime) : runtime'[q].alive = runtime[q].alive
  BY <1>0, <1>5, <1>6
<1>11. process' \in 0..Len(runtime') /\ readerTask' = process' /\ process' # 0
       /\ future'[Issued + 1].to \in 1..Len(runtime') /\ Len(runtime) <= Len(runtime')
  BY <1>0, <1>1, <1>5, <1>6
<1> QED BY <1>1, <1>6, <1>7, <1>8, <1>9, <1>10, <1>11, WrittenStep

-----------------------------------------------------------------------------
(*****************************************************************************)
(* The theorems.                                                             *)
(*****************************************************************************)
(* The invariant is inductive.                                                 *)
LEMMA InitPInv == Init => PInv
<1> SUFFICES ASSUME Init PROVE PInv
  OBVIOUS
<1>1. /\ worker = [w \in Workers |-> Idle] /\ future = <<>> /\ pending = {}
      /\ process = 0 /\ readerTask = 0 /\ runtime = <<>> /\ reader = <<>>
      /\ closer = Out("idle") /\ mishaps = 0
  BY DEF Init
<1>2. /\ <<>> \in Seq(FutureRecs) /\ <<>> \in Seq(RuntimeRecs) /\ <<>> \in Seq(ReaderRecs)
      /\ Len(<<>>) = 0 /\ DOMAIN <<>> = {}
  OBVIOUS
<1>3. MaxRequests \in Nat /\ MaxRuntimes \in Nat /\ MaxMishaps \in Nat BY BoundsAssumption
<1>4. Issued = 0 /\ 1..0 = {} /\ 0 \in 0..MaxMishaps BY <1>1, <1>2, <1>3 DEF Issued
<1>5. TypeOK
  <2>1. /\ worker \in [Workers -> [at : Waiting \cup {"idle", "answered"}, id : {0} \cup Ids]]
        /\ closer \in [at : {"idle", "stdin", "reader", "exit", "replaced"},
                       on : {0} \cup Runtimes]
    BY <1>1 DEF Idle, Out
  <2>2. Issued <= MaxRequests /\ Len(runtime) <= MaxRuntimes /\ {process, readerTask} \subseteq 0..0
    BY <1>1, <1>2, <1>3, <1>4
  <2> QED BY <1>1, <1>2, <1>4, <2>1, <2>2 DEF TypeOK, FutureRecs, RuntimeRecs, ReaderRecs
<1>6. SpawnsOK
  <2>1. At("spawn") = {} BY <1>1 DEF At, Idle
  <2> QED BY <1>1, <1>2, <1>3, <1>4, <2>1, FS_EmptySet DEF SpawnsOK
<1>7. ClientOK /\ ReadersOK /\ WorkersOK
  BY <1>1, <1>2 DEF ClientOK, ReadersOK, WorkersOK, Out, Idle
<1>8. FuturesOK /\ FailedOnlyAtEnd BY <1>4 DEF FuturesOK, FailedOnlyAtEnd
<1> QED BY <1>5, <1>6, <1>7, <1>8 DEF PInv

(* Every action keeps the invariant.                                           *)
LEMMA NextPInv == PInv /\ [Next]_vars => PInv'
<1> SUFFICES ASSUME PInv, [Next]_vars PROVE PInv'
  OBVIOUS
<1>1. CASE UNCHANGED vars
  BY <1>1 DEF vars, PInv, TypeOK, SpawnsOK, At, Issued, ClientOK, ReadersOK, WorkersOK, FuturesOK,
              FailedOnlyAtEnd, OneRuntime
<1>2. ASSUME NEW w \in Workers, Request(w) \/ Connect(w) \/ WorkerStep(w) \/ Cancel(w)
      PROVE  PInv'
  BY <1>2, RequestStep, ConnectStep, SpawnedStep, ResumeStep, CancelStep DEF WorkerStep
<1>3. ASSUME NEW p \in DOMAIN runtime, RuntimeStep(p) \/ Garble(p) \/ FillLog(p) \/ Crash(p)
      PROVE  PInv'
  BY <1>3, RuntimeSteps
<1>4. ASSUME NEW r \in DOMAIN reader, ReaderStep(r) PROVE PInv'
  BY <1>4, ReaderAndCloserSteps, ReadStep, FailPendingStep DEF ReaderStep
<1>5. CASE Reconnect \/ CloserStep BY <1>5, ReaderAndCloserSteps
<1> QED BY <1>1, <1>2, <1>3, <1>4, <1>5 DEF Next

(* It holds in every reachable state.                                          *)
LEMMA AlwaysPInv == Spec => []PInv
BY InitPInv, NextPInv, PTL DEF Spec

(* The variables have their types; in particular no runtime is started, and no     *)
(* request written, but within the bounds of the model.                        *)
THEOREM ClientTypes == Spec => []TypeOK
<1>1. PInv => TypeOK BY DEF PInv
<1> QED BY <1>1, AlwaysPInv, PTL

(* However many workers share the client, are cancelled, reconnect it or lose its   *)
(* runtime: a worker that is given an answer is given his own, and a request that   *)
(* fails was sent to a runtime that has ended, if there was no second one.       *)
THEOREM AnswersReachTheirOwners == Spec => []AnswersAreFaithful
<1>1. PInv => AnswersAreFaithful
  <2> SUFFICES ASSUME PInv PROVE AnswersAreFaithful
    OBVIOUS
  <2>1. OwnAnswer BY DEF PInv, WorkersOK, FuturesOK, OwnAnswer
  <2> QED BY <2>1 DEF PInv, AnswersAreFaithful
<1> QED BY <1>1, AlwaysPInv, PTL
=============================================================================
