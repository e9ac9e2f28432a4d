----------------------------- MODULE ServicesProofs -----------------------------
(*****************************************************************************)
(* Proofs about the services of the runtime in their composition: the event     *)
(* history, the checkpoints, the conversation, the authorization of MCP servers, *)
(* skills and artifacts, for every value of their constants; and the types of all *)
(* the components that run side by side, those of the tools and of the TUI too.  *)
(*****************************************************************************)
EXTENDS TuiProofs, ToolGatewayProofs

-----------------------------------------------------------------------------
(*****************************************************************************)
(* The event history, scanned.                                                 *)
(*****************************************************************************)
AnswerTypes == {"resumed", "failed", "completed"}

(* The places of the events of some types, and the last of them, 0 if there is none. *)
EventPlaces(types) == {i \in 1..Len(sEvents) : sEvents[i].type \in types}
IsLast(i, places) == IF places = {} THEN i = 0 ELSE i \in places /\ \A j \in places : j <= i

(* What the journal keeps is what a scan finds: a, r and w are the places of the last  *)
(* question, the last answer and the last pause.                                *)
Keeps(a, r, w) ==
  /\ IsLast(a, EventPlaces({"approval"})) /\ IsLast(r, EventPlaces(AnswerTypes)) /\ IsLast(w, EventPlaces({"paused"}))
  /\ sJournal.open \in BOOLEAN /\ (sJournal.open <=> a > r)
  /\ sJournal.asked = IF a = 0 THEN NoneAsked ELSE sEvents[a].approval
  /\ sJournal.paused = IF w = 0 THEN "none" ELSE sEvents[w].reason
  /\ sEvents # <<>> => sJournal.last = sEvents[Len(sEvents)].type
ScanInv ==
  /\ sEvents \in Seq(Scan!Publishable) /\ DOMAIN sJournal = {"last", "open", "asked", "paused"}
  /\ \E a \in Nat, r \in Nat, w \in Nat : Keeps(a, r, w)

(* A step of the composition is one of the history, or leaves it alone.      *)
LEMMA ScanSteps == [ServicesNext]_services => [Scan!Next]_scanVars
BY DEF ServicesNext, services, Resting

(* An approval is asked for by name, a pause has a reason.                      *)
LEMMA PublishableEvents ==
  ASSUME NEW e \in Scan!Publishable
  PROVE  /\ e.type \in {"other", "resumed", "completed", "failed", "approval", "paused"}
         /\ e.type = "approval" => e.approval # NoneAsked
         /\ e.type = "paused" => e.reason # "none"
BY NamedAssumption
   DEF Scan!Publishable, Scan!Plain, Scan!Asked, Scan!Paused, Scan!PauseReasons

(* An empty history holds no event of any type.                             *)
LEMMA ScanInit == Scan!Init => ScanInv
<1> SUFFICES ASSUME Scan!Init PROVE ScanInv
  OBVIOUS
<1>1. sEvents = <<>> /\ sJournal = Scan!NoEvents BY DEF Scan!Init
<1>2. sEvents \in Seq(Scan!Publishable) /\ \A types : EventPlaces(types) = {} BY <1>1 DEF EventPlaces
<1>3. Keeps(0, 0, 0)
  <2>1. \A types : IsLast(0, EventPlaces(types)) BY <1>2 DEF IsLast
  <2>2. /\ sJournal.open \in BOOLEAN /\ ~sJournal.open
        /\ sJournal.asked = NoneAsked /\ sJournal.paused = "none"
    BY <1>1 DEF Scan!NoEvents
  <2> QED BY <1>1, <2>1, <2>2 DEF Keeps
<1>4. DOMAIN sJournal = {"last", "open", "asked", "paused"} BY <1>1 DEF Scan!NoEvents
<1> QED BY <1>2, <1>3, <1>4 DEF ScanInv

(* The last place after one more event.                                        *)
LEMMA LastPlace ==
  ASSUME sEvents \in Seq(Scan!Publishable), NEW e \in Scan!Publishable, sEvents' = Append(sEvents, e),
         NEW types, NEW i \in Nat, IsLast(i, EventPlaces(types))
  PROVE  /\ e.type \in types => IsLast(Len(sEvents) + 1, EventPlaces(types)')
         /\ e.type \notin types => IsLast(i, EventPlaces(types)')
<1> DEFINE n == Len(sEvents) + 1
<1>1. /\ Len(sEvents) \in Nat /\ Len(sEvents') = n /\ sEvents'[n] = e
      /\ \A j \in 1..Len(sEvents) : sEvents'[j] = sEvents[j]
  OBVIOUS
<1>2. EventPlaces(types)' = EventPlaces(types) \cup (IF e.type \in types THEN {n} ELSE {})
  BY <1>1 DEF EventPlaces
<1>3. \A j \in EventPlaces(types) : j \in Nat /\ j < n BY <1>1 DEF EventPlaces
<1> QED BY <1>1, <1>2, <1>3 DEF IsLast

(* The journal of one more event is what a scan of one more event finds.     *)
LEMMA ScanPublish ==
  ASSUME ScanInv, NEW e \in Scan!Publishable, Scan!Publish(e)
  PROVE  ScanInv'
<1> DEFINE n == Len(sEvents) + 1
<1>1. /\ sEvents \in Seq(Scan!Publishable) /\ sEvents' = Append(sEvents, e)
      /\ sJournal' = Scan!AppendEvent(sJournal, e)
  BY DEF ScanInv, Scan!Publish
<1>2. /\ sEvents' \in Seq(Scan!Publishable) /\ n \in Nat /\ n > 0 /\ Len(sEvents') = n /\ sEvents'[n] = e
      /\ \A j \in 1..Len(sEvents) : sEvents'[j] = sEvents[j]
  BY <1>1
<1>3. PICK a \in Nat, r \in Nat, w \in Nat : Keeps(a, r, w) BY DEF ScanInv
<1>12. PICK a1 \in Nat, r1 \in Nat, w1 \in Nat :
         /\ a1 = IF e.type = "approval" THEN n ELSE a
         /\ r1 = IF e.type \in AnswerTypes THEN n ELSE r
         /\ w1 = IF e.type = "paused" THEN n ELSE w
  BY <1>2
<1>4. a < n /\ r < n /\ w < n /\ (a # 0 => sEvents'[a] = sEvents[a]) /\ (w # 0 => sEvents'[w] = sEvents[w])
  <2>1. \A types : \A i \in Nat : IsLast(i, EventPlaces(types)) => i \in 0..Len(sEvents)
    BY <1>1 DEF IsLast, EventPlaces
  <2> QED BY <1>1, <1>2, <1>3, <2>1 DEF Keeps
<1>5. IsLast(a1, EventPlaces({"approval"})') BY <1>1, <1>2, <1>3, <1>12, LastPlace DEF Keeps
<1>6. IsLast(r1, EventPlaces(AnswerTypes)') BY <1>1, <1>2, <1>3, <1>12, LastPlace DEF Keeps
<1>7. IsLast(w1, EventPlaces({"paused"})') BY <1>1, <1>2, <1>3, <1>12, LastPlace DEF Keeps
<1>8. /\ sJournal'.last = e.type /\ DOMAIN sJournal' = {"last", "open", "asked", "paused"}
      /\ e.type = "approval" => sJournal'.open = TRUE
      /\ e.type # "approval" => sJournal'.open = (sJournal.open /\ e.type \notin AnswerTypes)
      /\ sJournal'.asked = IF e.type = "approval" THEN e.approval ELSE sJournal.asked
      /\ sJournal'.paused = IF e.type = "paused" THEN e.reason ELSE sJournal.paused
  BY <1>1 DEF Scan!AppendEvent, AnswerTypes
<1>9. sJournal'.open \in BOOLEAN /\ (sJournal'.open <=> a1 > r1)
  <2>1. CASE e.type = "approval"
    BY <1>2, <1>4, <1>8, <1>12, <2>1 DEF AnswerTypes
  <2>2. CASE e.type \in AnswerTypes
    <3>1. e.type # "approval" BY <2>2 DEF AnswerTypes
    <3>2. sJournal'.open = FALSE BY <1>8, <2>2, <3>1, Zenon
    <3>3. r1 = n /\ a1 = a BY <1>12, <2>2, <3>1
    <3>4. ~(a1 > r1) BY <1>2, <1>4, <3>3
    <3>5. sJournal'.open \in BOOLEAN /\ ~sJournal'.open BY <3>2, Zenon
    <3> QED BY <3>4, <3>5
  <2>3. CASE e.type # "approval" /\ e.type \notin AnswerTypes
    BY <1>3, <1>8, <1>12, <2>3 DEF Keeps
  <2> QED BY <2>1, <2>2, <2>3
<1>10. sJournal'.asked = IF a1 = 0 THEN NoneAsked ELSE sEvents'[a1].approval
  BY <1>2, <1>3, <1>4, <1>8, <1>12 DEF Keeps
<1>11. sJournal'.paused = IF w1 = 0 THEN "none" ELSE sEvents'[w1].reason
  BY <1>2, <1>3, <1>4, <1>8, <1>12 DEF Keeps
<1>13. sEvents' # <<>> => sJournal'.last = sEvents'[Len(sEvents')].type BY <1>2, <1>8
<1>14. Keeps(a1, r1, w1)'
  BY <1>5, <1>6, <1>7, <1>9, <1>10, <1>11, <1>13 DEF Keeps
<1> QED BY <1>2, <1>8, <1>12, <1>14 DEF ScanInv

(* The last place is what the scan of the code returns.                        *)
LEMMA LastIsMax ==
  ASSUME NEW places \in SUBSET Nat, NEW i \in Nat, IsLast(i, places)
  PROVE  i = IF places # {} THEN Scan!Max(places) ELSE 0
<1>1. CASE places # {}
  <2>1. \E x \in places : \A y \in places : x >= y BY <1>1 DEF IsLast
  <2>2. Scan!Max(places) \in places /\ \A y \in places : Scan!Max(places) >= y
    BY <2>1 DEF Scan!Max
  <2>3. i \in places /\ i >= Scan!Max(places) /\ Scan!Max(places) >= i BY <1>1, <2>2 DEF IsLast
  <2>4. i \in Nat /\ Scan!Max(places) \in Nat BY <2>2
  <2>5. i = Scan!Max(places) BY <2>3, <2>4
  <2> QED BY <1>1, <2>5
<1> QED BY <1>1 DEF IsLast

(* The three scans of the code, the two that look for a value among them.    *)
LEMMA ScanFinds ==
  ASSUME sEvents \in Seq(Scan!Publishable), NEW a \in Nat, NEW r \in Nat, NEW w \in Nat, Keeps(a, r, w)
  PROVE  /\ (Scan!HasUnresolvedApproval <=> a > r)
         /\ Scan!PendingApprovalId = IF a = 0 THEN NoneAsked ELSE sEvents[a].approval
         /\ \A status : Scan!PauseReasonFromEvents(status)
              = IF status = "awaiting_approval" THEN "awaiting_approval"
                ELSE IF w = 0 THEN "none" ELSE sEvents[w].reason
<1> DEFINE Asks    == {i \in 1..Len(sEvents) : sEvents[i].type = "approval"}
           Answers == {i \in 1..Len(sEvents) : sEvents[i].type \in {"resumed", "failed", "completed"}}
           Names   == {i \in 1..Len(sEvents) : sEvents[i].type = "approval" /\ sEvents[i].approval # NoneAsked}
           Reasons == {i \in 1..Len(sEvents) : sEvents[i].type = "paused" /\ sEvents[i].reason # "none"}
<1>1. \A i \in 1..Len(sEvents) : sEvents[i] \in Scan!Publishable OBVIOUS
<1>2. Asks = EventPlaces({"approval"}) /\ Names = EventPlaces({"approval"})
  BY <1>1, PublishableEvents DEF EventPlaces
<1>3. Answers = EventPlaces(AnswerTypes) BY DEF EventPlaces, AnswerTypes
<1>4. Reasons = EventPlaces({"paused"}) BY <1>1, PublishableEvents DEF EventPlaces
<1>5. \A types : EventPlaces(types) \in SUBSET Nat BY DEF EventPlaces
<1> HIDE DEF Asks, Answers, Names, Reasons
<1>6. /\ a = IF Asks # {} THEN Scan!Max(Asks) ELSE 0
      /\ a = IF Names # {} THEN Scan!Max(Names) ELSE 0
      /\ r = IF Answers # {} THEN Scan!Max(Answers) ELSE 0
      /\ w = IF Reasons # {} THEN Scan!Max(Reasons) ELSE 0
  BY <1>2, <1>3, <1>4, <1>5, LastIsMax DEF Keeps
<1> USE DEF Asks, Answers, Names, Reasons
<1>7. Scan!HasUnresolvedApproval <=> a > r
  BY <1>6 DEF Scan!HasUnresolvedApproval, Scan!Latest, Scan!SelectLastInSeq
<1>8. Scan!PendingApprovalId = IF a = 0 THEN NoneAsked ELSE sEvents[a].approval
  BY <1>6 DEF Scan!PendingApprovalId, Scan!Latest, Scan!SelectLastInSeq
<1>9. ASSUME NEW status
      PROVE  Scan!PauseReasonFromEvents(status)
              = IF status = "awaiting_approval" THEN "awaiting_approval"
                ELSE IF w = 0 THEN "none" ELSE sEvents[w].reason
  BY <1>6 DEF Scan!PauseReasonFromEvents, Scan!Latest, Scan!SelectLastInSeq
<1> QED BY <1>7, <1>8, <1>9

(* What a scan finds decides the record: a history that ends with a question is    *)
(* open, so the two ways to ask for the status agree.                         *)
LEMMA ScanRebuilds == ScanInv => RebuildsTheSame
<1> SUFFICES ASSUME ScanInv, sEvents # <<>>, NEW count \in 0..1, NEW final \in BOOLEAN
             PROVE  Scan!RebuildRunState([count |-> count, final |-> final])
                      = Scan!RecoveredRun(sJournal, [count |-> count, final |-> final])
  BY DEF RebuildsTheSame, Scan!RebuildsTheSame
<1> DEFINE ck == [count |-> count, final |-> final]
<1>1. PICK a \in Nat, r \in Nat, w \in Nat : Keeps(a, r, w) BY DEF ScanInv
<1>2. sEvents \in Seq(Scan!Publishable) BY DEF ScanInv
<1>3. /\ (Scan!HasUnresolvedApproval <=> sJournal.open) /\ Scan!PendingApprovalId = sJournal.asked
      /\ \A status : Scan!PauseReasonFromEvents(status) = Scan!RecoveredPause(sJournal, status)
  BY <1>1, <1>2, ScanFinds DEF Keeps, Scan!RecoveredPause
<1>4. sEvents[Len(sEvents)] \in Scan!Publishable /\ Len(sEvents) \in 1..Len(sEvents) BY <1>2
<1>5. /\ sJournal.last = sEvents[Len(sEvents)].type
      /\ sJournal.last \in {"other", "resumed", "completed", "failed", "approval", "paused"}
  BY <1>1, <1>4, PublishableEvents DEF Keeps
<1>6. sJournal.last = "approval" => sJournal.open
  <2> SUFFICES ASSUME sJournal.last = "approval" PROVE a > r
    BY <1>1 DEF Keeps
  <2>1. Len(sEvents) \in EventPlaces({"approval"}) BY <1>4, <1>5 DEF EventPlaces
  <2>2. \A types : \A i \in EventPlaces(types) : i \in 1..Len(sEvents) /\ sEvents[i].type \in types BY DEF EventPlaces
  <2>3. a = Len(sEvents) BY <1>1, <2>1, <2>2, <1>2 DEF Keeps, IsLast
  <2>4. r # Len(sEvents) BY <1>1, <1>4, <1>5, <2>2 DEF Keeps, IsLast, AnswerTypes
  <2> QED BY <1>1, <1>4, <2>2, <2>3, <2>4 DEF Keeps, IsLast
<1>7. Scan!StatusFromEvents(ck) = Scan!RecoveredStatus(sJournal, ck)
  BY <1>3, <1>5, <1>6 DEF Scan!StatusFromEvents, Scan!RecoveredStatus
<1> HIDE DEF ck
<1>8. Scan!RebuildRunState(ck) = Scan!RecoveredRun(sJournal, ck)
  BY <1>3, <1>7, Zenon DEF Scan!RebuildRunState, Scan!RecoveredRun
<1> QED BY <1>8 DEF ck

(* Whatever was published, in whatever order and of whatever length, a restart that     *)
(* scans the list (recovery_service.py) rebuilds what RecoveredRun computes from the *)
(* journal, the summary that every other module keeps in place of the list.       *)
THEOREM HistoryIsKept == ServicesSpec => []RebuildsTheSame
<1>1. ServicesInit => ScanInv BY ScanInit DEF ServicesInit
<1>2. ScanInv /\ [ServicesNext]_services => ScanInv'
  <2> SUFFICES ASSUME ScanInv, [Scan!Next]_scanVars PROVE ScanInv'
    BY ScanSteps
  <2>1. CASE Scan!Next BY <2>1, ScanPublish DEF Scan!Next
  <2>2. CASE UNCHANGED scanVars
    <3>1. PICK a \in Nat, r \in Nat, w \in Nat : Keeps(a, r, w) BY DEF ScanInv
    <3>2. sEvents' = sEvents /\ sJournal' = sJournal BY <2>2 DEF scanVars
    <3>3. \A types : EventPlaces(types)' = EventPlaces(types) BY <3>2 DEF EventPlaces
    <3>4. Keeps(a, r, w)' BY <3>1, <3>2, <3>3 DEF Keeps, IsLast
    <3> QED BY <3>2, <3>4 DEF ScanInv
  <2> QED BY <2>1, <2>2
<1> QED BY <1>1, <1>2, ScanRebuilds, PTL DEF ServicesSpec

-----------------------------------------------------------------------------
(*****************************************************************************)
(* The checkpoints: CheckpointAdapterProofs proves the component, and the        *)
(* composition takes no other step with its variables.                          *)
(*****************************************************************************)
KP == INSTANCE CheckpointAdapterProofs WITH
  Runs <- AgentRuns, Ids <- ThreadIds, Workers <- AgentThreads, MaxWrites <- MaxPuts,
  thread <- kThread, created <- kCreated, marked <- kMarked, disk <- kDisk, savers <- kSavers,
  cached <- kCached, controller <- kController, requested <- kRequested, worker <- kWorker,
  returned <- kReturned, writes <- kWrites, crashes <- kCrashes

(* The component of the composition and the one that is proved about are the same.     *)
LEMMA KInit == Checkpoints!Init => KP!Init
BY DEF Checkpoints!Init, KP!Init, Checkpoints!Callers, KP!Callers, Checkpoints!NoController,
   KP!NoController, Checkpoints!Free, KP!Free

(* Every step of a request, a worker or a crash is the same step of both.    *)
LEMMA KNext == Checkpoints!Next => KP!Next
BY Zenon DEF Checkpoints!Next, KP!Next,
   Checkpoints!Callers, KP!Callers, Checkpoints!kvars, KP!kvars, Checkpoints!stored, KP!stored,
   Checkpoints!NoController, KP!NoController, Checkpoints!Free, KP!Free, Checkpoints!At, KP!At,
   Checkpoints!Goes, KP!Goes, Checkpoints!Done, KP!Done, Checkpoints!Look, KP!Look,
   Checkpoints!Build, KP!Build, Checkpoints!Install, KP!Install, Checkpoints!Take, KP!Take,
   Checkpoints!BeginRun, KP!BeginRun, Checkpoints!Launch, KP!Launch,
   Checkpoints!Resume, KP!Resume, Checkpoints!Cancel, KP!Cancel,
   Checkpoints!Request, KP!Request, Checkpoints!Cancelled, KP!Cancelled,
   Checkpoints!StartsAnyway, KP!StartsAnyway, Checkpoints!NotCancelled, KP!NotCancelled,
   Checkpoints!Start, KP!Start, Checkpoints!End, KP!End, Checkpoints!SaverOf, KP!SaverOf,
   Checkpoints!Released, KP!Released, Checkpoints!Put, KP!Put, Checkpoints!Persist, KP!Persist,
   Checkpoints!SaveFails, KP!SaveFails, Checkpoints!Crash, KP!Crash

(* A step of the composition is one of the checkpoints, or leaves them       *)
(* alone.                                                                    *)
LEMMA KSteps == [ServicesNext]_services => [KP!Next]_(KP!kvars)
BY KNext DEF ServicesNext, services, Resting, checkpointVars, KP!kvars

(* So is what they promise.                                                  *)
LEMMA KSame == KP!ResumesWithEverything => ResumesWithEverything
BY DEF ResumesWithEverything, KP!ResumesWithEverything, Checkpoints!ResumesWithEverything,
   Checkpoints!At, KP!At, Checkpoints!SaverOf, KP!SaverOf

(* An execution, which may resume the run after another one or after a crash, holds     *)
(* the saver in the table of its thread, with every write whose call has returned,      *)
(* beside whatever else the process does.                                         *)
THEOREM PastIsComplete == ServicesSpec => []ResumesWithEverything
<1>1. ServicesInit => KP!IInv BY KP!InvInit, KInit, ThreadAssumption DEF ServicesInit
<1>2. KP!IInv /\ [ServicesNext]_services => KP!IInv' BY KP!InvStep, KSteps, ThreadAssumption
<1>3. KP!IInv => ResumesWithEverything
  BY KSame DEF KP!IInv, KP!RunOK, KP!SaversOK, KP!CallersOK, KP!ResumesWithEverything, KP!Holds
<1> QED BY <1>1, <1>2, <1>3, PTL DEF ServicesSpec

-----------------------------------------------------------------------------
(*****************************************************************************)
(* The conversation.                                                          *)
(*****************************************************************************)
Summaries == [cutoff : Nat, covers : SUBSET Nat]

(* Every stored summary covers the messages before its cutoff, which are there,   *)
(* and no one summarises messages that are not.                                *)
TalkInv ==
  /\ cMessages \in Seq({"user", "assistant"}) /\ cRecords \in Seq(Summaries)
  /\ \A n \in DOMAIN cRecords :
       cRecords[n].cutoff <= Len(cMessages) /\ cRecords[n].covers = 1..cRecords[n].cutoff
  /\ cReading \in [Talk!Actors -> Nat] /\ \A a \in Talk!Actors : cReading[a] <= Len(cMessages)
  /\ NothingForgotten

(* A step of the composition is one of the conversation, or leaves it        *)
(* alone.                                                                    *)
LEMMA TalkSteps == [ServicesNext]_services => [Talk!Next]_talkVars
BY DEF ServicesNext, services, Resting

(* An empty conversation has no summary.                                     *)
LEMMA TalkInit == Talk!Init => TalkInv
<1> SUFFICES ASSUME Talk!Init PROVE TalkInv
  OBVIOUS
<1>1. /\ cMessages = <<"user">> /\ cRecords = <<>> /\ cReading = [a \in Talk!Actors |-> 0]
      /\ cGiven = [covers |-> {}, tail |-> <<>>, length |-> 0]
  BY DEF Talk!Init
<1>2. cMessages \in Seq({"user", "assistant"}) /\ cRecords \in Seq(Summaries) /\ Len(cMessages) = 1
      /\ DOMAIN cRecords = {}
  BY <1>1
<1>3. NothingForgotten BY <1>1 DEF NothingForgotten, Talk!NothingForgotten
<1> QED BY <1>1, <1>2, <1>3 DEF TalkInv

(* A cutoff counts messages.                                                 *)
LEMMA TalkCutoffs == ASSUME TalkInv PROVE \A n \in DOMAIN cRecords : cRecords[n].cutoff \in Nat
<1>1. cRecords \in Seq(Summaries) BY DEF TalkInv
<1>2. \A n \in DOMAIN cRecords : cRecords[n] \in Summaries BY <1>1
<1> QED BY <1>2 DEF Summaries

(* What an execution is given: the messages up to a cutoff in the summary, and the *)
(* others as they are.                                                        *)
LEMMA TalkProjected ==
  ASSUME TalkInv
  PROVE  \E cut \in 0..Len(cMessages) :
           Talk!Projected = [covers |-> 1..cut, tail |-> Talk!From(cut), length |-> Len(cMessages)]
<1>1. CASE cRecords = <<>>
  <2>1. Talk!Projected = [covers |-> 1..0, tail |-> Talk!From(0), length |-> Len(cMessages)]
    BY <1>1 DEF Talk!Projected
  <2>2. 0 \in 0..Len(cMessages) BY DEF TalkInv
  <2> QED BY <2>1, <2>2
<1>2. CASE cRecords # <<>>
  <2>1. Len(cRecords) \in DOMAIN cRecords
    BY <1>2 DEF TalkInv
  <2> DEFINE r == cRecords[Len(cRecords)]
  <2>2. r.cutoff \in Nat BY <2>1, TalkCutoffs
  <2>3. r.cutoff \in 0..Len(cMessages) /\ r.covers = 1..r.cutoff
    BY <2>1, <2>2 DEF TalkInv
  <2>4. Talk!Projected = [covers |-> 1..r.cutoff, tail |-> Talk!From(r.cutoff), length |-> Len(cMessages)]
    BY <1>2, <2>3 DEF Talk!Projected
  <2> QED BY <2>3, <2>4
<1> QED BY <1>1, <1>2

(* An execution that begins is given the summary and all that comes after    *)
(* its cutoff.                                                               *)
LEMMA TalkLoad == ASSUME TalkInv, Talk!Load PROVE TalkInv'
<1>1. PICK cut \in 0..Len(cMessages) :
        cGiven' = [covers |-> 1..cut, tail |-> Talk!From(cut), length |-> Len(cMessages)]
  BY TalkProjected DEF Talk!Load
<1>2. Len(cMessages) \in Nat BY DEF TalkInv
<1> DEFINE tail == Talk!From(cut)
<1>3. DOMAIN tail = 1..Len(cMessages) - cut /\ \A i \in DOMAIN tail : tail[i] = cut + i
  BY DEF Talk!From
<1>4. {tail[i] : i \in DOMAIN tail} = (cut + 1)..Len(cMessages)
  <2>1. ASSUME NEW m \in (cut + 1)..Len(cMessages) PROVE m \in {tail[i] : i \in DOMAIN tail}
    <3>1. m - cut \in DOMAIN tail /\ tail[m - cut] = m BY <1>2, <1>3
    <3> QED BY <3>1
  <2>2. ASSUME NEW i \in DOMAIN tail PROVE tail[i] \in (cut + 1)..Len(cMessages)
    BY <1>2, <1>3
  <2> QED BY <2>1, <2>2
<1>5. cGiven'.covers = 1..cut /\ cGiven'.tail = tail /\ cGiven'.length = Len(cMessages)
  BY <1>1
<1> HIDE DEF tail
<1>6. NothingForgotten'
  BY <1>2, <1>3, <1>4, <1>5 DEF NothingForgotten, Talk!NothingForgotten
<1> QED BY <1>6 DEF TalkInv, Talk!Load

(* A message that is appended takes nothing from the others.                     *)
LEMMA TalkAppend ==
  ASSUME TalkInv, NEW role \in {"user", "assistant"}, Talk!Append1(role),
         UNCHANGED <<cRecords, cReading, cGiven>>
  PROVE  TalkInv'
<1>1. cMessages' \in Seq({"user", "assistant"}) /\ Len(cMessages') = Len(cMessages) + 1
      /\ Len(cMessages) \in Nat
  BY DEF TalkInv, Talk!Append1
<1>2. \A n \in DOMAIN cRecords : cRecords[n].cutoff \in Nat BY TalkCutoffs
<1> QED BY <1>1, <1>2 DEF TalkInv, NothingForgotten, Talk!NothingForgotten

(* A summary covers the messages up to its cutoff, also if some were         *)
(* appended while it was written.                                            *)
LEMMA TalkSummarise ==
  ASSUME TalkInv, NEW a \in Talk!Actors, NEW cutoff \in 1..MaxMessages, Talk!Summarise(a, cutoff)
  PROVE  TalkInv'
<1> DEFINE new == [cutoff |-> cutoff, covers |-> 1..cutoff]
<1>1. /\ cutoff \in 1..cReading[a] /\ cRecords' = Append(cRecords, new)
      /\ cReading' = [cReading EXCEPT ![a] = 0] /\ UNCHANGED <<cMessages, cGiven>>
  BY DEF Talk!Summarise, Talk!Done
<1>2. cReading[a] \in Nat /\ cReading[a] <= Len(cMessages) /\ Len(cMessages) \in Nat BY DEF TalkInv
<1>3. cutoff \in Nat /\ cutoff <= Len(cMessages) BY <1>1, <1>2
<1>4. new \in Summaries BY <1>3 DEF Summaries
<1>5. cRecords' \in Seq(Summaries) /\ Len(cRecords') = Len(cRecords) + 1 /\ Len(cRecords) \in Nat
      /\ \A n \in DOMAIN cRecords' : cRecords'[n] = IF n <= Len(cRecords) THEN cRecords[n] ELSE new
  BY <1>1, <1>4 DEF TalkInv
<1>6. \A n \in DOMAIN cRecords' :
        cRecords'[n].cutoff <= Len(cMessages') /\ cRecords'[n].covers = 1..cRecords'[n].cutoff
  BY <1>1, <1>3, <1>5 DEF TalkInv
<1>7. cReading' \in [Talk!Actors -> Nat] /\ \A b \in Talk!Actors : cReading'[b] <= Len(cMessages')
  BY <1>1, <1>2 DEF TalkInv
<1> QED BY <1>1, <1>5, <1>6, <1>7 DEF TalkInv, NothingForgotten, Talk!NothingForgotten

(* Every step of an execution, a client or a restart keeps the conversation  *)
(* whole.                                                                    *)
LEMMA TalkNext == TalkInv /\ [Talk!Next]_talkVars => TalkInv'
<1> SUFFICES ASSUME TalkInv, [Talk!Next]_talkVars PROVE TalkInv'
  OBVIOUS
<1> USE DEF NothingForgotten, Talk!NothingForgotten
<1>0. Len(cMessages) \in Nat BY DEF TalkInv
<1>1. CASE UNCHANGED talkVars BY <1>1 DEF TalkInv, talkVars
<1>2. CASE Talk!Launch BY <1>2 DEF Talk!Launch, TalkInv
<1>3. CASE Talk!Load BY <1>3, TalkLoad
<1>4. CASE Talk!AgentCompacts BY <1>4 DEF Talk!AgentCompacts, TalkInv
<1>5. CASE Talk!Return
  <2>1. CASE Talk!Append1("assistant") BY <1>5, <2>1, TalkAppend DEF Talk!Return
  <2>2. CASE UNCHANGED cMessages BY <1>5, <2>2 DEF Talk!Return, TalkInv
  <2> QED BY <1>5, <2>1, <2>2 DEF Talk!Return
<1>6. CASE Talk!Settle BY <1>6 DEF Talk!Settle, TalkInv
<1>7. CASE Talk!Reply BY <1>7, TalkAppend DEF Talk!Reply
<1>8. CASE \E c \in Compacters : Talk!ClientCompacts(c)
  BY <1>0, <1>8 DEF Talk!ClientCompacts, TalkInv, Talk!Actors
<1>9. CASE Talk!ExecutionCompacts
  BY <1>0, <1>9 DEF Talk!ExecutionCompacts, TalkInv, Talk!Actors
<1>10. ASSUME NEW a \in Talk!Actors, Talk!Skip(a) PROVE TalkInv'
  BY <1>0, <1>10 DEF Talk!Skip, Talk!Done, TalkInv
<1>11. ASSUME NEW a \in Talk!Actors, Talk!SummaryFails(a) PROVE TalkInv'
  BY <1>0, <1>11 DEF Talk!SummaryFails, Talk!Done, TalkInv
<1>12. ASSUME NEW a \in Talk!Actors, NEW cutoff \in 1..MaxMessages, Talk!Summarise(a, cutoff)
       PROVE TalkInv'
  BY <1>12, TalkSummarise
<1>13. CASE Talk!Restart BY <1>0, <1>13 DEF Talk!Restart, TalkInv
<1> QED
  BY <1>1, <1>2, <1>3, <1>4, <1>5, <1>6, <1>7, <1>8, <1>9, <1>10, <1>11, <1>12, <1>13
  DEF Talk!Next

(* An execution is given every message of the conversation exactly once, in the    *)
(* summary or as it is, whatever is compacted, appended, restarted and by how many  *)
(* threads.                                                                   *)
THEOREM ConversationIsWhole == ServicesSpec => []NothingForgotten
<1>1. ServicesInit => TalkInv BY TalkInit DEF ServicesInit
<1>2. TalkInv /\ [ServicesNext]_services => TalkInv' BY TalkSteps, TalkNext
<1>3. TalkInv => NothingForgotten BY DEF TalkInv
<1> QED BY <1>1, <1>2, <1>3, PTL DEF ServicesSpec

-----------------------------------------------------------------------------
(*****************************************************************************)
(* The authorization of MCP servers.                                          *)
(*****************************************************************************)
Rows == [token : Nat, refresh : Nat, status : {"none", "authorized", "revoked"}, expired : BOOLEAN]
Pendings == [id : Nat, server : Mcp!Names, user : Users, run : McpRuns]
Busy == {"connect", "headers", "refresh", "save", "asked"}
ClientTypes ==
  [at : {"idle", "exchange", "save", "delete"}, request : Pendings \cup {[id |-> 0]},
   token : Nat, refresh : Nat]
RunTypes ==
  [at : Busy \cup {"idle", "unauthorized", "failed", "working"}, todo : Seq(Mcp!Names),
   grant : Rows, using : Seq(Mcp!Names \X Nat)]

McpTyped ==
  /\ mGrants \in [Mcp!Keys -> Rows] /\ mIssued \in Seq(Mcp!Keys) /\ mRequests \in Nat
  /\ mPending \subseteq Pendings
  /\ mClient \in [McpClients -> ClientTypes] /\ mRun \in [McpRuns -> RunTypes]

(* The provider of the server has issued the token, for the user.                *)
IsFor(tokens, token, server, user) ==
  token \in DOMAIN tokens /\ tokens[token] = <<ProviderOf[server], user>>

(* The token of a row was issued for the key of the row.                         *)
RowsOK ==
  \A k \in Mcp!Keys : mGrants[k].status # "none" =>
    mGrants[k].token \in DOMAIN mIssued /\ mIssued[mGrants[k].token] = k

PendingOK == \A p \in mPending : ProviderOf[p.server] # Static

ClientOK(x, tokens) ==
  /\ x.at # "idle" => x.request \in Pendings /\ ProviderOf[x.request.server] # Static
  /\ x.at = "save" => IsFor(tokens, x.token, x.request.server, x.request.user)

(* A run that refreshes has a grant of its user that can be refreshed, and what it   *)
(* has connected with and is about to save is for its user.                       *)
RunOK(x, r, tokens) ==
  /\ x.at \in Busy => x.todo # <<>>
  /\ x.at \in {"refresh", "save"} =>
       UserOf[r] \in Users /\ ProviderOf[Head(x.todo)] # Static /\ x.grant.refresh # 0
  /\ x.at = "save" =>
       IsFor(tokens, x.grant.token, Head(x.todo), UserOf[r]) /\ x.grant.status = "authorized"
  /\ \A i \in DOMAIN x.using :
       ProviderOf[x.using[i][1]] # Static => IsFor(tokens, x.using[i][2], x.using[i][1], UserOf[r])

McpInv ==
  /\ McpTyped /\ RowsOK /\ PendingOK
  /\ \A c \in McpClients : ClientOK(mClient[c], mIssued)
  /\ \A r \in McpRuns : RunOK(mRun[r], r, mIssued)

IssuesMore == mIssued' = mIssued \/ \E k \in Mcp!Keys : mIssued' = Append(mIssued, k)

(* A step of the composition is one of the authorization, or leaves it       *)
(* alone.                                                                    *)
LEMMA McpSteps == [ServicesNext]_services => [Mcp!Next]_mcpVars
BY DEF ServicesNext, services, Resting

(* A run that has stopped, and a client that rests, hold no token.           *)
LEMMA Unborns ==
  /\ Mcp!NoGrant \in Rows /\ Mcp!NoGrant.status = "none"
  /\ Mcp!Unborn = [at |-> "idle", todo |-> <<>>, grant |-> Mcp!NoGrant, using |-> <<>>]
  /\ \A where \in {"idle", "unauthorized", "failed"} :
       [Mcp!Unborn EXCEPT !.at = where] \in RunTypes
  /\ \A where \in {"idle", "unauthorized", "failed"} :
       \A r, tokens : RunOK([Mcp!Unborn EXCEPT !.at = where], r, tokens)
  /\ Mcp!Resting \in ClientTypes /\ \A tokens : ClientOK(Mcp!Resting, tokens)
<1>1. Mcp!NoGrant \in Rows /\ Mcp!NoGrant.status = "none" BY DEF Mcp!NoGrant, Rows
<1>2. Mcp!Unborn = [at |-> "idle", todo |-> <<>>, grant |-> Mcp!NoGrant, using |-> <<>>]
  BY DEF Mcp!Unborn
<1>3. ASSUME NEW where \in {"idle", "unauthorized", "failed"}
      PROVE  /\ [Mcp!Unborn EXCEPT !.at = where] \in RunTypes
             /\ \A r, tokens : RunOK([Mcp!Unborn EXCEPT !.at = where], r, tokens)
  <2> DEFINE x == [at |-> where, todo |-> <<>>, grant |-> Mcp!NoGrant, using |-> <<>>]
  <2>1. [Mcp!Unborn EXCEPT !.at = where] = x BY <1>2
  <2>2. x \in RunTypes BY <1>1 DEF RunTypes
  <2>3. x.at = where /\ x.using = <<>> OBVIOUS
  <2> HIDE DEF x
  <2>4. \A r, tokens : RunOK(x, r, tokens) BY <2>3 DEF RunOK, Busy
  <2> QED BY <2>1, <2>2, <2>4
<1>4. Mcp!Resting \in ClientTypes /\ \A tokens : ClientOK(Mcp!Resting, tokens)
  BY DEF Mcp!Resting, ClientTypes, ClientOK
<1> QED BY <1>1, <1>2, <1>3, <1>4

(* No token has been issued at first.                                        *)
LEMMA McpInit == Mcp!Init => McpInv
<1> SUFFICES ASSUME Mcp!Init PROVE McpInv
  OBVIOUS
<1>1. /\ mGrants = [k \in Mcp!Keys |-> Mcp!NoGrant] /\ mPending = {} /\ mRequests = 0 /\ mIssued = <<>>
      /\ mClient = [c \in McpClients |-> Mcp!Resting] /\ mRun = [r \in McpRuns |-> Mcp!Unborn]
  BY DEF Mcp!Init
<1>2. Mcp!Unborn \in RunTypes /\ \A r, tokens : RunOK(Mcp!Unborn, r, tokens)
  <2>1. Mcp!Unborn = [Mcp!Unborn EXCEPT !.at = "idle"] BY Unborns
  <2> QED BY <2>1, Unborns
<1>3. McpTyped BY <1>1, <1>2, Unborns DEF McpTyped
<1> QED BY <1>1, <1>2, <1>3, Unborns DEF McpInv, RowsOK, PendingOK

(* Tokens are issued and never taken back.                                       *)
LEMMA StillIssued ==
  ASSUME McpTyped, IssuesMore
  PROVE  /\ mIssued' \in Seq(Mcp!Keys)
         /\ \A token \in DOMAIN mIssued : token \in DOMAIN mIssued' /\ mIssued'[token] = mIssued[token]
         /\ \A token, server, user : IsFor(mIssued, token, server, user) =>
              IsFor(mIssued', token, server, user)
         /\ \A x : ClientOK(x, mIssued) => ClientOK(x, mIssued')
         /\ \A x, r : RunOK(x, r, mIssued) => RunOK(x, r, mIssued')
<1>1. mIssued \in Seq(Mcp!Keys) BY DEF McpTyped
<1>2. /\ mIssued' \in Seq(Mcp!Keys)
      /\ \A token \in DOMAIN mIssued : token \in DOMAIN mIssued' /\ mIssued'[token] = mIssued[token]
  <2>1. CASE mIssued' = mIssued BY <1>1, <2>1
  <2>2. ASSUME NEW k \in Mcp!Keys, mIssued' = Append(mIssued, k)
        PROVE  /\ mIssued' \in Seq(Mcp!Keys)
               /\ \A token \in DOMAIN mIssued :
                    token \in DOMAIN mIssued' /\ mIssued'[token] = mIssued[token]
    BY <1>1, <2>2
  <2> QED BY <2>1, <2>2 DEF IssuesMore
<1>3. \A token, server, user : IsFor(mIssued, token, server, user) => IsFor(mIssued', token, server, user)
  BY <1>2 DEF IsFor
<1>4. \A x : ClientOK(x, mIssued) => ClientOK(x, mIssued') BY <1>3 DEF ClientOK
<1>5. \A x, r : RunOK(x, r, mIssued) => RunOK(x, r, mIssued') BY <1>3 DEF RunOK
<1> QED BY <1>2, <1>3, <1>4, <1>5

(* A token that is issued now is for whom it is issued.                           *)
LEMMA NewToken ==
  ASSUME McpTyped, NEW server, NEW user, mIssued' = Append(mIssued, <<ProviderOf[server], user>>),
         <<ProviderOf[server], user>> \in Mcp!Keys
  PROVE  IssuesMore /\ Len(mIssued) + 1 \in Nat /\ IsFor(mIssued', Len(mIssued) + 1, server, user)
<1>1. mIssued \in Seq(Mcp!Keys) BY DEF McpTyped
<1>2. mIssued'[Len(mIssued) + 1] = <<ProviderOf[server], user>> /\ Len(mIssued) + 1 \in DOMAIN mIssued'
  BY <1>1
<1> QED BY <1>1, <1>2 DEF IssuesMore, IsFor

(* A user and the provider of a server that wants a token name a row of the  *)
(* store.                                                                    *)
LEMMA KeyOf ==
  ASSUME NEW server \in Mcp!Names, ProviderOf[server] # Static, NEW user \in Users
  PROVE  <<ProviderOf[server], user>> \in Mcp!Keys
BY DEF Mcp!Keys, Mcp!Providers

(* A step keeps the invariant if what it makes of the runs and of the clients is good. *)
LEMMA McpMoves ==
  ASSUME McpInv, IssuesMore, RowsOK', PendingOK', mGrants' \in [Mcp!Keys -> Rows],
         mRequests' \in Nat, mPending' \subseteq Pendings,
         mClient' \in [McpClients -> ClientTypes], mRun' \in [McpRuns -> RunTypes],
         \A c \in McpClients : mClient'[c] = mClient[c] \/ ClientOK(mClient'[c], mIssued'),
         \A r \in McpRuns : mRun'[r] = mRun[r] \/ RunOK(mRun'[r], r, mIssued')
  PROVE  McpInv'
<1>1. McpTyped BY DEF McpInv
<1>2. McpTyped' BY <1>1, StillIssued DEF McpTyped
<1>3. \A c \in McpClients : ClientOK(mClient'[c], mIssued') BY <1>1, StillIssued DEF McpInv
<1>4. \A r \in McpRuns : RunOK(mRun'[r], r, mIssued') BY <1>1, StillIssued DEF McpInv
<1> QED BY <1>2, <1>3, <1>4 DEF McpInv

(* A step of a run that leaves the store alone.                                  *)
LEMMA RunMoves ==
  ASSUME McpInv, NEW r \in McpRuns, NEW new \in RunTypes, mRun' = [mRun EXCEPT ![r] = new],
         UNCHANGED <<mGrants, mPending, mRequests, mClient>>, IssuesMore,
         RunOK(new, r, mIssued')
  PROVE  McpInv'
<1>1. McpTyped BY DEF McpInv
<1>2. /\ mRun' \in [McpRuns -> RunTypes]
      /\ \A q \in McpRuns : mRun'[q] = mRun[q] \/ RunOK(mRun'[q], q, mIssued')
  BY <1>1 DEF McpTyped
<1>3. RowsOK' BY <1>1, StillIssued DEF McpInv, RowsOK
<1>4. PendingOK' BY DEF McpInv, PendingOK
<1> QED BY <1>1, <1>2, <1>3, <1>4, McpMoves DEF McpTyped

(* A run that stops gives up all its tokens.                                 *)
LEMMA StopStep ==
  ASSUME McpInv, NEW r \in McpRuns, NEW where \in {"unauthorized", "failed"},
         mRun' = [mRun EXCEPT ![r] = [Mcp!Unborn EXCEPT !.at = where]],
         UNCHANGED <<mGrants, mPending, mRequests, mClient, mIssued>>
  PROVE  McpInv'
<1> DEFINE new == [Mcp!Unborn EXCEPT !.at = where]
<1>1. new \in RunTypes /\ RunOK(new, r, mIssued') BY Unborns
<1> HIDE DEF new
<1>2. mRun' = [mRun EXCEPT ![r] = new] BY DEF new
<1>3. IssuesMore BY DEF IssuesMore
<1> QED BY <1>1, <1>2, <1>3, RunMoves

(* The next server, or the agent: with one more token of the right user.             *)
LEMMA OnwardType ==
  ASSUME McpInv, NEW r \in McpRuns, mRun[r].at \in {"headers", "save"}, NEW token \in Nat,
         \/ ProviderOf[Head(mRun[r].todo)] = Static
         \/ IsFor(mIssued, token, Head(mRun[r].todo), UserOf[r])
  PROVE  LET new == Mcp!Onward(r, <<Head(mRun[r].todo), token>>)
         IN  new \in RunTypes /\ RunOK(new, r, mIssued)
<1> DEFINE old   == mRun[r]
           s     == Head(old.todo)
           using == Append(old.using, <<s, token>>)
           where == IF Tail(old.todo) = <<>> THEN "working" ELSE "connect"
           new   == [at |-> where, todo |-> Tail(old.todo), grant |-> Mcp!NoGrant, using |-> using]
<1>1. McpTyped /\ old \in RunTypes /\ RunOK(old, r, mIssued) BY DEF McpInv, McpTyped
<1>2. Mcp!Onward(r, <<Head(mRun[r].todo), token>>) = new BY DEF Mcp!Onward
<1>3. old.todo \in Seq(Mcp!Names) /\ old.todo # <<>> /\ old.using \in Seq(Mcp!Names \X Nat)
  BY <1>1 DEF RunTypes, RunOK, Busy
<1>4. s \in Mcp!Names /\ Tail(old.todo) \in Seq(Mcp!Names) BY <1>3, HeadTailProperties
<1>5. /\ using \in Seq(Mcp!Names \X Nat) /\ Len(using) = Len(old.using) + 1
      /\ using[Len(old.using) + 1] = <<s, token>>
      /\ \A i \in 1..Len(old.using) : using[i] = old.using[i]
  BY SMTT(30), <1>3, <1>4
<1>6. new \in RunTypes BY <1>4, <1>5, Unborns DEF RunTypes, Busy
<1>7. \A i \in DOMAIN using :
        ProviderOf[using[i][1]] # Static => IsFor(mIssued, using[i][2], using[i][1], UserOf[r])
  <2>1. DOMAIN using = 1..Len(old.using) + 1 /\ DOMAIN old.using = 1..Len(old.using) BY <1>3, <1>5
  <2>2. \A i \in DOMAIN old.using : ProviderOf[old.using[i][1]] # Static
          => IsFor(mIssued, old.using[i][2], old.using[i][1], UserOf[r])
    BY <1>1 DEF RunOK
  <2>3. <<s, token>>[1] = s /\ <<s, token>>[2] = token OBVIOUS
  <2> HIDE DEF s, using
  <2>4. IsFor(mIssued, token, s, UserOf[r]) \/ ProviderOf[s] = Static BY DEF s
  <2>5. \A i \in DOMAIN old.using : using[i] = old.using[i] BY <1>5, <2>1
  <2> SUFFICES ASSUME NEW i \in DOMAIN using, ProviderOf[using[i][1]] # Static
               PROVE  IsFor(mIssued, using[i][2], using[i][1], UserOf[r])
    OBVIOUS
  <2>6. CASE i \in DOMAIN old.using BY <2>2, <2>5, <2>6
  <2>7. CASE i = Len(old.using) + 1 BY <1>5, <2>3, <2>4, <2>7
  <2>8. Len(old.using) \in Nat BY <1>3
  <2> QED BY <2>1, <2>6, <2>7, <2>8
<1>8. new.at = where /\ new.todo = Tail(old.todo) /\ new.using = using OBVIOUS
<1>9. where \in {"working", "connect"} /\ (where = "connect" => Tail(old.todo) # <<>>) OBVIOUS
<1> HIDE DEF new, using, where
<1>10. RunOK(new, r, mIssued) BY <1>7, <1>8, <1>9 DEF RunOK, Busy
<1> QED BY <1>2, <1>6, <1>10

(* A run that begins, or begins again after an approval, has all servers to  *)
(* come.                                                                     *)
LEMMA StartSteps ==
  ASSUME McpInv, NEW r \in McpRuns, Mcp!Start(r) \/ Mcp!Approve(r)
  PROVE  McpInv'
<1> DEFINE where == IF Servers = <<>> THEN "working" ELSE "connect"
           new   == [Mcp!Unborn EXCEPT !.at = where, !.todo = Servers]
<1>1. McpTyped /\ mRun[r] \in RunTypes /\ RunOK(mRun[r], r, mIssued) BY DEF McpInv, McpTyped
<1>2. UNCHANGED <<mGrants, mPending, mRequests, mClient, mIssued>>
  BY DEF Mcp!Start, Mcp!Approve
<1>3. mRun' = [mRun EXCEPT ![r] = new]
  <2>1. CASE Mcp!Start(r) BY <2>1 DEF Mcp!Start
  <2>2. CASE Mcp!Approve(r)
    <3>1. /\ mRun' = [mRun EXCEPT ![r] = [Mcp!Unborn EXCEPT !.at = "connect", !.todo = Servers]]
          /\ mRun[r].at = "asked"
      BY <2>2 DEF Mcp!Approve
    <3>2. Servers # <<>>
      <4>1. Servers = <<>> => Mcp!Names = {} BY DEF Mcp!Names
      <4>2. mRun[r].todo \in Seq(Mcp!Names) /\ mRun[r].todo # <<>>
        BY <1>1, <3>1 DEF RunTypes, RunOK, Busy
      <4>3. Head(mRun[r].todo) \in Mcp!Names BY <4>2, HeadTailProperties
      <4> QED BY <4>1, <4>3
    <3> QED BY <3>1, <3>2
  <2> QED BY <2>1, <2>2
<1>4. Servers \in Seq(Mcp!Names) BY ServersAssumption DEF Mcp!Names
<1>5. where \in {"working", "connect"} /\ (where = "connect" => Servers # <<>>) OBVIOUS
<1>6. Mcp!Unborn \in RunTypes /\ Mcp!Unborn.using = <<>> BY Unborns DEF RunTypes, Busy
<1> HIDE DEF where
<1>7. new \in RunTypes /\ new.at = where /\ new.todo = Servers /\ new.using = <<>>
  BY <1>4, <1>5, <1>6 DEF RunTypes, Busy
<1> HIDE DEF new
<1>8. RunOK(new, r, mIssued') BY <1>5, <1>7 DEF RunOK, Busy
<1> QED BY <1>2, <1>3, <1>7, <1>8, RunMoves DEF IssuesMore

(* Where a run goes without any change to what it holds.                            *)
LEMMA GoesOn ==
  ASSUME McpInv, NEW r \in McpRuns, mRun[r].at = "connect", NEW where \in {"headers", "asked"},
         mRun' = [mRun EXCEPT ![r].at = where],
         UNCHANGED <<mGrants, mPending, mRequests, mClient, mIssued>>
  PROVE  McpInv'
<1> DEFINE new == [mRun[r] EXCEPT !.at = where]
<1>1. mRun[r] \in RunTypes /\ RunOK(mRun[r], r, mIssued) BY DEF McpInv, McpTyped
<1>2. /\ new \in RunTypes /\ new.at = where /\ new.todo = mRun[r].todo
      /\ new.grant = mRun[r].grant /\ new.using = mRun[r].using
  BY <1>1 DEF RunTypes, Busy
<1>3. mRun' = [mRun EXCEPT ![r] = new] OBVIOUS
<1> HIDE DEF new
<1>4. RunOK(new, r, mIssued') BY <1>1, <1>2 DEF RunOK, Busy
<1> QED BY <1>2, <1>3, <1>4, RunMoves DEF IssuesMore

(* _govern_server_connect: the run goes on, fails or asks.                   *)
LEMMA ConnectStep ==
  ASSUME McpInv, NEW r \in McpRuns, Mcp!Connect(r)
  PROVE  McpInv'
<1> DEFINE decision == Mcp!Policy!Evaluate(Mcp!Connection(Head(mRun[r].todo)), mApproved[r])
<1>1. decision \in {"ALLOW", "DENY", "REQUIRE_APPROVAL"}
  BY DEF Mcp!Policy!Evaluate
<1> HIDE DEF decision
<1>2. /\ mRun[r].at = "connect" /\ UNCHANGED <<mGrants, mPending, mRequests, mClient, mIssued>>
      /\ \/ mRun' = [mRun EXCEPT ![r].at = "headers"]
         \/ Mcp!Stops(r, "failed")
         \/ mRun' = [mRun EXCEPT ![r].at = "asked"]
  BY <1>1 DEF Mcp!Connect, decision
<1>3. CASE mRun' = [mRun EXCEPT ![r].at = "headers"] BY <1>2, <1>3, GoesOn
<1>4. CASE Mcp!Stops(r, "failed") BY <1>2, <1>4, StopStep DEF Mcp!Stops
<1>5. CASE mRun' = [mRun EXCEPT ![r].at = "asked"] BY <1>2, <1>5, GoesOn
<1> QED BY <1>2, <1>3, <1>4, <1>5

(* headers_for_server: the token of the row of the run's own user, or none.  *)
LEMMA HeadersStep ==
  ASSUME McpInv, NEW r \in McpRuns, Mcp!Headers(r)
  PROVE  McpInv'
<1> DEFINE s == Head(mRun[r].todo)
           g == mGrants[<<ProviderOf[s], UserOf[r]>>]
<1>1. McpTyped /\ RowsOK /\ mRun[r] \in RunTypes /\ RunOK(mRun[r], r, mIssued) /\ mRun[r].at = "headers"
  BY DEF McpInv, McpTyped, Mcp!Headers
<1>2. UNCHANGED <<mGrants, mPending, mRequests, mClient, mIssued>> BY DEF Mcp!Headers
<1>3. IssuesMore BY <1>2 DEF IssuesMore
<1>4. mRun[r].todo \in Seq(Mcp!Names) /\ mRun[r].todo # <<>> BY <1>1 DEF RunTypes, RunOK, Busy
<1>5. s \in Mcp!Names BY <1>4, HeadTailProperties
<1>6. CASE mRun' = [mRun EXCEPT ![r] = Mcp!Onward(r, <<s, 0>>)] /\ ProviderOf[s] = Static
  <2> DEFINE new == Mcp!Onward(r, <<s, 0>>)
  <2>1. new \in RunTypes /\ RunOK(new, r, mIssued) BY <1>1, <1>6, OnwardType
  <2> HIDE DEF new
  <2>2. mRun' = [mRun EXCEPT ![r] = new] BY <1>6 DEF new
  <2> QED BY <1>2, <1>3, <2>1, <2>2, RunMoves
<1>7. CASE Mcp!Stops(r, "unauthorized") BY <1>2, <1>7, StopStep DEF Mcp!Stops
<1>8. CASE /\ ProviderOf[s] # Static /\ UserOf[r] # NoUser /\ g.status = "authorized"
           /\ mRun' = [mRun EXCEPT ![r] = Mcp!Onward(r, <<s, g.token>>)]
  <2> DEFINE new == Mcp!Onward(r, <<s, g.token>>)
  <2>1. <<ProviderOf[s], UserOf[r]>> \in Mcp!Keys BY <1>5, <1>8, KeyOf, OwnerAssumption
  <2>2. g \in Rows BY <1>1, <2>1 DEF McpTyped
  <2>3. g.token \in Nat /\ IsFor(mIssued, g.token, s, UserOf[r])
    BY <1>1, <1>8, <2>1, <2>2 DEF RowsOK, IsFor, Rows
  <2> HIDE DEF g
  <2>4. new \in RunTypes /\ RunOK(new, r, mIssued) BY <1>1, <2>3, OnwardType
  <2> HIDE DEF new
  <2>5. mRun' = [mRun EXCEPT ![r] = new] BY <1>8 DEF new
  <2> QED BY <1>2, <1>3, <2>4, <2>5, RunMoves
<1>9. CASE /\ ProviderOf[s] # Static /\ UserOf[r] # NoUser /\ g.status = "authorized" /\ g.refresh # 0
           /\ mRun' = [mRun EXCEPT ![r].at = "refresh", ![r].grant = g]
  <2> DEFINE new == [mRun[r] EXCEPT !.at = "refresh", !.grant = g]
  <2>1. UserOf[r] \in Users /\ <<ProviderOf[s], UserOf[r]>> \in Mcp!Keys
    BY <1>5, <1>9, KeyOf, OwnerAssumption
  <2>2. g \in Rows BY <1>1, <2>1 DEF McpTyped
  <2>3. mRun' = [mRun EXCEPT ![r] = new] BY <1>9
  <2>4. ProviderOf[s] # Static /\ g.refresh # 0 BY <1>9
  <2> HIDE DEF g
  <2>5. /\ new \in RunTypes /\ new.at = "refresh" /\ new.todo = mRun[r].todo
        /\ new.grant = g /\ new.using = mRun[r].using
    BY <1>1, <2>2 DEF RunTypes, Busy
  <2> HIDE DEF new
  <2>6. RunOK(new, r, mIssued) BY <1>1, <2>1, <2>4, <2>5 DEF RunOK, Busy
  <2> QED BY <1>2, <1>3, <2>3, <2>5, <2>6, RunMoves
<1> QED BY <1>6, <1>7, <1>8, <1>9 DEF Mcp!Headers, Mcp!GrantFor

(* The endpoint's answer, together with what was known before, can be refreshed.      *)
LEMMA MergedType ==
  ASSUME NEW token \in Nat, NEW refresh \in Nat, NEW old \in Rows, old.refresh # 0
  PROVE  LET g == Mcp!Merged(Mcp!NewGrant(token, refresh), old) IN
           g \in Rows /\ g.token = token /\ g.refresh # 0 /\ g.status = "authorized"
<1> DEFINE a == Mcp!NewGrant(token, refresh)
           n == IF refresh = 0 THEN old.refresh ELSE refresh
<1>1. a \in Rows /\ a.token = token /\ a.refresh = refresh /\ a.status = "authorized"
  BY DEF Mcp!NewGrant, Rows
<1>2. Mcp!Merged(a, old) = [a EXCEPT !.refresh = n] BY <1>1 DEF Mcp!Merged
<1>3. n \in Nat /\ n # 0 BY DEF Rows
<1> HIDE DEF a, n
<1>4. LET g == [a EXCEPT !.refresh = n] IN
        g \in Rows /\ g.token = a.token /\ g.refresh = n /\ g.status = a.status
  BY <1>1, <1>3 DEF Rows
<1> QED BY <1>1, <1>2, <1>3, <1>4 DEF a

(* What the endpoint issues is for the user of the run, and can be           *)
(* refreshed.                                                                *)
LEMMA RefreshStep ==
  ASSUME McpInv, NEW r \in McpRuns, Mcp!Refresh(r)
  PROVE  McpInv'
<1> DEFINE old == mRun[r]
           s   == Head(old.todo)
           n   == Len(mIssued) + 1
<1>1. McpTyped /\ old \in RunTypes /\ RunOK(old, r, mIssued) /\ old.at = "refresh"
  BY DEF McpInv, McpTyped, Mcp!Refresh
<1>2. UNCHANGED <<mGrants, mPending, mRequests, mClient>> BY DEF Mcp!Refresh
<1>3. old.todo \in Seq(Mcp!Names) /\ old.todo # <<>> /\ old.grant \in Rows /\ old.grant.refresh # 0
      /\ ProviderOf[s] # Static /\ UserOf[r] \in Users
  BY <1>1 DEF RunTypes, RunOK, Busy
<1>4. CASE Mcp!Stops(r, "failed") /\ UNCHANGED mIssued BY <1>2, <1>4, StopStep DEF Mcp!Stops
<1>5. ASSUME mIssued' = Append(mIssued, <<ProviderOf[s], UserOf[r]>>), NEW refresh \in {0, n},
             mRun' = [mRun EXCEPT ![r].at = "save",
                                  ![r].grant = Mcp!Merged(Mcp!NewGrant(n, refresh), @)]
      PROVE  McpInv'
  <2> DEFINE g   == Mcp!Merged(Mcp!NewGrant(n, refresh), old.grant)
             new == [old EXCEPT !.at = "save", !.grant = g]
  <2>1. s \in Mcp!Names BY <1>3, HeadTailProperties
  <2>2. <<ProviderOf[s], UserOf[r]>> \in Mcp!Keys BY <1>3, <2>1, KeyOf
  <2>3. IssuesMore /\ n \in Nat /\ IsFor(mIssued', n, s, UserOf[r]) BY <1>1, <1>5, <2>2, NewToken
  <2>4. mRun' = [mRun EXCEPT ![r] = new] BY <1>1, <1>5 DEF RunTypes
  <2> HIDE DEF n
  <2>5. refresh \in Nat BY <2>3
  <2>6. g \in Rows /\ g.token = n /\ g.refresh # 0 /\ g.status = "authorized"
    BY <1>3, <2>3, <2>5, MergedType
  <2> HIDE DEF g
  <2>7. /\ new \in RunTypes /\ new.at = "save" /\ new.todo = old.todo /\ new.grant = g
        /\ new.using = old.using
    BY <1>1, <2>6 DEF RunTypes, Busy
  <2> HIDE DEF new
  <2>8. RunOK(old, r, mIssued') BY <1>1, <2>3, StillIssued
  <2>9. RunOK(new, r, mIssued') BY <1>3, <2>3, <2>6, <2>7, <2>8 DEF RunOK, Busy
  <2> QED BY <1>2, <2>3, <2>4, <2>7, <2>9, RunMoves
<1> QED BY <1>4, <1>5 DEF Mcp!Refresh

(* What is saved after a refresh is for the key of its row and can be        *)
(* refreshed again.                                                          *)
LEMMA SaveRefreshedStep ==
  ASSUME McpInv, NEW r \in McpRuns, Mcp!SaveRefreshed(r)
  PROVE  McpInv' /\ \A k \in Mcp!Keys : mGrants[k].refresh # 0 => mGrants'[k].refresh # 0
<1> DEFINE old == mRun[r]
           s   == Head(old.todo)
           g   == old.grant
           new == Mcp!Onward(r, <<s, g.token>>)
           key == <<ProviderOf[s], UserOf[r]>>
<1>1. McpTyped /\ old \in RunTypes /\ RunOK(old, r, mIssued) /\ old.at = "save"
  BY DEF McpInv, McpTyped, Mcp!SaveRefreshed
<1>2. /\ mGrants' = [mGrants EXCEPT ![key] = g] /\ mRun' = [mRun EXCEPT ![r] = new]
      /\ UNCHANGED <<mPending, mRequests, mClient, mIssued>>
  BY DEF Mcp!SaveRefreshed
<1>3. old.todo \in Seq(Mcp!Names) /\ old.todo # <<>> /\ g \in Rows /\ g.refresh # 0
      /\ ProviderOf[s] # Static /\ UserOf[r] \in Users /\ IsFor(mIssued, g.token, s, UserOf[r])
  BY <1>1 DEF RunTypes, RunOK, Busy
<1>4. s \in Mcp!Names BY <1>3, HeadTailProperties
<1>5. key \in Mcp!Keys BY <1>3, <1>4, KeyOf
<1>6. new \in RunTypes /\ RunOK(new, r, mIssued)
  <2>1. g.token \in Nat BY <1>3 DEF Rows
  <2> HIDE DEF g
  <2> QED BY <1>1, <1>3, <2>1, OnwardType
<1>7. IssuesMore BY <1>2 DEF IssuesMore
<1>8. g.token \in DOMAIN mIssued /\ mIssued[g.token] = key BY <1>3 DEF IsFor
<1> HIDE DEF new, g, key
<1>9. /\ mGrants' \in [Mcp!Keys -> Rows]
      /\ \A k \in Mcp!Keys : mGrants'[k] = IF k = key THEN g ELSE mGrants[k]
  BY <1>1, <1>2, <1>3, <1>5 DEF McpTyped
<1>10. RowsOK' BY <1>2, <1>8, <1>9 DEF McpInv, RowsOK
<1>11. /\ mRun' \in [McpRuns -> RunTypes]
       /\ \A q \in McpRuns : mRun'[q] = mRun[q] \/ RunOK(mRun'[q], q, mIssued')
  BY <1>1, <1>2, <1>6 DEF McpTyped
<1>12. PendingOK' BY <1>2 DEF McpInv, PendingOK
<1>13. McpInv' BY <1>1, <1>2, <1>7, <1>9, <1>10, <1>11, <1>12, McpMoves DEF McpTyped
<1> QED BY <1>3, <1>9, <1>13

(* An authorization is started for a server that wants a token.              *)
LEMMA AuthorizeStep ==
  ASSUME McpInv, NEW r \in McpRuns, NEW s \in Mcp!Names, Mcp!StartAuthorization(r, s)
  PROVE  McpInv'
<1> DEFINE p == [id |-> mRequests + 1, server |-> s, user |-> UserOf[r], run |-> r]
<1>1. McpTyped BY DEF McpInv
<1>2. /\ mRequests' = mRequests + 1 /\ mPending' = mPending \cup {p}
      /\ UserOf[r] \in Users /\ ProviderOf[s] # Static
      /\ UNCHANGED <<mGrants, mIssued, mClient, mRun>>
  BY OwnerAssumption DEF Mcp!StartAuthorization
<1>3. mRequests' \in Nat /\ p \in Pendings BY <1>1, <1>2 DEF McpTyped, Pendings
<1>4. p.server = s OBVIOUS
<1> HIDE DEF p
<1>5. PendingOK' BY <1>2, <1>4 DEF McpInv, PendingOK
<1>6. RowsOK' BY <1>2 DEF McpInv, RowsOK
<1> QED BY <1>1, <1>2, <1>3, <1>5, <1>6, McpMoves DEF McpTyped, IssuesMore

(* A step of a client that leaves the store alone.                                *)
LEMMA ClientMoves ==
  ASSUME McpInv, NEW c \in McpClients, NEW new \in ClientTypes, mClient' = [mClient EXCEPT ![c] = new],
         UNCHANGED <<mGrants, mRequests, mRun>>, mPending' \subseteq mPending, IssuesMore,
         ClientOK(new, mIssued')
  PROVE  McpInv'
<1>1. McpTyped BY DEF McpInv
<1>2. /\ mClient' \in [McpClients -> ClientTypes]
      /\ \A d \in McpClients : mClient'[d] = mClient[d] \/ ClientOK(mClient'[d], mIssued')
  BY <1>1 DEF McpTyped
<1>3. RowsOK' BY <1>1, StillIssued DEF McpInv, RowsOK
<1>4. PendingOK' BY DEF McpInv, PendingOK
<1> QED BY <1>1, <1>2, <1>3, <1>4, McpMoves DEF McpTyped

(* A request to complete takes up an authorization as it was started.        *)
LEMMA CompleteStep ==
  ASSUME McpInv, NEW c \in McpClients, NEW p \in mPending, Mcp!Complete(c, p)
  PROVE  McpInv'
<1> DEFINE new == [Mcp!Resting EXCEPT !.at = "exchange", !.request = p]
<1>1. p \in Pendings /\ ProviderOf[p.server] # Static BY DEF McpInv, McpTyped, PendingOK
<1>2. /\ mClient' = [mClient EXCEPT ![c] = new]
      /\ UNCHANGED <<mGrants, mPending, mRequests, mRun, mIssued>>
  BY DEF Mcp!Complete
<1>3. new \in ClientTypes /\ new.at = "exchange" /\ new.request = p
  BY <1>1 DEF Mcp!Resting, ClientTypes
<1> HIDE DEF new
<1>4. ClientOK(new, mIssued') BY <1>1, <1>3 DEF ClientOK
<1> QED BY <1>2, <1>3, <1>4, ClientMoves DEF IssuesMore

(* exchange_code: the token is for the user who started the authorization.   *)
LEMMA ExchangeStep ==
  ASSUME McpInv, NEW c \in McpClients, Mcp!Exchange(c)
  PROVE  McpInv'
<1> DEFINE old == mClient[c]
           p   == old.request
           n   == Len(mIssued) + 1
<1>1. McpTyped /\ old \in ClientTypes /\ old.at = "exchange" /\ ClientOK(old, mIssued)
  BY DEF McpInv, McpTyped, Mcp!Exchange
<1>2. UNCHANGED <<mGrants, mPending, mRequests, mRun>> BY DEF Mcp!Exchange
<1>3. p \in Pendings /\ ProviderOf[p.server] # Static BY <1>1 DEF ClientOK
<1>4. CASE mClient' = [mClient EXCEPT ![c] = Mcp!Resting] /\ UNCHANGED mIssued
  BY <1>2, <1>4, ClientMoves, Unborns DEF IssuesMore
<1>5. ASSUME mIssued' = Append(mIssued, <<ProviderOf[p.server], p.user>>), NEW refresh \in {0, n},
             mClient' = [mClient EXCEPT ![c].at = "save", ![c].token = n, ![c].refresh = refresh]
      PROVE  McpInv'
  <2> DEFINE new == [old EXCEPT !.at = "save", !.token = n, !.refresh = refresh]
  <2>1. p.server \in Mcp!Names /\ p.user \in Users BY <1>3 DEF Pendings
  <2>2. <<ProviderOf[p.server], p.user>> \in Mcp!Keys BY <1>3, <2>1, KeyOf
  <2>3. IssuesMore /\ n \in Nat /\ IsFor(mIssued', n, p.server, p.user)
    BY <1>1, <1>5, <2>2, NewToken
  <2>4. mClient' = [mClient EXCEPT ![c] = new] BY <1>5
  <2> HIDE DEF n
  <2>5. refresh \in Nat BY <2>3
  <2>6. /\ new \in ClientTypes /\ new.at = "save" /\ new.token = n /\ new.request = p
    BY <1>1, <2>3, <2>5 DEF ClientTypes
  <2> HIDE DEF new
  <2>7. ClientOK(new, mIssued') BY <1>3, <2>3, <2>6 DEF ClientOK
  <2> QED BY <1>2, <2>3, <2>4, <2>6, <2>7, ClientMoves
<1> QED BY <1>4, <1>5 DEF Mcp!Exchange

(* The row that is written is that user's; the client is then past its       *)
(* write.                                                                    *)
LEMMA SaveGrantStep ==
  ASSUME McpInv, NEW c \in McpClients, Mcp!SaveGrant(c)
  PROVE  McpInv' /\ mClient[c].at = "save" /\ mClient'[c].at = "delete"
<1> DEFINE old == mClient[c]
           p   == old.request
           g   == [token |-> old.token, refresh |-> old.refresh, status |-> "authorized", expired |-> FALSE]
           new == [old EXCEPT !.at = "delete"]
           key == <<ProviderOf[p.server], p.user>>
<1>1. McpTyped /\ old \in ClientTypes /\ old.at = "save" /\ ClientOK(old, mIssued)
  BY DEF McpInv, McpTyped, Mcp!SaveGrant
<1>2. /\ mGrants' = [mGrants EXCEPT ![key] = g] /\ mClient' = [mClient EXCEPT ![c] = new]
      /\ UNCHANGED <<mPending, mRequests, mRun, mIssued>>
  BY DEF Mcp!SaveGrant, Mcp!NewGrant
<1>3. p \in Pendings /\ ProviderOf[p.server] # Static /\ IsFor(mIssued, old.token, p.server, p.user)
  BY <1>1 DEF ClientOK
<1>4. p.server \in Mcp!Names /\ p.user \in Users BY <1>3 DEF Pendings
<1>5. key \in Mcp!Keys BY <1>3, <1>4, KeyOf
<1>6. g \in Rows /\ g.token = old.token BY <1>1 DEF Rows, ClientTypes
<1>7. new \in ClientTypes /\ new.at = "delete" /\ new.request = p BY <1>1 DEF ClientTypes
<1>8. g.token \in DOMAIN mIssued /\ mIssued[g.token] = key BY <1>3, <1>6 DEF IsFor
<1> HIDE DEF g, new, key
<1>9. /\ mGrants' \in [Mcp!Keys -> Rows]
      /\ \A k \in Mcp!Keys : mGrants'[k] = IF k = key THEN g ELSE mGrants[k]
  BY <1>1, <1>2, <1>5, <1>6 DEF McpTyped
<1>10. RowsOK' BY <1>2, <1>8, <1>9 DEF McpInv, RowsOK
<1>11. ClientOK(new, mIssued') BY <1>3, <1>7 DEF ClientOK
<1>12. /\ mClient' \in [McpClients -> ClientTypes] /\ mClient'[c] = new
       /\ \A d \in McpClients : mClient'[d] = mClient[d] \/ ClientOK(mClient'[d], mIssued')
  BY <1>1, <1>2, <1>7, <1>11 DEF McpTyped
<1>13. PendingOK' BY <1>2 DEF McpInv, PendingOK
<1>14. McpInv' BY <1>1, <1>2, <1>9, <1>10, <1>12, <1>13, McpMoves DEF McpTyped, IssuesMore
<1> QED BY <1>1, <1>7, <1>12, <1>14

(* The authorization is taken away once its grant is saved.                  *)
LEMMA DeleteStep ==
  ASSUME McpInv, NEW c \in McpClients, Mcp!DeletePending(c)
  PROVE  McpInv'
BY ClientMoves, Unborns DEF Mcp!DeletePending, IssuesMore

(* Revoking and expiring leave the tokens of a row.                          *)
LEMMA RowSteps ==
  ASSUME McpInv, NEW k \in Mcp!Keys, Mcp!Revoke(k) \/ Mcp!Expire(k)
  PROVE  McpInv' /\ \A q \in Mcp!Keys : mGrants'[q].refresh = mGrants[q].refresh
<1>1. McpTyped BY DEF McpInv
<1>2. UNCHANGED <<mPending, mRequests, mIssued, mClient, mRun>> BY DEF Mcp!Revoke, Mcp!Expire
<1>3. PICK new \in Rows :
        /\ mGrants' = [mGrants EXCEPT ![k] = new] /\ mGrants[k].status = "authorized"
        /\ new.token = mGrants[k].token /\ new.refresh = mGrants[k].refresh
  <2>1. mGrants[k] \in Rows BY <1>1 DEF McpTyped
  <2>2. CASE Mcp!Revoke(k)
    <3> DEFINE new == [mGrants[k] EXCEPT !.status = "revoked"]
    <3>1. /\ new \in Rows /\ new.token = mGrants[k].token /\ new.refresh = mGrants[k].refresh
          /\ mGrants' = [mGrants EXCEPT ![k] = new] /\ mGrants[k].status = "authorized"
      BY <2>1, <2>2 DEF Mcp!Revoke, Rows
    <3> QED BY <3>1
  <2>3. CASE Mcp!Expire(k)
    <3> DEFINE new == [mGrants[k] EXCEPT !.expired = TRUE]
    <3>1. /\ new \in Rows /\ new.token = mGrants[k].token /\ new.refresh = mGrants[k].refresh
          /\ mGrants' = [mGrants EXCEPT ![k] = new] /\ mGrants[k].status = "authorized"
      BY <2>1, <2>3 DEF Mcp!Expire, Rows
    <3> QED BY <3>1
  <2> QED BY <2>2, <2>3
<1>4. /\ mGrants' \in [Mcp!Keys -> Rows]
      /\ \A q \in Mcp!Keys : mGrants'[q] = IF q = k THEN new ELSE mGrants[q]
  BY <1>1, <1>3 DEF McpTyped
<1>5. RowsOK' BY <1>2, <1>3, <1>4 DEF McpInv, RowsOK
<1>6. PendingOK' BY <1>2 DEF McpInv, PendingOK
<1>7. McpInv' BY <1>1, <1>2, <1>4, <1>5, <1>6, McpMoves DEF McpTyped, IssuesMore
<1> QED BY <1>3, <1>4, <1>7

(* A restart leaves the store, and the runs that were connecting without     *)
(* tokens.                                                                   *)
LEMMA McpRestartStep ==
  ASSUME McpInv, Mcp!Restart
  PROVE  McpInv'
<1>1. McpTyped BY DEF McpInv
<1>2. /\ mClient' = [c \in McpClients |-> Mcp!Resting]
      /\ mRun' = [r \in McpRuns |-> IF mRun[r].at \in {"connect", "headers", "refresh", "save"}
                                    THEN Mcp!Unborn ELSE mRun[r]]
      /\ UNCHANGED <<mGrants, mPending, mRequests, mIssued>>
  BY DEF Mcp!Restart
<1>3. Mcp!Unborn \in RunTypes /\ \A r, tokens : RunOK(Mcp!Unborn, r, tokens)
  <2>1. Mcp!Unborn = [Mcp!Unborn EXCEPT !.at = "idle"] BY Unborns
  <2> QED BY <2>1, Unborns
<1>4. /\ mClient' \in [McpClients -> ClientTypes]
      /\ \A c \in McpClients : ClientOK(mClient'[c], mIssued')
  BY <1>2, Unborns
<1>5. /\ mRun' \in [McpRuns -> RunTypes]
      /\ \A r \in McpRuns : mRun'[r] = mRun[r] \/ RunOK(mRun'[r], r, mIssued')
  BY <1>1, <1>2, <1>3 DEF McpTyped
<1>6. RowsOK' /\ PendingOK' BY <1>2 DEF McpInv, RowsOK, PendingOK
<1> QED BY <1>1, <1>2, <1>4, <1>5, <1>6, McpMoves DEF McpTyped, IssuesMore

(* A grant that can be refreshed can be after the step, or a client has saved one.      *)
Refreshable ==
  \A k \in Mcp!Keys :
    mGrants[k].refresh # 0 /\ mGrants'[k].refresh = 0 =>
      \E c \in McpClients : mClient[c].at = "save" /\ mClient'[c].at = "delete"

(* Every step keeps the invariant, and no step but SaveGrant makes a grant   *)
(* unrefreshable.                                                            *)
LEMMA McpNext ==
  ASSUME McpInv, [Mcp!Next]_mcpVars
  PROVE  McpInv' /\ Refreshable
<1>1. CASE UNCHANGED mcpVars
  <2>1. UNCHANGED <<mGrants, mPending, mRequests, mIssued, mClient, mRun>> BY <1>1 DEF mcpVars
  <2> QED BY <2>1 DEF McpInv, McpTyped, RowsOK, PendingOK, Refreshable
<1>2. ASSUME NEW r \in McpRuns, Mcp!RunStep(r) PROVE McpInv' /\ Refreshable
  <2>1. CASE Mcp!Start(r) \/ Mcp!Approve(r)
    BY <2>1, StartSteps DEF Refreshable, Mcp!Start, Mcp!Approve
  <2>2. CASE Mcp!Connect(r) BY <2>2, ConnectStep DEF Refreshable, Mcp!Connect
  <2>3. CASE Mcp!Headers(r) BY <2>3, HeadersStep DEF Refreshable, Mcp!Headers
  <2>4. CASE Mcp!Refresh(r) BY <2>4, RefreshStep DEF Refreshable, Mcp!Refresh
  <2>5. CASE Mcp!SaveRefreshed(r) BY <2>5, SaveRefreshedStep DEF Refreshable
  <2> QED BY <1>2, <2>1, <2>2, <2>3, <2>4, <2>5 DEF Mcp!RunStep
<1>3. ASSUME NEW r \in McpRuns, NEW s \in Mcp!Names, Mcp!StartAuthorization(r, s)
      PROVE  McpInv' /\ Refreshable
  BY <1>3, AuthorizeStep DEF Refreshable, Mcp!StartAuthorization
<1>4. ASSUME NEW c \in McpClients,
             \/ Mcp!Exchange(c) \/ Mcp!SaveGrant(c) \/ Mcp!DeletePending(c)
             \/ \E p \in mPending : Mcp!Complete(c, p)
      PROVE  McpInv' /\ Refreshable
  <2>1. CASE Mcp!Exchange(c) BY <2>1, ExchangeStep DEF Refreshable, Mcp!Exchange
  <2>2. CASE Mcp!SaveGrant(c) BY <2>2, SaveGrantStep DEF Refreshable
  <2>3. CASE Mcp!DeletePending(c) BY <2>3, DeleteStep DEF Refreshable, Mcp!DeletePending
  <2>4. CASE \E p \in mPending : Mcp!Complete(c, p)
    BY <2>4, CompleteStep DEF Refreshable, Mcp!Complete
  <2> QED BY <1>4, <2>1, <2>2, <2>3, <2>4
<1>5. ASSUME NEW k \in Mcp!Keys, Mcp!Revoke(k) \/ Mcp!Expire(k) PROVE McpInv' /\ Refreshable
  BY <1>5, RowSteps DEF Refreshable
<1>6. CASE Mcp!Restart BY <1>6, McpRestartStep DEF Refreshable, Mcp!Restart
<1> QED BY <1>1, <1>2, <1>3, <1>4, <1>5, <1>6 DEF Mcp!Next

(* A run is connected with tokens of its own user, of the provider of the server.       *)
THEOREM ConnectedWithOwnTokens == ServicesSpec => []OwnTokens
<1>1. ServicesInit => McpInv BY McpInit DEF ServicesInit
<1>2. McpInv /\ [ServicesNext]_services => McpInv' BY McpSteps, McpNext
<1>3. McpInv => OwnTokens
  BY DEF McpInv, RunOK, IsFor, OwnTokens, Mcp!OwnTokens
<1> QED BY <1>1, <1>2, <1>3, PTL DEF ServicesSpec

(* A refresh does not lose the ability to refresh.                                 *)
THEOREM RefreshableForGood == ServicesSpec => StaysRefreshable
<1>1. ServicesInit => McpInv BY McpInit DEF ServicesInit
<1>2. McpInv /\ [ServicesNext]_services => McpInv' BY McpSteps, McpNext
<1>3. McpInv /\ [ServicesNext]_services =>
        [\A k \in Mcp!Keys :
           mGrants[k].refresh # 0 /\ mGrants'[k].refresh = 0 =>
             \E c \in McpClients : mClient[c].at = "save" /\ mClient'[c].at = "delete"]_(Mcp!mvars)
  BY McpSteps, McpNext DEF Refreshable
<1> QED BY <1>1, <1>2, <1>3, PTL DEF ServicesSpec, StaysRefreshable, Mcp!StaysRefreshable

-----------------------------------------------------------------------------
(*****************************************************************************)
(* The installation of skills.                                                *)
(*****************************************************************************)
Files == UNION {Skills!Parts(b) : b \in Bundles}
Dirs  == [there : BOOLEAN, parts : SUBSET Files]
SkillKeys  == {<<"skill.install", "primary_agent", "none", "skill", mode>> : mode \in Skills!Modes}
Installing == {"clear", "make", "copy", "remove", "rename"}
Jobs ==
  [at : {"idle", "validate", "check", "decide"} \cup Installing,
   run : SkillRuns \cup {Skills!NoJob.run}, mode : Skills!Modes, via : {"tool", "client"},
   valid : {FALSE} \cup {b.valid : b \in Bundles}, scripts : {FALSE} \cup {b.scripts : b \in Bundles},
   overwrite : BOOLEAN]
Question == [run : SkillRuns, mode : Skills!Modes, via : {"tool", "client"}, key : SkillKeys, open : BOOLEAN]

SkillsTyped ==
  /\ iSource \in Bundles /\ iTarget \in Dirs /\ iStaging \in Dirs
  /\ iJob \in [Installers -> Jobs] /\ iQuestions \in Seq(Question)
  /\ iGrants \in [SkillRuns -> SUBSET SkillKeys]

(* An installation that has passed the policy was granted what it had to ask for; *)
(* it finds a skill there only if it may replace it; and what it has copied is of   *)
(* the bundle that is staged, all of it once it removes the skill there was.       *)
JobOK(t) ==
  LET j == iJob[t] IN
  /\ j.at # "idle" => j.run \in SkillRuns
  /\ j.at \in {"check", "decide"} \cup Installing => j.scripts = iSource.scripts
  /\ j.at \in {"decide"} \cup Installing /\ j.mode = "fail_if_exists" => ~iTarget.there
  /\ j.at \in Installing /\ (j.scripts \/ j.mode = "replace") =>
       Skills!Policy!Boundary(Skills!OperationOf(j)) \in iGrants[j.run]
  /\ j.at = "copy" => iStaging.there /\ iStaging.parts \subseteq Skills!Parts(iSource)
  /\ j.at \in {"remove", "rename"} => iStaging.there /\ iStaging.parts = Skills!Parts(iSource)

(* Installations do not overlap.                                              *)
OneJob == \A t, u \in Installers : iJob[t].at # "idle" /\ iJob[u].at # "idle" => t = u

SkillsInv == SkillsTyped /\ OneJob /\ \A t \in Installers : JobOK(t)

(* A step of the composition is one of the installation, or leaves it        *)
(* alone.                                                                    *)
LEMMA SkillsSteps == [ServicesNext]_services => [Skills!Next]_skillsVars
BY DEF ServicesNext, services, Resting

(* A thread that installs nothing has the job of none.                       *)
LEMMA NoJobType == Skills!NoJob \in Jobs /\ Skills!NoJob.at = "idle" /\ Skills!NoJob.scripts = FALSE
BY DEF Skills!NoJob, Jobs, Skills!Modes

(* At first nothing is staged, installed or asked.                           *)
LEMMA SkillsInit == Skills!Init => SkillsInv
<1> SUFFICES ASSUME Skills!Init PROVE SkillsInv
  OBVIOUS
<1>1. SkillsTyped
  BY NoJobType DEF Skills!Init, SkillsTyped, Skills!Absent, Dirs
<1>2. \A t \in Installers : iJob[t].at = "idle" BY NoJobType DEF Skills!Init
<1> QED BY <1>1, <1>2 DEF SkillsInv, OneJob, JobOK, Installing

(* What the boundary of an installation is, and what the policy lets pass.         *)
LEMMA SkillBoundary ==
  ASSUME NEW j \in Jobs
  PROVE  /\ Skills!Policy!Boundary(Skills!OperationOf(j)) =
              <<"skill.install", "primary_agent", "none", "skill", j.mode>>
         /\ Skills!Policy!Boundary(Skills!OperationOf(j)) \in SkillKeys
         /\ \A grants1 : Skills!Policy!Evaluate(Skills!OperationOf(j), grants1) = "ALLOW"
                         /\ (j.scripts \/ j.mode = "replace") =>
              Skills!Policy!Boundary(Skills!OperationOf(j)) \in grants1
<1> DEFINE op == Skills!OperationOf(j)
<1>1. op = [type |-> "skill.install", scope |-> "primary_agent", role |-> "none", skill |-> "skill",
            mode |-> j.mode, scripts |-> j.scripts, overwrite |-> j.overwrite, escapes |-> FALSE]
  BY DEF Skills!OperationOf
<1>2. /\ op.type = "skill.install" /\ op.scope = "primary_agent" /\ op.role = "none"
      /\ op.skill = "skill" /\ op.mode = j.mode /\ op.scripts = j.scripts
  BY <1>1
<1> HIDE DEF op
<1>3. Skills!Policy!Boundary(op) = <<op.type, op.scope, op.role, op.skill, op.mode>>
  BY <1>2 DEF Skills!Policy!Boundary, Skills!Policy!AuthTypes, Skills!Policy!WebTypes
<1>4. (j.scripts \/ j.mode = "replace") => Skills!Policy!RequiresApproval(op)
  BY <1>2 DEF Skills!Policy!RequiresApproval, Skills!Policy!AuthTypes, Skills!Policy!WebTypes
<1>5. \A grants1 : Skills!Policy!Evaluate(op, grants1) = "ALLOW" /\ Skills!Policy!RequiresApproval(op) =>
        Skills!Policy!Boundary(op) \in grants1
  BY DEF Skills!Policy!Evaluate
<1>6. j.mode \in Skills!Modes BY DEF Jobs
<1> QED BY <1>2, <1>3, <1>4, <1>5, <1>6 DEF SkillKeys, op

(* A thread that installs, or begins to, is the only one.                         *)
Alone(t) == \A u \in Installers \ {t} : iJob[u].at = "idle"

(* A step of the only thread that installs keeps the invariant if its own    *)
(* job is good after it.                                                     *)
LEMMA JobMoves ==
  ASSUME SkillsInv, NEW t \in Installers, Alone(t),
         NEW new \in Jobs, iJob' = [iJob EXCEPT ![t] = new], JobOK(t)',
         iSource' \in Bundles, iTarget' \in Dirs, iStaging' \in Dirs, iQuestions' \in Seq(Question),
         iGrants' \in [SkillRuns -> SUBSET SkillKeys]
  PROVE  SkillsInv'
<1>1. iJob' \in [Installers -> Jobs] /\ \A u \in Installers \ {t} : iJob'[u].at = "idle"
  BY DEF SkillsInv, SkillsTyped, Alone
<1>2. OneJob' BY <1>1 DEF OneJob
<1>3. \A u \in Installers \ {t} : JobOK(u)' BY <1>1 DEF JobOK, Installing
<1> QED BY <1>1, <1>2, <1>3 DEF SkillsInv, SkillsTyped

(* An installation that ends, whatever it leaves on the disk, leaves no job  *)
(* behind.                                                                   *)
LEMMA JobEnds ==
  ASSUME SkillsInv, NEW t \in Installers, iJob[t].at # "idle", Skills!Ends(t),
         UNCHANGED <<iSource, iGrants>>, iTarget' \in Dirs, iStaging' \in Dirs,
         iQuestions' \in Seq(Question)
  PROVE  SkillsInv'
<1>1. Alone(t) /\ SkillsTyped BY DEF SkillsInv, OneJob, Alone
<1>2. iJob' = [iJob EXCEPT ![t] = Skills!NoJob] BY DEF Skills!Ends
<1>3. iJob'[t] = Skills!NoJob BY <1>1, <1>2 DEF SkillsTyped
<1>4. JobOK(t)' BY <1>3, NoJobType DEF JobOK, Installing
<1> QED BY <1>1, <1>2, <1>4, NoJobType, JobMoves DEF SkillsTyped

(* A thread that goes to another step of the installation.                       *)
LEMMA JobGoes ==
  ASSUME SkillsInv, NEW t \in Installers, iJob[t].at # "idle", NEW step \in Installing \cup {"decide"},
         Skills!Goes(t, step), UNCHANGED <<iSource, iGrants>>
  PROVE  /\ Alone(t) /\ SkillsTyped /\ JobOK(t) /\ iJob'[t] \in Jobs
         /\ iJob' = [iJob EXCEPT ![t] = iJob'[t]]
         /\ iJob'[t].at = step /\ iJob'[t].run = iJob[t].run /\ iJob'[t].mode = iJob[t].mode
         /\ iJob'[t].scripts = iJob[t].scripts
         /\ Skills!OperationOf(iJob'[t]) = Skills!OperationOf(iJob[t])
<1>1. Alone(t) /\ SkillsTyped /\ JobOK(t) BY DEF SkillsInv, OneJob, Alone
<1>2. iJob' = [iJob EXCEPT ![t] = [iJob[t] EXCEPT !.at = step]] BY DEF Skills!Goes
<1>3. iJob[t] \in Jobs /\ iJob'[t] = [iJob[t] EXCEPT !.at = step] BY <1>1, <1>2 DEF SkillsTyped
<1>4. iJob'[t] \in Jobs /\ iJob'[t].at = step /\ iJob'[t].run = iJob[t].run
      /\ iJob'[t].mode = iJob[t].mode /\ iJob'[t].scripts = iJob[t].scripts
      /\ iJob'[t].overwrite = iJob[t].overwrite
  BY <1>3 DEF Jobs, Installing
<1>5. Skills!OperationOf(iJob'[t]) = Skills!OperationOf(iJob[t])
  BY <1>4 DEF Skills!OperationOf
<1> QED BY <1>1, <1>2, <1>3, <1>4, <1>5

(* A step of the installation that leaves the job where it is.                   *)
LEMMA JobStays ==
  ASSUME SkillsInv, NEW t \in Installers, iJob[t].at # "idle",
         UNCHANGED <<iJob, iSource, iGrants, iQuestions>>, iTarget' \in Dirs, iStaging' \in Dirs,
         JobOK(t)'
  PROVE  SkillsInv'
<1>1. Alone(t) /\ SkillsTyped BY DEF SkillsInv, OneJob, Alone
<1>2. iJob[t] \in Jobs /\ iJob' = [iJob EXCEPT ![t] = iJob[t]] BY <1>1 DEF SkillsTyped
<1> QED BY <1>1, <1>2, JobMoves DEF SkillsTyped

(* A directory that is not there has no files.                               *)
LEMMA AbsentType == Skills!Absent \in Dirs /\ Skills!Absent.parts = {} /\ Skills!Absent.there = FALSE
BY DEF Skills!Absent, Dirs

(* Removing a directory.                                                       *)
LEMMA Removing ==
  ASSUME NEW d \in Dirs, NEW e \in Skills!RemoveSome(d)
  PROVE  e \in Dirs /\ e.parts \subseteq d.parts
<1>1. CASE d.parts = {} BY <1>1, AbsentType DEF Skills!RemoveSome
<1>2. CASE d.parts # {}
  <2>1. PICK p \in d.parts : e = [d EXCEPT !.parts = @ \ {p}] BY <1>2 DEF Skills!RemoveSome
  <2> QED BY <2>1 DEF Dirs
<1> QED BY <1>1, <1>2

(* skill.install is taken up when no other installation is under way.        *)
LEMMA SkillsRequest ==
  ASSUME SkillsInv, NEW t \in Installers, NEW r \in SkillRuns, NEW mode \in Skills!Modes,
         NEW via \in {"tool", "client"}, Skills!Quiet,
         iJob' = [iJob EXCEPT ![t] = [Skills!NoJob EXCEPT !.at = "validate", !.run = r,
                                                          !.mode = mode, !.via = via]],
         UNCHANGED <<iSource, iTarget, iStaging>>, iQuestions' \in Seq(Question),
         iGrants' \in [SkillRuns -> SUBSET SkillKeys]
  PROVE  SkillsInv'
<1> DEFINE new == [Skills!NoJob EXCEPT !.at = "validate", !.run = r, !.mode = mode, !.via = via]
<1>1. Alone(t) /\ SkillsTyped BY DEF Skills!Quiet, Alone, SkillsInv
<1>2. new \in Jobs /\ new.at = "validate" /\ new.run = r
  BY NoJobType DEF Jobs
<1>3. iJob' = [iJob EXCEPT ![t] = new] OBVIOUS
<1> HIDE DEF new
<1>4. iJob'[t] = new BY <1>1, <1>3 DEF SkillsTyped
<1>5. JobOK(t)' BY <1>2, <1>4 DEF JobOK, Installing
<1> QED BY <1>1, <1>2, <1>3, <1>5, JobMoves DEF SkillsTyped

(* The answer to a question grants the boundary that was asked for.          *)
LEMMA SkillsApprove ==
  ASSUME SkillsInv, NEW t \in Installers, NEW i \in DOMAIN iQuestions, Skills!Approve(t, i)
  PROVE  SkillsInv'
<1> DEFINE q == iQuestions[i]
           answered == [q EXCEPT !.open = FALSE]
<1>1. SkillsTyped /\ iQuestions \in Seq(Question) BY DEF SkillsInv, SkillsTyped
<1>2. q \in Question
  <2>1. i \in 1..Len(iQuestions) BY <1>1
  <2> QED BY <1>1, <2>1, ElementOfSeq
<1>3. answered \in Question BY <1>2 DEF Question
<1>4. iQuestions' = [iQuestions EXCEPT ![i] = answered] BY DEF Skills!Approve
<1>5. q.run \in SkillRuns /\ q.mode \in Skills!Modes /\ q.key \in SkillKeys BY <1>2 DEF Question
<1> HIDE DEF answered
<1>6. iQuestions' \in Seq(Question) BY <1>1, <1>3, <1>4
<1>7. iGrants' \in [SkillRuns -> SUBSET SkillKeys]
      /\ \A r \in SkillRuns : iGrants[r] \subseteq iGrants'[r]
  BY <1>1, <1>5 DEF Skills!Approve, SkillsTyped
<1>8. UNCHANGED <<iSource, iTarget, iStaging>> /\ Skills!Quiet
  BY DEF Skills!Approve, Skills!Outside, Skills!Disk
<1>9. CASE q.via = "client"
  <2>1. iJob' = [iJob EXCEPT ![t] = [Skills!NoJob EXCEPT !.at = "validate", !.run = q.run,
                                                          !.mode = q.mode, !.via = "client"]]
    BY <1>9 DEF Skills!Approve
  <2> HIDE DEF q
  <2> QED BY <1>5, <1>6, <1>7, <1>8, <2>1, SkillsRequest
<1>10. CASE q.via # "client"
  <2>1. UNCHANGED iJob BY <1>10 DEF Skills!Approve
  <2>2. \A u \in Installers : JobOK(u)'
    BY <1>1, <1>8, <2>1 DEF JobOK, Installing, Skills!Quiet
  <2> QED BY <1>1, <1>6, <1>7, <1>8, <2>1, <2>2 DEF SkillsInv, SkillsTyped, OneJob
<1> QED BY <1>9, <1>10

(* Reading the bundle, asking the policy and looking for the skill that is   *)
(* there.                                                                    *)
LEMMA SkillsBegin ==
  ASSUME SkillsInv, NEW t \in Installers, Skills!Validate(t) \/ Skills!Check(t) \/ Skills!Decide(t)
  PROVE  SkillsInv'
<1> USE DEF Skills!Outside, Skills!Disk
<1>1. SkillsTyped /\ OneJob /\ JobOK(t) /\ iJob[t] \in Jobs BY DEF SkillsInv, SkillsTyped
<1>2. CASE Skills!Validate(t)
  <2> DEFINE new == [iJob[t] EXCEPT !.at = "check", !.valid = iSource.valid, !.scripts = iSource.scripts]
  <2>1. iJob' = [iJob EXCEPT ![t] = new] /\ iJob[t].at = "validate"
        /\ UNCHANGED <<iSource, iTarget, iStaging, iQuestions, iGrants>>
    BY <1>2 DEF Skills!Validate
  <2>2. iSource.valid \in {b.valid : b \in Bundles} /\ iSource.scripts \in {b.scripts : b \in Bundles}
    BY <1>1 DEF SkillsTyped
  <2>3. new \in Jobs /\ new.at = "check" /\ new.scripts = iSource.scripts /\ new.run = iJob[t].run
    BY <1>1, <2>2 DEF Jobs
  <2> HIDE DEF new
  <2>4. iJob'[t] = new /\ Alone(t) BY <1>1, <2>1 DEF SkillsTyped, OneJob, Alone
  <2>5. JobOK(t)' BY <1>1, <2>1, <2>3, <2>4 DEF JobOK, Installing
  <2> QED BY <1>1, <2>1, <2>3, <2>4, <2>5, JobMoves DEF SkillsTyped
<1>3. CASE Skills!Check(t)
  <2>0. iJob[t].at = "check" /\ UNCHANGED <<iSource, iTarget, iStaging, iQuestions, iGrants>>
    BY <1>3 DEF Skills!Check
  <2>1. CASE Skills!Ends(t) BY <1>1, <2>0, <2>1, JobEnds DEF SkillsTyped
  <2>2. CASE ~Skills!Ends(t)
    <3> DEFINE new == [iJob[t] EXCEPT !.at = "decide", !.overwrite = iTarget.there]
    <3>1. iJob' = [iJob EXCEPT ![t] = new] /\ ~(iTarget.there /\ iJob[t].mode = "fail_if_exists")
      BY <1>3, <2>2 DEF Skills!Check
    <3>2. iTarget.there \in BOOLEAN BY <1>1 DEF SkillsTyped, Dirs
    <3>3. /\ new \in Jobs /\ new.at = "decide" /\ new.scripts = iJob[t].scripts
          /\ new.run = iJob[t].run /\ new.mode = iJob[t].mode
      BY <1>1, <3>2 DEF Jobs
    <3> HIDE DEF new
    <3>4. iJob'[t] = new /\ Alone(t) BY <1>1, <2>0, <3>1 DEF SkillsTyped, OneJob, Alone
    <3>5. JobOK(t)' BY <1>1, <2>0, <3>1, <3>3, <3>4 DEF JobOK, Installing
    <3> QED BY <1>1, <2>0, <3>1, <3>3, <3>4, <3>5, JobMoves DEF SkillsTyped
  <2> QED BY <2>1, <2>2
<1>4. CASE Skills!Decide(t)
  <2> DEFINE op == Skills!OperationOf(iJob[t])
             decision == Skills!Policy!Evaluate(op, iGrants[iJob[t].run])
  <2>0. iJob[t].at = "decide" /\ UNCHANGED <<iSource, iTarget, iStaging, iGrants>>
    BY <1>4 DEF Skills!Decide
  <2>1. CASE decision = "ALLOW"
    <3>1. Skills!Goes(t, "clear") /\ UNCHANGED iQuestions BY <1>4, <2>1 DEF Skills!Decide
    <3>2. /\ Alone(t) /\ iJob'[t] \in Jobs /\ iJob' = [iJob EXCEPT ![t] = iJob'[t]]
          /\ iJob'[t].at = "clear" /\ iJob'[t].run = iJob[t].run /\ iJob'[t].mode = iJob[t].mode
          /\ iJob'[t].scripts = iJob[t].scripts
          /\ Skills!OperationOf(iJob'[t]) = Skills!OperationOf(iJob[t])
      BY <2>0, <3>1, JobGoes DEF Installing
    <3>3. iJob[t].scripts \/ iJob[t].mode = "replace" =>
            Skills!Policy!Boundary(op) \in iGrants[iJob[t].run]
      BY <1>1, <2>1, SkillBoundary
    <3>4. JobOK(t)' BY <1>1, <2>0, <3>2, <3>3 DEF JobOK, Installing
    <3> QED BY <1>1, <2>0, <3>1, <3>2, <3>4, JobMoves DEF SkillsTyped
  <2>2. CASE Skills!Ends(t) /\ UNCHANGED iQuestions
    BY <1>1, <2>0, <2>2, JobEnds DEF SkillsTyped
  <2>3. CASE decision = "REQUIRE_APPROVAL"
    <3> DEFINE q == [run |-> iJob[t].run, mode |-> iJob[t].mode, via |-> iJob[t].via,
                     key |-> Skills!Policy!Boundary(op), open |-> TRUE]
    <3>1. iQuestions' = Append(iQuestions, q) /\ Skills!Ends(t) BY <1>4, <2>3 DEF Skills!Decide
    <3>2. q \in Question
      <4>1. iJob[t].run \in SkillRuns BY <1>1, <2>0 DEF JobOK
      <4>2. Skills!Policy!Boundary(op) \in SkillKeys BY <1>1, SkillBoundary
      <4>3. iJob[t].mode \in Skills!Modes /\ iJob[t].via \in {"tool", "client"} BY <1>1 DEF Jobs
      <4> HIDE DEF op
      <4> QED BY <4>1, <4>2, <4>3 DEF Question
    <3> HIDE DEF q
    <3>3. iQuestions' \in Seq(Question) BY <1>1, <3>1, <3>2 DEF SkillsTyped
    <3> QED BY <1>1, <2>0, <3>1, <3>3, JobEnds DEF SkillsTyped
  <2>4. decision \in {"ALLOW", "DENY", "REQUIRE_APPROVAL"} BY DEF Skills!Policy!Evaluate
  <2>5. decision = "DENY" => Skills!Ends(t) /\ UNCHANGED iQuestions BY <1>4 DEF Skills!Decide
  <2> QED BY <2>1, <2>2, <2>3, <2>4, <2>5
<1> QED BY <1>2, <1>3, <1>4

(* The steps on the disk: what is staged is of the bundle, and whole when    *)
(* it is renamed.                                                            *)
LEMMA SkillsInstall ==
  ASSUME SkillsInv, NEW t \in Installers,
         Skills!Clear(t) \/ Skills!Make(t) \/ Skills!Copy(t) \/ Skills!Remove(t) \/ Skills!Rename(t)
  PROVE  SkillsInv'
<1> USE DEF Skills!Outside, Skills!Disk
<1>1. SkillsTyped /\ OneJob /\ JobOK(t) /\ iJob[t] \in Jobs BY DEF SkillsInv, SkillsTyped
<1>2. /\ iJob[t].at \in Installing /\ iJob[t].at # "idle"
      /\ UNCHANGED <<iSource, iQuestions, iGrants>>
  BY DEF Skills!Clear, Skills!Make, Skills!Copy, Skills!Remove, Skills!Rename, Installing
<1>3. CASE Skills!Clear(t)
  <2>1. UNCHANGED iTarget /\ iJob[t].at = "clear" BY <1>3 DEF Skills!Clear
  <2>2. CASE iStaging.there
    <3>1. iStaging' \in Skills!RemoveSome(iStaging) /\ UNCHANGED iJob BY <1>3, <2>2 DEF Skills!Clear
    <3>2. iStaging' \in Dirs BY <1>1, <3>1, Removing DEF SkillsTyped
    <3>3. JobOK(t)' BY <1>1, <1>2, <2>1, <3>1 DEF JobOK
    <3> QED BY <1>1, <1>2, <2>1, <3>1, <3>2, <3>3, JobStays DEF SkillsTyped
  <2>3. CASE ~iStaging.there
    <3>1. Skills!Goes(t, "make") /\ UNCHANGED iStaging BY <1>3, <2>3 DEF Skills!Clear
    <3>2. /\ Alone(t) /\ iJob'[t] \in Jobs /\ iJob' = [iJob EXCEPT ![t] = iJob'[t]]
          /\ iJob'[t].at = "make" /\ iJob'[t].run = iJob[t].run /\ iJob'[t].mode = iJob[t].mode
          /\ iJob'[t].scripts = iJob[t].scripts
          /\ Skills!OperationOf(iJob'[t]) = Skills!OperationOf(iJob[t])
      BY <1>2, <3>1, JobGoes DEF Installing
    <3>3. JobOK(t)' BY <1>1, <1>2, <2>1, <3>2 DEF JobOK, Installing
    <3> QED BY <1>1, <1>2, <2>1, <3>1, <3>2, <3>3, JobMoves DEF SkillsTyped
  <2> QED BY <2>2, <2>3
<1>4. CASE Skills!Make(t)
  <2>1. UNCHANGED iTarget /\ iJob[t].at = "make" BY <1>4 DEF Skills!Make
  <2>2. CASE iStaging.there BY <1>1, <1>2, <1>4, <2>1, <2>2, JobEnds DEF Skills!Make, SkillsTyped
  <2>3. CASE ~iStaging.there
    <3>1. Skills!Goes(t, "copy") /\ iStaging' = [there |-> TRUE, parts |-> {}]
      BY <1>4, <2>3 DEF Skills!Make, Skills!Empty
    <3>2. /\ Alone(t) /\ iJob'[t] \in Jobs /\ iJob' = [iJob EXCEPT ![t] = iJob'[t]]
          /\ iJob'[t].at = "copy" /\ iJob'[t].run = iJob[t].run /\ iJob'[t].mode = iJob[t].mode
          /\ iJob'[t].scripts = iJob[t].scripts
          /\ Skills!OperationOf(iJob'[t]) = Skills!OperationOf(iJob[t])
      BY <1>2, <3>1, JobGoes DEF Installing
    <3>3. JobOK(t)' BY <1>1, <1>2, <2>1, <3>1, <3>2 DEF JobOK, Installing
    <3>4. iStaging' \in Dirs BY <3>1 DEF Dirs
    <3> QED BY <1>1, <1>2, <2>1, <3>2, <3>3, <3>4, JobMoves DEF SkillsTyped
  <2> QED BY <2>2, <2>3
<1>5. CASE Skills!Copy(t)
  <2>1. UNCHANGED iTarget /\ iJob[t].at = "copy" BY <1>5 DEF Skills!Copy
  <2>2. iStaging.there /\ iStaging.parts \subseteq Skills!Parts(iSource) BY <1>1, <2>1 DEF JobOK
  <2>3. CASE Skills!Parts(iSource) \subseteq iStaging.parts
    <3>1. Skills!Goes(t, "remove") /\ UNCHANGED iStaging BY <1>5, <2>2, <2>3 DEF Skills!Copy
    <3>2. /\ Alone(t) /\ iJob'[t] \in Jobs /\ iJob' = [iJob EXCEPT ![t] = iJob'[t]]
          /\ iJob'[t].at = "remove" /\ iJob'[t].run = iJob[t].run /\ iJob'[t].mode = iJob[t].mode
          /\ iJob'[t].scripts = iJob[t].scripts
          /\ Skills!OperationOf(iJob'[t]) = Skills!OperationOf(iJob[t])
      BY <1>2, <3>1, JobGoes DEF Installing
    <3>3. iStaging.parts = Skills!Parts(iSource) BY <2>2, <2>3
    <3>4. JobOK(t)'
      BY <1>1, <1>2, <2>1, <2>2, <3>1, <3>2, <3>3 DEF JobOK, Installing, Skills!Parts
    <3> QED BY <1>1, <1>2, <2>1, <3>1, <3>2, <3>4, JobMoves DEF SkillsTyped
  <2>4. CASE ~(Skills!Parts(iSource) \subseteq iStaging.parts)
    <3>1. PICK p \in Skills!Parts(iSource) : iStaging' = [iStaging EXCEPT !.parts = @ \cup {p}]
      BY <1>5, <2>2, <2>4 DEF Skills!Copy
    <3>2. UNCHANGED iJob BY <1>5, <2>2, <2>4 DEF Skills!Copy
    <3>3. p \in Files /\ iStaging \in Dirs BY <1>1 DEF Files, SkillsTyped
    <3>4. iStaging' \in Dirs /\ iStaging'.there = iStaging.there
          /\ iStaging'.parts = iStaging.parts \cup {p}
      BY <3>1, <3>3 DEF Dirs
    <3>5. Skills!Parts(iSource)' = Skills!Parts(iSource) BY <1>2 DEF Skills!Parts
    <3>6. JobOK(t)' BY <1>1, <1>2, <2>1, <2>2, <3>2, <3>4, <3>5 DEF JobOK
    <3> QED BY <1>1, <1>2, <2>1, <3>2, <3>4, <3>6, JobStays DEF SkillsTyped
  <2> QED BY <2>3, <2>4
<1>6. CASE Skills!Remove(t)
  <2>1. UNCHANGED iStaging /\ iJob[t].at = "remove" BY <1>6 DEF Skills!Remove
  <2>2. CASE iTarget.there
    <3>1. iTarget' \in Skills!RemoveSome(iTarget) /\ UNCHANGED iJob BY <1>6, <2>2 DEF Skills!Remove
    <3>2. iTarget' \in Dirs BY <1>1, <3>1, Removing DEF SkillsTyped
    <3>3. iJob[t].mode # "fail_if_exists" BY <1>1, <1>2, <2>2 DEF JobOK
    <3>4. JobOK(t)' BY <1>1, <1>2, <2>1, <3>1, <3>3 DEF JobOK, Skills!Parts
    <3> QED BY <1>1, <1>2, <2>1, <3>1, <3>2, <3>4, JobStays DEF SkillsTyped
  <2>3. CASE ~iTarget.there
    <3>1. Skills!Goes(t, "rename") /\ UNCHANGED iTarget BY <1>6, <2>3 DEF Skills!Remove
    <3>2. /\ Alone(t) /\ iJob'[t] \in Jobs /\ iJob' = [iJob EXCEPT ![t] = iJob'[t]]
          /\ iJob'[t].at = "rename" /\ iJob'[t].run = iJob[t].run /\ iJob'[t].mode = iJob[t].mode
          /\ iJob'[t].scripts = iJob[t].scripts
          /\ Skills!OperationOf(iJob'[t]) = Skills!OperationOf(iJob[t])
      BY <1>2, <3>1, JobGoes DEF Installing
    <3>3. JobOK(t)' BY <1>1, <1>2, <2>1, <3>1, <3>2 DEF JobOK, Installing, Skills!Parts
    <3> QED BY <1>1, <1>2, <2>1, <3>1, <3>2, <3>3, JobMoves DEF SkillsTyped
  <2> QED BY <2>2, <2>3
<1>7. CASE Skills!Rename(t)
  <2>1. Skills!Ends(t) /\ iTarget' \in Dirs /\ iStaging' \in Dirs
    BY <1>1, <1>7, AbsentType DEF Skills!Rename, SkillsTyped
  <2> QED BY <1>1, <1>2, <2>1, JobEnds DEF SkillsTyped
<1> QED BY <1>3, <1>4, <1>5, <1>6, <1>7

(* Every step of an installation, an answer, a change of the bundle or a     *)
(* crash keeps the invariant.                                                *)
LEMMA SkillsNext == SkillsInv /\ [Skills!Next]_skillsVars => SkillsInv'
<1> SUFFICES ASSUME SkillsInv, [Skills!Next]_skillsVars PROVE SkillsInv'
  OBVIOUS
<1> USE DEF Skills!Outside, Skills!Disk
<1>0. SkillsTyped BY DEF SkillsInv
<1>1. ASSUME UNCHANGED <<iSource, iTarget, iStaging, iJob, iGrants>>, iQuestions' \in Seq(Question)
      PROVE  SkillsInv'
  BY <1>1 DEF SkillsInv, SkillsTyped, OneJob, JobOK, Skills!Parts
<1>2. CASE UNCHANGED skillsVars BY <1>0, <1>1, <1>2 DEF skillsVars, SkillsTyped
<1>3. ASSUME NEW t \in Installers, NEW r \in SkillRuns, NEW mode \in Skills!Modes,
             NEW via \in {"tool", "client"}, Skills!Request(t, r, mode, via)
      PROVE  SkillsInv'
  BY <1>0, <1>3, SkillsRequest DEF Skills!Request, SkillsTyped
<1>4. ASSUME NEW t \in Installers, Skills!Install(t) PROVE SkillsInv'
  BY <1>4, SkillsBegin, SkillsInstall DEF Skills!Install
<1>5. ASSUME NEW t \in Installers, NEW i \in DOMAIN iQuestions, Skills!Approve(t, i) PROVE SkillsInv'
  BY <1>5, SkillsApprove
<1>6. ASSUME NEW i \in DOMAIN iQuestions, Skills!Reject(i) PROVE SkillsInv'
  <2>1. iQuestions \in Seq(Question) BY <1>0 DEF SkillsTyped
  <2>2. iQuestions[i] \in Question
    <3>1. i \in 1..Len(iQuestions) BY <2>1
    <3> QED BY <2>1, <3>1, ElementOfSeq
  <2>3. [iQuestions[i] EXCEPT !.open = FALSE] \in Question BY <2>2 DEF Question
  <2>4. iQuestions' \in Seq(Question) BY <1>6, <2>1, <2>3 DEF Skills!Reject
  <2> QED BY <1>1, <1>6, <2>4 DEF Skills!Reject
<1>7. ASSUME NEW r \in SkillRuns, Skills!StartRun(r) PROVE SkillsInv'
  BY <1>0, <1>1, <1>7 DEF Skills!StartRun, SkillsTyped
<1>8. ASSUME NEW b \in Bundles, Skills!Stage(b) PROVE SkillsInv'
  BY <1>8 DEF Skills!Stage, Skills!Quiet, SkillsInv, SkillsTyped, OneJob, JobOK, Installing
<1>9. CASE Skills!Crash
  BY <1>9, NoJobType DEF Skills!Crash, SkillsInv, SkillsTyped, OneJob, JobOK, Installing
<1> QED BY <1>2, <1>3, <1>4, <1>5, <1>6, <1>7, <1>8, <1>9 DEF Skills!Next

-----------------------------------------------------------------------------
(* Only the last step of an installation puts anything at the target.              *)
LEMMA SkillsTarget ==
  ASSUME SkillsInv, [Skills!Next]_skillsVars
  PROVE  \/ iTarget'.parts \subseteq iTarget.parts /\ (iTarget' = iTarget
              \/ \E t \in Installers : iJob[t].at = "remove" /\ iTarget.there)
         \/ /\ iTarget' = iStaging
            /\ \E t \in Installers : iJob[t].at = "rename" /\ JobOK(t) /\ iJob[t] \in Jobs
<1> USE DEF Skills!Outside, Skills!Disk
<1>1. CASE UNCHANGED iTarget BY <1>1
<1>2. ASSUME NEW t \in Installers, Skills!Remove(t), ~UNCHANGED iTarget
      PROVE  iTarget'.parts \subseteq iTarget.parts /\ iJob[t].at = "remove" /\ iTarget.there
  BY <1>2, Removing DEF Skills!Remove, SkillsInv, SkillsTyped
<1>3. ASSUME NEW t \in Installers, Skills!Rename(t), ~UNCHANGED iTarget
      PROVE  iTarget' = iStaging /\ iJob[t].at = "rename" /\ JobOK(t) /\ iJob[t] \in Jobs
  BY <1>3 DEF Skills!Rename, SkillsInv, SkillsTyped
<1>4. ASSUME Skills!Next PROVE UNCHANGED iTarget \/ \E t \in Installers : Skills!Remove(t) \/ Skills!Rename(t)
  BY <1>4 DEF Skills!Next, Skills!Install, Skills!Request, Skills!Validate, Skills!Check, Skills!Decide,
     Skills!Approve, Skills!Reject, Skills!Clear, Skills!Make, Skills!Copy, Skills!StartRun,
     Skills!Stage, Skills!Crash
<1> QED BY <1>1, <1>2, <1>3, <1>4 DEF skillsVars

(* What is about to be renamed to the target is the whole bundle.            *)
LEMMA RenamedWhole ==
  ASSUME SkillsInv, NEW t \in Installers, iJob[t].at = "rename"
  PROVE  /\ iSource \in Bundles /\ iStaging.parts = Skills!Parts(iSource) /\ Skills!Whole(iStaging)
         /\ iJob[t].scripts = iSource.scripts /\ iJob[t].run \in SkillRuns
BY DEF SkillsInv, SkillsTyped, JobOK, Installing, Skills!Whole

(* What an installation puts at the target is a whole skill, wherever the process    *)
(* dies.                                                                      *)
THEOREM InstalledWhole == ServicesSpec => NeverHalfInstalled
<1>1. ServicesInit => SkillsInv BY SkillsInit DEF ServicesInit
<1>2. SkillsInv /\ [ServicesNext]_services => SkillsInv' BY SkillsSteps, SkillsNext
<1>3. SkillsInv /\ [ServicesNext]_services =>
        [iTarget'.parts \ iTarget.parts # {} => Skills!Whole(iTarget')]_(Skills!svars)
  <2> SUFFICES ASSUME SkillsInv, [ServicesNext]_services, iTarget'.parts \ iTarget.parts # {}
               PROVE  Skills!Whole(iTarget')
    OBVIOUS
  <2>1. [Skills!Next]_skillsVars BY SkillsSteps
  <2>2. iTarget' = iStaging /\ \E t \in Installers : iJob[t].at = "rename" BY <2>1, SkillsTarget
  <2> QED BY <2>2, RenamedWhole
<1> QED BY <1>1, <1>2, <1>3, PTL DEF ServicesSpec, NeverHalfInstalled, Skills!NeverHalfInstalled

(* The boundary of an installation is that of its mode alone.                     *)
LEMMA GrantedMode ==
  ASSUME SkillsInv, NEW t \in Installers, iJob[t].run \in SkillRuns,
         Skills!Policy!Boundary(Skills!OperationOf(iJob[t])) \in iGrants[iJob[t].run]
  PROVE  iJob[t].mode \in Skills!Modes /\ Skills!Granted(iJob[t].mode)
<1> DEFINE plain == [Skills!NoJob EXCEPT !.mode = iJob[t].mode]
<1>1. iJob[t] \in Jobs BY DEF SkillsInv, SkillsTyped
<1>2. iJob[t].mode \in Skills!Modes BY <1>1 DEF Jobs
<1>3. plain \in Jobs /\ plain.mode = iJob[t].mode BY <1>2, NoJobType DEF Jobs
<1> HIDE DEF plain
<1>4. Skills!Policy!Boundary(Skills!OperationOf(plain)) = Skills!Policy!Boundary(Skills!OperationOf(iJob[t]))
  BY <1>1, <1>3, SkillBoundary
<1> QED BY <1>2, <1>4 DEF Skills!Granted, plain

(* A skill is taken away, and one with scripts is put there, only within what the    *)
(* user has granted to some run.                                               *)
THEOREM InstalledWithConsent == ServicesSpec => ChangedWithConsent
<1> DEFINE Answered ==
      /\ Skills!Whole(iTarget) /\ ~Skills!Whole(iTarget') => Skills!Granted("replace")
      /\ (\E b \in Bundles : b.scripts /\ <<b, "rest">> \in iTarget'.parts \ iTarget.parts) =>
           \E mode \in Skills!Modes : Skills!Granted(mode)
<1>1. ServicesInit => SkillsInv BY SkillsInit DEF ServicesInit
<1>2. SkillsInv /\ [ServicesNext]_services => SkillsInv' BY SkillsSteps, SkillsNext
<1>3. SkillsInv /\ [ServicesNext]_services => [Answered]_(Skills!svars)
  <2> SUFFICES ASSUME SkillsInv, [ServicesNext]_services PROVE Answered
    OBVIOUS
  <2>1. [Skills!Next]_skillsVars BY SkillsSteps
  <2>2. ASSUME Skills!Whole(iTarget), ~Skills!Whole(iTarget') PROVE Skills!Granted("replace")
    <3>1. iTarget' # iTarget BY <2>2
    <3>2. \/ iTarget' = iStaging /\ \E t \in Installers : iJob[t].at = "rename"
          \/ \E t \in Installers : iJob[t].at = "remove" /\ iTarget.there
      BY <2>1, <3>1, SkillsTarget
    <3>3. PICK t \in Installers : iJob[t].at = "remove" /\ iTarget.there
      BY <2>2, <3>2, RenamedWhole
    <3>4. JobOK(t) /\ iJob[t].mode \in Skills!Modes BY DEF SkillsInv, SkillsTyped, Jobs
    <3>5. iJob[t].run \in SkillRuns /\ iJob[t].mode = "replace"
      BY <3>3, <3>4 DEF JobOK, Installing, Skills!Modes
    <3>6. Skills!Policy!Boundary(Skills!OperationOf(iJob[t])) \in iGrants[iJob[t].run]
      BY <3>3, <3>4, <3>5 DEF JobOK, Installing
    <3> QED BY <3>5, <3>6, GrantedMode
  <2>3. ASSUME NEW b \in Bundles, b.scripts, <<b, "rest">> \in iTarget'.parts \ iTarget.parts
        PROVE  \E mode \in Skills!Modes : Skills!Granted(mode)
    <3>1. PICK t \in Installers : iTarget' = iStaging /\ iJob[t].at = "rename" /\ JobOK(t)
      BY <2>1, <2>3, SkillsTarget
    <3>2. iStaging.parts = Skills!Parts(iSource) /\ iJob[t].scripts = iSource.scripts
          /\ iJob[t].run \in SkillRuns
      BY <3>1, RenamedWhole
    <3>3. b = iSource BY <2>3, <3>1, <3>2 DEF Skills!Parts
    <3>4. Skills!Policy!Boundary(Skills!OperationOf(iJob[t])) \in iGrants[iJob[t].run]
      BY <2>3, <3>1, <3>2, <3>3 DEF JobOK, Installing
    <3> QED BY <3>2, <3>4, GrantedMode
  <2> QED BY <2>2, <2>3
<1> QED BY <1>1, <1>2, <1>3, PTL DEF ServicesSpec, ChangedWithConsent, Skills!ChangedWithConsent

-----------------------------------------------------------------------------
(*****************************************************************************)
(* The artifacts.                                                             *)
(*****************************************************************************)
Entries == [id : Nat, path : Artifacts!Paths, write : 1..MaxFiles]
Working == {"write", "prepare", "store", "tally", "publish"}
WriterJobs ==
  [at : {"idle", "run", "dead"} \cup Working, todo : Seq(Artifacts!Paths), base : Nat,
   known : SUBSET Artifacts!Paths, record : Entries \cup {Artifacts!NoRecord}]

(* All records there are: in the list, in the events, in the hands of a writer and   *)
(* on the way from the events back into the list.                                *)
Kept ==
  {aRecords[i] : i \in DOMAIN aRecords} \cup {aLog[i] : i \in DOMAIN aLog}
    \cup ({aLoading[i] : i \in DOMAIN aLoading} \ {Artifacts!NoRecord})
    \cup {aJob[w].record : w \in {v \in Artifacts!Writers : aJob[v].at \in {"store", "tally", "publish"}}}

(* An id has been issued, and for a single path.                                 *)
IdsOK ==
  /\ \A x \in Kept : x \in Entries /\ x.id \in 1..aIssued
  /\ \A x, y \in Kept : x.id = y.id => x.path = y.path

Listed(path) == \E i \in DOMAIN aRecords : aRecords[i].path = path

ArtifactOK(w) ==
  /\ aJob[w].at \in Working => aJob[w].todo # <<>>
  /\ aJob[w].at \in {"tally", "publish"} => Listed(aJob[w].record.path)
  /\ aJob[w].at \notin {"store", "tally", "publish"} => aJob[w].record = Artifacts!NoRecord

ArtifactsTyped ==
  /\ aRecords \in Seq(Entries) /\ aLog \in Seq(Entries)
  /\ aLoading \in Seq(Entries \cup {Artifacts!NoRecord})
  /\ aIssued \in Nat /\ aFresh \in Nat /\ aWrites \in 0..MaxFiles /\ aFile \in [Artifacts!Paths -> 0..MaxFiles]
  /\ aCount \in Nat /\ aJob \in [Artifacts!Writers -> WriterJobs]

ArtifactsInv ==
  /\ ArtifactsTyped /\ IdsOK
  /\ \A w \in Artifacts!Writers : ArtifactOK(w)
  /\ \A i \in DOMAIN aRecords : aRecords[i].id \in aHosts
  /\ ListIsFaithful

(* A step of the composition is one of the artifacts, or leaves them alone.  *)
LEMMA ArtifactsSteps == [ServicesNext]_services => [Artifacts!Next]_artifactsVars
BY DEF ServicesNext, services, Resting

(* A thread that registers nothing.                                          *)
LEMMA IdleType ==
  /\ Artifacts!Idle \in WriterJobs /\ Artifacts!Idle.at = "idle" /\ Artifacts!Idle.todo = <<>>
  /\ Artifacts!Idle.record = Artifacts!NoRecord
BY DEF Artifacts!Idle, WriterJobs

(* There are no records and no events at first.                              *)
LEMMA ArtifactsInit == Artifacts!Init => ArtifactsInv
<1> SUFFICES ASSUME Artifacts!Init PROVE ArtifactsInv
  OBVIOUS
<1>0. /\ Artifacts!Idle \in WriterJobs /\ Artifacts!Idle.at = "idle" /\ Artifacts!Idle.todo = <<>>
      /\ Artifacts!Idle.record = Artifacts!NoRecord
  BY IdleType
<1>1. /\ aRecords = <<>> /\ aLog = <<>> /\ aLoading = <<>> /\ aFresh = 0 /\ aIssued = 0 /\ aWrites = 0 /\ aCount = 0
      /\ aFile = [p \in Artifacts!Paths |-> 0] /\ aJob = [w \in Artifacts!Writers |-> Artifacts!Idle]
  BY DEF Artifacts!Init
<1>2. ArtifactsTyped BY <1>0, <1>1, LimitsAssumption DEF ArtifactsTyped
<1>3. \A w \in Artifacts!Writers :
        aJob[w].at = "idle" /\ aJob[w].todo = <<>> /\ aJob[w].record = Artifacts!NoRecord
  BY <1>0, <1>1
<1>4. Kept = {} BY <1>1, <1>3 DEF Kept
<1>5. \A w \in Artifacts!Writers : ArtifactOK(w) BY <1>3 DEF ArtifactOK, Working
<1>6. ListIsFaithful
  BY <1>1 DEF ListIsFaithful, Artifacts!ListIsFaithful, Artifacts!OneRecordPerPath,
     Artifacts!AnnouncedCanBePreviewed
<1> QED BY <1>1, <1>2, <1>4, <1>5, <1>6 DEF ArtifactsInv, IdsOK

(* A path is found where it is, if it is there: no other record has it.             *)
LEMMA FoundByPath ==
  ASSUME ArtifactsInv, NEW p
  PROVE  LET i == Artifacts!SelectInSeq(aRecords, LAMBDA x : x.path = p) IN
           \/ i = 0 /\ ~Listed(p)
           \/ i \in DOMAIN aRecords /\ aRecords[i].path = p
<1> DEFINE I == {i \in 1..Len(aRecords) : aRecords[i].path = p}
<1>1. aRecords \in Seq(Entries) /\ Artifacts!OneRecordPerPath
  BY DEF ArtifactsInv, ArtifactsTyped, ListIsFaithful, Artifacts!ListIsFaithful
<1>2. Artifacts!SelectInSeq(aRecords, LAMBDA x : x.path = p) = IF I # {} THEN Artifacts!Min(I) ELSE 0
  BY DEF Artifacts!SelectInSeq
<1>3. CASE I = {} BY <1>1, <1>2, <1>3 DEF Listed
<1>4. CASE I # {}
  <2>1. PICK k \in I : TRUE BY <1>4
  <2>2. I = {k} BY <1>1, <2>1 DEF Artifacts!OneRecordPerPath
  <2>3. Artifacts!Min({k}) = k BY <2>1 DEF Artifacts!Min
  <2>4. k \in DOMAIN aRecords /\ aRecords[k].path = p BY <1>1, <2>1
  <2> HIDE DEF I
  <2>5. Artifacts!SelectInSeq(aRecords, LAMBDA x : x.path = p) = k BY <1>2, <1>4, <2>2, <2>3
  <2> QED BY <2>4, <2>5
<1> QED BY <1>3, <1>4

(* And so is an id or a path: a record with the id has the path.                     *)
LEMMA FoundByEither ==
  ASSUME ArtifactsInv, NEW r \in Kept
  PROVE  LET i == Artifacts!SelectInSeq(aRecords, LAMBDA x : x.id = r.id \/ x.path = r.path) IN
           \/ i = 0 /\ ~Listed(r.path)
           \/ i \in DOMAIN aRecords /\ aRecords[i].path = r.path
<1> DEFINE I == {i \in 1..Len(aRecords) : aRecords[i].id = r.id \/ aRecords[i].path = r.path}
<1>1. aRecords \in Seq(Entries) /\ Artifacts!OneRecordPerPath
  BY DEF ArtifactsInv, ArtifactsTyped, ListIsFaithful, Artifacts!ListIsFaithful
<1>2. Artifacts!SelectInSeq(aRecords, LAMBDA x : x.id = r.id \/ x.path = r.path)
        = IF I # {} THEN Artifacts!Min(I) ELSE 0
  BY DEF Artifacts!SelectInSeq
<1>0. \A i \in DOMAIN aRecords : aRecords[i].id = r.id => aRecords[i].path = r.path
  <2>1. \A i \in DOMAIN aRecords : aRecords[i] \in Kept BY DEF Kept
  <2> QED BY <2>1 DEF ArtifactsInv, IdsOK
<1>3. CASE I = {} BY <1>1, <1>2, <1>3 DEF Listed
<1>4. CASE I # {}
  <2>1. PICK k \in I : TRUE BY <1>4
  <2>2. I = {k} BY <1>0, <1>1, <2>1 DEF Artifacts!OneRecordPerPath
  <2>3. Artifacts!Min({k}) = k BY <2>1 DEF Artifacts!Min
  <2>4. k \in DOMAIN aRecords /\ aRecords[k].path = r.path BY <1>0, <1>1, <2>1
  <2> HIDE DEF I
  <2>5. Artifacts!SelectInSeq(aRecords, LAMBDA x : x.id = r.id \/ x.path = r.path) = k
    BY <1>2, <1>4, <2>2, <2>3
  <2> QED BY <2>4, <2>5
<1> QED BY <1>3, <1>4

(* A record that is put where its path is, or at the end, leaves a list that has      *)
(* every path once, the old ones and its own.                                      *)
LEMMA UpsertedList ==
  ASSUME ArtifactsInv, NEW r \in Kept, NEW i \in Nat,
         \/ i = 0 /\ ~Listed(r.path)
         \/ i \in DOMAIN aRecords /\ aRecords[i].path = r.path,
         aRecords' = Artifacts!Upserted(i, r), aHosts' = aHosts \cup {r.id}
  PROVE  /\ aRecords' \in Seq(Entries)
         /\ \A j \in DOMAIN aRecords' : aRecords'[j] \in Kept /\ aRecords'[j].id \in aHosts'
         /\ Artifacts!OneRecordPerPath'
         /\ Listed(r.path)' /\ \A path : Listed(path) => Listed(path)'
<1> DEFINE n == Len(aRecords)
<1>1. /\ aRecords \in Seq(Entries) /\ n \in Nat /\ r \in Entries
      /\ \A j, k \in 1..n : aRecords[j].path = aRecords[k].path => j = k
      /\ \A j \in 1..n : aRecords[j].id \in aHosts
  BY DEF ArtifactsInv, ArtifactsTyped, IdsOK, ListIsFaithful, Artifacts!ListIsFaithful,
     Artifacts!OneRecordPerPath
<1>2. \A j \in 1..n : aRecords[j] \in Kept BY <1>1 DEF Kept
<1>3. CASE i = 0
  <2>1. aRecords' = Append(aRecords, r) BY <1>3 DEF Artifacts!Upserted
  <2>2. /\ aRecords' \in Seq(Entries) /\ Len(aRecords') = n + 1 /\ aRecords'[n + 1] = r
        /\ \A j \in 1..n : aRecords'[j] = aRecords[j]
    BY <1>1, <2>1
  <2>3. \A j \in 1..n : aRecords[j].path # r.path BY <1>1, <1>3 DEF Listed
  <2>4. \A j, k \in 1..n + 1 : aRecords'[j].path = aRecords'[k].path => j = k
    BY <1>1, <2>2, <2>3
  <2>5. \A j \in 1..n + 1 : aRecords'[j] \in Kept /\ aRecords'[j].id \in aHosts'
    BY <1>1, <1>2, <2>2
  <2>6. DOMAIN aRecords' = 1..n + 1 /\ DOMAIN aRecords = 1..n BY <1>1, <2>2
  <2> QED BY <1>1, <2>2, <2>4, <2>5, <2>6 DEF Artifacts!OneRecordPerPath, Listed
<1>4. CASE i # 0
  <2>1. aRecords' = [aRecords EXCEPT ![i] = r] /\ i \in 1..n /\ aRecords[i].path = r.path
    BY <1>1, <1>4 DEF Artifacts!Upserted
  <2>2. /\ aRecords' \in Seq(Entries) /\ Len(aRecords') = n
        /\ \A j \in 1..n : aRecords'[j] = IF j = i THEN r ELSE aRecords[j]
    BY <1>1, <2>1
  <2>3. \A j \in 1..n : aRecords'[j].path = aRecords[j].path BY <2>1, <2>2
  <2>4. \A j, k \in 1..n : aRecords'[j].path = aRecords'[k].path => j = k BY <1>1, <2>3
  <2>5. \A j \in 1..n : aRecords'[j] \in Kept /\ aRecords'[j].id \in aHosts'
    BY <1>1, <1>2, <2>2
  <2>6. DOMAIN aRecords' = 1..n /\ DOMAIN aRecords = 1..n BY <1>1, <2>2
  <2> QED BY <1>1, <2>1, <2>2, <2>3, <2>4, <2>5, <2>6 DEF Artifacts!OneRecordPerPath, Listed
<1> QED BY <1>3, <1>4

(* What has been announced is listed, when the list only gets longer and what is     *)
(* announced is in it.                                                           *)
LEMMA StillFaithful ==
  ASSUME ArtifactsInv, Artifacts!OneRecordPerPath', \A path : Listed(path) => Listed(path)',
         aLog' \in Seq(Entries), UNCHANGED aFresh,
         \/ UNCHANGED aLog
         \/ \E r : aLog' = Append(aLog, r) /\ Listed(r.path),
         \A j \in DOMAIN aRecords' : aRecords'[j].id \in aHosts'
  PROVE  ListIsFaithful'
<1>1. aLog \in Seq(Entries) /\ aFresh \in Nat /\ Len(aLog) \in Nat BY DEF ArtifactsInv, ArtifactsTyped
<1>2. \A i \in aFresh + 1..Len(aLog) : Listed(aLog[i].path)
  BY DEF ArtifactsInv, ListIsFaithful, Artifacts!ListIsFaithful, Artifacts!AnnouncedCanBePreviewed, Listed
<1>3. \A path : Listed(path) => \E j \in DOMAIN aRecords' : aRecords'[j].path = path
  BY DEF Listed
<1>4. \A i \in aFresh + 1..Len(aLog') : Listed(aLog'[i].path)
  <2>1. CASE UNCHANGED aLog BY <1>2, <2>1
  <2>2. CASE ~UNCHANGED aLog
    <3>1. PICK r : aLog' = Append(aLog, r) /\ Listed(r.path) BY <2>2
    <3>2. Len(aLog') = Len(aLog) + 1 /\ aLog'[Len(aLog) + 1] = r
          /\ \A i \in 1..Len(aLog) : aLog'[i] = aLog[i]
      BY <1>1, <3>1
    <3> QED BY <1>1, <1>2, <3>1, <3>2
  <2> QED BY <2>1, <2>2
<1>5. Artifacts!AnnouncedCanBePreviewed'
  BY <1>3, <1>4 DEF Artifacts!AnnouncedCanBePreviewed
<1> QED BY <1>5 DEF ListIsFaithful, Artifacts!ListIsFaithful

(* Steps that bring no new record.                                              *)
LEMMA NothingNew ==
  ASSUME ArtifactsInv, ArtifactsTyped', Kept' \subseteq Kept, UNCHANGED <<aIssued, aFresh>>,
         \A w \in Artifacts!Writers : ArtifactOK(w)', Artifacts!OneRecordPerPath',
         \A path : Listed(path) => Listed(path)',
         \/ UNCHANGED aLog
         \/ \E r : aLog' = Append(aLog, r) /\ Listed(r.path),
         \A j \in DOMAIN aRecords' : aRecords'[j].id \in aHosts'
  PROVE  ArtifactsInv'
<1>1. IdsOK' BY DEF ArtifactsInv, IdsOK
<1>2. ListIsFaithful' BY StillFaithful DEF ArtifactsTyped
<1> QED BY <1>1, <1>2 DEF ArtifactsInv

(* Steps of a writer that leave the list and the events alone.                     *)
LEMMA WriterMoves ==
  ASSUME ArtifactsInv, NEW w \in Artifacts!Writers, NEW new \in WriterJobs,
         aJob' = [aJob EXCEPT ![w] = new],
         UNCHANGED <<aRecords, aHosts, aIssued, aFresh, aLog, aLoading>>,
         aWrites' \in 0..MaxFiles, aFile' \in [Artifacts!Paths -> 0..MaxFiles], aCount' \in Nat,
         new.at \in Working => new.todo # <<>>,
         \/ new.at \notin {"store", "tally", "publish"} /\ new.record = Artifacts!NoRecord
         \/ /\ aJob[w].at \in {"store", "tally", "publish"} /\ new.record = aJob[w].record
            /\ new.at \in {"tally", "publish"} /\ Listed(new.record.path)
  PROVE  ArtifactsInv'
<1>1. /\ aJob' \in [Artifacts!Writers -> WriterJobs] /\ aJob'[w] = new
      /\ \A v \in Artifacts!Writers : v # w => aJob'[v] = aJob[v]
  BY DEF ArtifactsInv, ArtifactsTyped
<1>2. ArtifactsTyped' BY <1>1 DEF ArtifactsInv, ArtifactsTyped
<1>3. Kept' \subseteq Kept
  <2> SUFFICES ASSUME NEW v \in Artifacts!Writers, aJob'[v].at \in {"store", "tally", "publish"}
               PROVE  aJob'[v].record \in Kept
    BY DEF Kept
  <2> QED BY <1>1 DEF Kept
<1>4. \A path : Listed(path)' = Listed(path) BY DEF Listed
<1>5. \A v \in Artifacts!Writers : ArtifactOK(v)'
  <2>1. ArtifactOK(w)' BY <1>1, <1>4 DEF ArtifactOK, Working
  <2>2. \A v \in Artifacts!Writers : v # w => ArtifactOK(v)' BY <1>1, <1>4 DEF ArtifactOK, ArtifactsInv
  <2> QED BY <2>1, <2>2
<1>6. Artifacts!OneRecordPerPath'
  BY DEF ArtifactsInv, ListIsFaithful, Artifacts!ListIsFaithful, Artifacts!OneRecordPerPath
<1>7. \A j \in DOMAIN aRecords' : aRecords'[j].id \in aHosts' BY DEF ArtifactsInv
<1> QED BY <1>2, <1>3, <1>4, <1>5, <1>6, <1>7, NothingNew

(* After a path a writer has another one to register, or is idle.            *)
LEMMA NextPathType ==
  ASSUME NEW w \in Artifacts!Writers, aJob[w] \in WriterJobs, NEW rest \in Seq(Artifacts!Paths)
  PROVE  /\ Artifacts!NextPath(w, rest) \in WriterJobs
         /\ Artifacts!NextPath(w, rest).at \notin {"store", "tally", "publish"}
         /\ Artifacts!NextPath(w, rest).record = Artifacts!NoRecord
         /\ Artifacts!NextPath(w, rest).at \in Working => Artifacts!NextPath(w, rest).todo # <<>>
<1>1. CASE rest = <<>> BY <1>1, IdleType DEF Artifacts!NextPath, Working
<1>2. CASE rest # <<>>
  <2> DEFINE at1 == IF w = "execution" THEN "prepare" ELSE "write"
             new == [aJob[w] EXCEPT !.at = at1, !.todo = rest, !.record = Artifacts!NoRecord]
  <2>1. Artifacts!NextPath(w, rest) = new BY <1>2 DEF Artifacts!NextPath
  <2>2. at1 \in {"prepare", "write"} OBVIOUS
  <2> HIDE DEF at1
  <2>3. new \in WriterJobs /\ new.at = at1 /\ new.todo = rest /\ new.record = Artifacts!NoRecord
    BY <2>2 DEF WriterJobs, Working
  <2> HIDE DEF new
  <2> QED BY <1>2, <2>1, <2>2, <2>3
<1> QED BY <1>1, <1>2

(* The execution writes its outputs and returns: no record is made yet.      *)
LEMMA ExecutionSteps ==
  ASSUME ArtifactsInv,
         Artifacts!Execute \/ Artifacts!Return \/ \E p \in Outputs : Artifacts!WriteOutput(p)
  PROVE  ArtifactsInv'
<1>1. ArtifactsTyped /\ "execution" \in Artifacts!Writers
  BY DEF ArtifactsInv, Artifacts!Writers
<1> DEFINE j == aJob["execution"]
<1>2. j \in WriterJobs BY <1>1 DEF ArtifactsTyped
<1>3. CASE Artifacts!Execute
  <2> DEFINE new == [Artifacts!Idle EXCEPT !.at = "run", !.base = aCount]
  <2>1. new \in WriterJobs /\ new.at = "run" /\ new.record = Artifacts!NoRecord
    BY <1>1, IdleType DEF ArtifactsTyped, WriterJobs
  <2>2. aJob' = [aJob EXCEPT !["execution"] = new]
        /\ UNCHANGED <<aFile, aWrites, aCount, aRecords, aHosts, aIssued, aFresh, aLog, aLoading>>
    BY <1>3 DEF Artifacts!Execute, Artifacts!Store
  <2> HIDE DEF new
  <2> QED BY <1>1, <2>1, <2>2, WriterMoves DEF ArtifactsTyped, Working
<1>4. CASE Artifacts!Return
  <2>1. PICK left \in {j.todo, <<>>} :
          aJob' = [aJob EXCEPT !["execution"] = Artifacts!NextPath("execution", left)]
    BY <1>4 DEF Artifacts!Return
  <2>2. UNCHANGED <<aFile, aWrites, aCount, aRecords, aHosts, aIssued, aFresh, aLog, aLoading>>
    BY <1>4 DEF Artifacts!Return, Artifacts!Store
  <2>3. left \in Seq(Artifacts!Paths)
    <3>1. j.todo \in Seq(Artifacts!Paths) BY <1>2 DEF WriterJobs
    <3>2. <<>> \in Seq(Artifacts!Paths) OBVIOUS
    <3> QED BY <3>1, <3>2
  <2> DEFINE new == Artifacts!NextPath("execution", left)
  <2>4. /\ new \in WriterJobs /\ new.at \notin {"store", "tally", "publish"}
        /\ new.record = Artifacts!NoRecord
        /\ new.at \in Working => new.todo # <<>>
    BY <1>1, <1>2, <2>3, NextPathType
  <2> HIDE DEF new
  <2>5. aJob' = [aJob EXCEPT !["execution"] = new] BY <2>1 DEF new
  <2> QED BY <1>1, <2>2, <2>4, <2>5, WriterMoves DEF ArtifactsTyped
<1>5. ASSUME NEW p \in Outputs, Artifacts!WriteOutput(p) PROVE ArtifactsInv'
  <2> DEFINE left == IF p \in Artifacts!ToSet(j.todo) THEN j.todo ELSE Append(j.todo, p)
             new == [j EXCEPT !.todo = left]
  <2>1. /\ aJob' = [aJob EXCEPT !["execution"] = new] /\ j.at = "run"
        /\ aWrites' = aWrites + 1 /\ aWrites < MaxFiles
        /\ aFile' = [aFile EXCEPT ![p] = aWrites + 1]
        /\ UNCHANGED <<aCount, aRecords, aHosts, aIssued, aFresh, aLog, aLoading>>
    BY <1>5 DEF Artifacts!WriteOutput, Artifacts!Written, Artifacts!Store
  <2>2. p \in Artifacts!Paths BY DEF Artifacts!Paths
  <2>3. left \in Seq(Artifacts!Paths) BY <1>2, <2>2 DEF WriterJobs
  <2> HIDE DEF left
  <2>4. new \in WriterJobs /\ new.at = "run" /\ new.record = Artifacts!NoRecord
    <3>1. j.record = Artifacts!NoRecord BY <1>1, <2>1 DEF ArtifactsInv, ArtifactOK
    <3> QED BY <1>2, <2>1, <2>3, <3>1 DEF WriterJobs
  <2>5. aFile' \in [Artifacts!Paths -> 0..MaxFiles] /\ aWrites' \in 0..MaxFiles
    <3>1. aFile \in [Artifacts!Paths -> 0..MaxFiles] /\ aWrites + 1 \in 0..MaxFiles
      BY SMTT(30), <1>1, <2>1, LimitsAssumption DEF ArtifactsTyped
    <3> QED BY <2>1, <2>2, <3>1
  <2> HIDE DEF new
  <2> QED BY <1>1, <2>1, <2>4, <2>5, WriterMoves DEF ArtifactsTyped, Working
<1> QED BY <1>3, <1>4, <1>5

(* Nor does the installation make one when it begins and writes a report.    *)
LEMMA InstallerSteps ==
  ASSUME ArtifactsInv,
         Artifacts!WriteReport \/ \E left \in Artifacts!ReportLists : Artifacts!Install(left)
  PROVE  ArtifactsInv'
<1>1. ArtifactsTyped /\ "installer" \in Artifacts!Writers /\ \A w \in Artifacts!Writers : ArtifactOK(w)
  BY DEF ArtifactsInv, Artifacts!Writers
<1> DEFINE j == aJob["installer"]
<1>2. j \in WriterJobs BY <1>1 DEF ArtifactsTyped
<1>3. ASSUME NEW left \in Artifacts!ReportLists, Artifacts!Install(left) PROVE ArtifactsInv'
  <2> DEFINE known == Artifacts!PathsOf(aRecords)
             new == [Artifacts!Idle EXCEPT !.at = "write", !.todo = left, !.known = known]
  <2>1. PICK n \in 1..Artifacts!Cardinality(Reports)   : left \in [1..n -> Reports]
    BY DEF Artifacts!ReportLists
  <2>2. left \in Seq(Artifacts!Paths) /\ left # <<>>
    <3>1. \A i \in 1..n : left[i] \in Artifacts!Paths BY <2>1 DEF Artifacts!Paths
    <3>2. n \in Nat /\ n > 0 OBVIOUS
    <3>3. left \in [1..n -> Artifacts!Paths] BY <2>1, <3>1
    <3> QED BY <3>2, <3>3
  <2>3. known \subseteq Artifacts!Paths
    <3>1. aRecords \in Seq(Entries) BY <1>1 DEF ArtifactsTyped
    <3>2. \A i \in DOMAIN aRecords : aRecords[i] \in Entries BY <3>1
    <3> QED BY <3>2 DEF Artifacts!PathsOf, Entries
  <2>4. aJob' = [aJob EXCEPT !["installer"] = new]
        /\ UNCHANGED <<aFile, aWrites, aCount, aRecords, aHosts, aIssued, aFresh, aLog, aLoading>>
    BY <1>3 DEF Artifacts!Install, Artifacts!Store
  <2> HIDE DEF known
  <2>5. new \in WriterJobs /\ new.at = "write" /\ new.todo = left /\ new.record = Artifacts!NoRecord
    BY <2>2, <2>3, IdleType DEF WriterJobs, Working
  <2> HIDE DEF new
  <2> QED BY <1>1, <2>2, <2>4, <2>5, WriterMoves DEF ArtifactsTyped
<1>4. CASE Artifacts!WriteReport
  <2> DEFINE new == [j EXCEPT !.at = "prepare"]
  <2>1. /\ aJob' = [aJob EXCEPT !["installer"] = new] /\ j.at = "write"
        /\ aWrites' = aWrites + 1 /\ aWrites < MaxFiles
        /\ aFile' = [aFile EXCEPT ![Head(j.todo)] = aWrites + 1]
        /\ UNCHANGED <<aCount, aRecords, aHosts, aIssued, aFresh, aLog, aLoading>>
    BY <1>4 DEF Artifacts!WriteReport, Artifacts!Written, Artifacts!Store
  <2>2. j.todo # <<>> /\ j.record = Artifacts!NoRecord BY <1>1, <2>1 DEF ArtifactOK, Working
  <2>3. new \in WriterJobs /\ new.at = "prepare" /\ new.todo = j.todo /\ new.record = Artifacts!NoRecord
    BY <1>2, <2>2 DEF WriterJobs, Working
  <2> HIDE DEF new
  <2>4. aFile' \in [Artifacts!Paths -> 0..MaxFiles] /\ aWrites' \in 0..MaxFiles
    <3>1. aFile \in [Artifacts!Paths -> 0..MaxFiles] /\ aWrites + 1 \in 0..MaxFiles BY <1>1, <2>1, LimitsAssumption DEF ArtifactsTyped
    <3> QED BY <2>1, <3>1
  <2> QED BY <1>1, <2>1, <2>2, <2>3, <2>4, WriterMoves DEF ArtifactsTyped
<1> QED BY <1>3, <1>4

(* A record that is prepared has an id that is new or that its path already  *)
(* has.                                                                      *)
LEMMA PrepareStep ==
  ASSUME ArtifactsInv, NEW w \in Artifacts!Writers, Artifacts!Prepare(w)
  PROVE  ArtifactsInv'
<1> DEFINE p   == Head(aJob[w].todo)
           old == Artifacts!SelectInSeq(aRecords, LAMBDA x : x.path = p)
           id  == IF old = 0 THEN aIssued + 1 ELSE aRecords[old].id
           r   == [id |-> id, path |-> p, write |-> aFile[p]]
<1>1. ArtifactsTyped /\ ArtifactOK(w) /\ aJob[w] \in WriterJobs /\ aJob[w].at = "prepare"
  BY DEF ArtifactsInv, ArtifactsTyped, Artifacts!Prepare
<1>2. UNCHANGED <<aFile, aWrites, aRecords, aHosts, aLog, aFresh, aCount, aLoading>>
  BY DEF Artifacts!Prepare
<1>3. CASE aJob' = [aJob EXCEPT ![w] = [Artifacts!Idle EXCEPT !.at = "dead"]] /\ UNCHANGED aIssued
  <2> DEFINE new == [Artifacts!Idle EXCEPT !.at = "dead"]
  <2>1. new \in WriterJobs /\ new.at = "dead" /\ new.record = Artifacts!NoRecord BY IdleType DEF WriterJobs
  <2> HIDE DEF new
  <2>2. aJob' = [aJob EXCEPT ![w] = new] BY <1>3 DEF new
  <2> QED BY <1>1, <1>2, <1>3, <2>1, <2>2, WriterMoves DEF ArtifactsTyped, Working
<1>4. CASE /\ aFile[p] # 0
           /\ aJob' = [aJob EXCEPT ![w].at = "store", ![w].record = r]
           /\ aIssued' = IF old = 0 THEN aIssued + 1 ELSE aIssued
  <2> DEFINE new == [aJob[w] EXCEPT !.at = "store", !.record = r]
  <2>1. p \in Artifacts!Paths /\ aJob[w].todo # <<>>
    <3>1. aJob[w].todo \in Seq(Artifacts!Paths) /\ aJob[w].todo # <<>>
      BY <1>1 DEF WriterJobs, ArtifactOK, Working
    <3> QED BY <3>1, HeadTailProperties
  <2>2. \/ old = 0 /\ ~Listed(p)
        \/ old \in DOMAIN aRecords /\ aRecords[old].path = p
    BY FoundByPath
  <2>3. aIssued \in Nat /\ aRecords \in Seq(Entries) BY <1>1 DEF ArtifactsTyped
  <2>4. old # 0 => aRecords[old] \in Kept BY <2>2 DEF Kept
  <2> HIDE DEF p, old
  <2>5. /\ id \in 1..aIssued' /\ aIssued' \in Nat /\ aIssued <= aIssued'
        /\ \A x \in Kept : x.id = id => x.path = p
    <3>1. CASE old = 0 BY <1>4, <2>3, <3>1 DEF ArtifactsInv, IdsOK
    <3>2. CASE old # 0 BY <1>4, <2>2, <2>3, <2>4, <3>2 DEF ArtifactsInv, IdsOK
    <3> QED BY <3>1, <3>2
  <2> HIDE DEF id
  <2>6. r \in Entries
    <3>1. aFile[p] \in 1..MaxFiles BY SMTT(30), <1>1, <1>4, <2>1, LimitsAssumption DEF ArtifactsTyped
    <3> QED BY <1>1, <2>1, <2>5, <3>1 DEF Entries, ArtifactsTyped
  <2>7. r.id = id /\ r.path = p OBVIOUS
  <2> HIDE DEF r
  <2>8. aJob' = [aJob EXCEPT ![w] = new] BY <1>4
  <2>9. new \in WriterJobs /\ new.at = "store" /\ new.todo = aJob[w].todo /\ new.record = r
    BY <1>1, <2>6 DEF WriterJobs, Working
  <2> HIDE DEF new
  <2>10. /\ aJob' \in [Artifacts!Writers -> WriterJobs] /\ aJob'[w] = new
         /\ \A v \in Artifacts!Writers : v # w => aJob'[v] = aJob[v]
    BY <1>1, <2>8, <2>9 DEF ArtifactsTyped
  <2>11. Kept' \subseteq Kept \cup {r}
    <3> SUFFICES ASSUME NEW v \in Artifacts!Writers, aJob'[v].at \in {"store", "tally", "publish"}
                 PROVE  aJob'[v].record \in Kept \cup {r}
      BY <1>2 DEF Kept
    <3> QED BY <2>9, <2>10 DEF Kept
  <2>12. IdsOK' BY <2>3, <2>5, <2>6, <2>7, <2>11 DEF ArtifactsInv, IdsOK
  <2>13. ArtifactsTyped' BY <1>1, <1>2, <2>5, <2>10 DEF ArtifactsTyped
  <2>14. \A path : Listed(path)' = Listed(path) BY <1>2 DEF Listed
  <2>15. \A v \in Artifacts!Writers : ArtifactOK(v)'
    <3>1. ArtifactOK(w)' BY <2>1, <2>9, <2>10 DEF ArtifactOK
    <3>2. \A v \in Artifacts!Writers : v # w => ArtifactOK(v)'
      BY <2>10, <2>14 DEF ArtifactOK, ArtifactsInv
    <3> QED BY <3>1, <3>2
  <2>16. ListIsFaithful'
    BY <1>2 DEF ArtifactsInv, ListIsFaithful, Artifacts!ListIsFaithful, Artifacts!OneRecordPerPath,
       Artifacts!AnnouncedCanBePreviewed
  <2> QED BY <1>2, <2>12, <2>13, <2>15, <2>16 DEF ArtifactsInv
<1> QED BY <1>3, <1>4 DEF Artifacts!Prepare

(* Removing a file leaves its record.                                        *)
LEMMA RemoveStep ==
  ASSUME ArtifactsInv, NEW p \in Outputs, Artifacts!RemoveFile(p)
  PROVE  ArtifactsInv'
<1>1. /\ aFile' = [aFile EXCEPT ![p] = 0]
      /\ UNCHANGED <<aJob, aWrites, aRecords, aHosts, aIssued, aLog, aFresh, aCount, aLoading>>
  BY DEF Artifacts!RemoveFile, Artifacts!Store
<1>2. aFile' \in [Artifacts!Paths -> 0..MaxFiles]
  <2>1. aFile \in [Artifacts!Paths -> 0..MaxFiles] /\ 0 \in 0..MaxFiles
    BY LimitsAssumption DEF ArtifactsInv, ArtifactsTyped
  <2> QED BY <1>1, <2>1
<1>3. ArtifactsTyped' BY <1>1, <1>2 DEF ArtifactsInv, ArtifactsTyped
<1>4. Kept' = Kept BY <1>1 DEF Kept
<1>5. \A path : Listed(path)' = Listed(path) BY <1>1 DEF Listed
<1>6. \A w \in Artifacts!Writers : ArtifactOK(w)' BY <1>1, <1>5 DEF ArtifactsInv, ArtifactOK
<1>7. Artifacts!OneRecordPerPath' /\ \A j \in DOMAIN aRecords' : aRecords'[j].id \in aHosts'
  BY <1>1 DEF ArtifactsInv, ListIsFaithful, Artifacts!ListIsFaithful, Artifacts!OneRecordPerPath
<1> QED BY <1>1, <1>3, <1>4, <1>5, <1>6, <1>7, NothingNew

(* register_artifact under the lock: the path is listed after it, and once.  *)
LEMMA RegisterStep ==
  ASSUME ArtifactsInv, NEW w \in Artifacts!Writers, Artifacts!Register(w)
  PROVE  ArtifactsInv'
<1>0. PICK r : r = aJob[w].record OBVIOUS
<1> DEFINE i == Artifacts!SelectInSeq(aRecords, LAMBDA x : x.path = r.path)
           new == [aJob[w] EXCEPT !.at = "tally"]
<1>1. ArtifactsTyped /\ ArtifactOK(w) /\ aJob[w] \in WriterJobs /\ aJob[w].at = "store"
  BY DEF ArtifactsInv, ArtifactsTyped, Artifacts!Register
<1>2. /\ aRecords' = Artifacts!Upserted(i, r) /\ aHosts' = aHosts \cup {r.id}
      /\ aJob' = [aJob EXCEPT ![w] = new]
      /\ UNCHANGED <<aFile, aWrites, aIssued, aLog, aFresh, aCount, aLoading>>
  BY <1>0 DEF Artifacts!Register
<1>3. r \in Kept BY <1>0, <1>1 DEF Kept
<1>4. \/ i = 0 /\ ~Listed(r.path)
      \/ i \in DOMAIN aRecords /\ aRecords[i].path = r.path
  BY FoundByPath
<1>5. new \in WriterJobs /\ new.at = "tally" /\ new.record = r /\ new.todo = aJob[w].todo
  BY <1>0, <1>1 DEF WriterJobs, Working
<1>6. aJob[w].todo # <<>> BY <1>1 DEF ArtifactOK, Working
<1> HIDE DEF i, new
<1>7. i \in Nat
  <2>1. aRecords \in Seq(Entries) BY <1>1 DEF ArtifactsTyped
  <2> QED BY <1>4, <2>1
<1>8. /\ aRecords' \in Seq(Entries)
      /\ \A j \in DOMAIN aRecords' : aRecords'[j] \in Kept /\ aRecords'[j].id \in aHosts'
      /\ Artifacts!OneRecordPerPath' /\ Listed(r.path)' /\ \A path : Listed(path) => Listed(path)'
  BY <1>2, <1>3, <1>4, <1>7, UpsertedList
<1>9. /\ aJob' \in [Artifacts!Writers -> WriterJobs] /\ aJob'[w] = new
      /\ \A v \in Artifacts!Writers : v # w => aJob'[v] = aJob[v]
  BY <1>1, <1>2, <1>5 DEF ArtifactsTyped
<1>10. Kept' \subseteq Kept
  <2>1. \A v \in Artifacts!Writers : aJob'[v].at \in {"store", "tally", "publish"}
          => aJob'[v].record \in Kept
    BY <1>3, <1>5, <1>9 DEF Kept
  <2>2. {aRecords'[j] : j \in DOMAIN aRecords'} \subseteq Kept BY <1>8
  <2> QED BY <1>2, <2>1, <2>2 DEF Kept
<1>11. ArtifactsTyped' BY <1>1, <1>2, <1>8, <1>9 DEF ArtifactsTyped
<1>12. \A v \in Artifacts!Writers : ArtifactOK(v)'
  <2>1. ArtifactOK(w)' BY <1>5, <1>6, <1>8, <1>9 DEF ArtifactOK
  <2>2. \A v \in Artifacts!Writers : v # w => ArtifactOK(v)'
    BY <1>8, <1>9 DEF ArtifactsInv, ArtifactOK
  <2> QED BY <2>1, <2>2
<1> QED BY <1>2, <1>8, <1>10, <1>11, <1>12, NothingNew

(* Counting a path leaves it listed.                                         *)
LEMMA TallyStep ==
  ASSUME ArtifactsInv, NEW w \in Artifacts!Writers, Artifacts!Tally(w)
  PROVE  ArtifactsInv'
<1> DEFINE old == aJob[w]
           new == [old EXCEPT !.at = "publish", !.base = @ + 1, !.known = @ \cup {old.record.path}]
<1>1. ArtifactsTyped /\ ArtifactOK(w) /\ old \in WriterJobs /\ old.at = "tally" /\ IdsOK
  BY DEF ArtifactsInv, ArtifactsTyped, Artifacts!Tally
<1>2. /\ aJob' = [aJob EXCEPT ![w] = new]
      /\ UNCHANGED <<aFile, aWrites, aRecords, aHosts, aIssued, aLog, aFresh, aLoading>>
      /\ aCount' \in {old.base + 1, aCount, aCount + 1}
  BY DEF Artifacts!Tally
<1>3. old.record \in Kept BY <1>1 DEF Kept
<1>4. old.record.path \in Artifacts!Paths BY <1>1, <1>3 DEF IdsOK, Entries
<1>5. new \in WriterJobs /\ new.at = "publish" /\ new.record = old.record /\ new.todo = old.todo
  <2> DEFINE base == old.base + 1
             known == old.known \cup {old.record.path}
  <2>1. base \in Nat /\ known \subseteq Artifacts!Paths BY <1>1, <1>4 DEF WriterJobs
  <2>2. new = [old EXCEPT !.at = "publish", !.base = base, !.known = known] OBVIOUS
  <2> HIDE DEF base, known, new
  <2> QED BY <1>1, <2>1, <2>2 DEF WriterJobs, Working
<1>6. old.todo # <<>> /\ Listed(old.record.path) BY <1>1 DEF ArtifactOK, Working
<1>7. aCount' \in Nat /\ aWrites' \in 0..MaxFiles /\ aFile' \in [Artifacts!Paths -> 0..MaxFiles]
  <2>1. old.base \in Nat /\ aCount \in Nat BY <1>1 DEF WriterJobs, ArtifactsTyped
  <2> QED BY <1>1, <1>2, <2>1 DEF ArtifactsTyped
<1> HIDE DEF new
<1> QED BY <1>1, <1>2, <1>5, <1>6, <1>7, WriterMoves

(* artifact.created is published for a path that is listed.                  *)
LEMMA PublishStep ==
  ASSUME ArtifactsInv, NEW w \in Artifacts!Writers, Artifacts!Publish(w)
  PROVE  ArtifactsInv'
<1> DEFINE old == aJob[w]
           r   == old.record
           new == Artifacts!NextPath(w, Tail(old.todo))
<1>1. ArtifactsTyped /\ ArtifactOK(w) /\ old \in WriterJobs /\ old.at = "publish" /\ IdsOK
  BY DEF ArtifactsInv, ArtifactsTyped, Artifacts!Publish
<1>2. /\ aJob' = [aJob EXCEPT ![w] = new] /\ aLog' = Append(aLog, r)
      /\ UNCHANGED <<aFile, aWrites, aRecords, aHosts, aIssued, aFresh, aCount, aLoading>>
  BY DEF Artifacts!Publish
<1>3. old.todo \in Seq(Artifacts!Paths) /\ old.todo # <<>> /\ Listed(r.path)
  BY <1>1 DEF WriterJobs, ArtifactOK, Working
<1>4. Tail(old.todo) \in Seq(Artifacts!Paths) BY <1>3
<1>5. /\ new \in WriterJobs /\ new.at \notin {"store", "tally", "publish"}
      /\ new.record = Artifacts!NoRecord
      /\ new.at \in Working => new.todo # <<>>
  BY <1>1, <1>4, NextPathType
<1>6. r \in Kept BY <1>1 DEF Kept
<1>7. r \in Entries /\ aLog \in Seq(Entries) BY <1>1, <1>6 DEF IdsOK, ArtifactsTyped
<1> HIDE DEF new, r
<1>8. /\ aLog' \in Seq(Entries) /\ {aLog'[i] : i \in DOMAIN aLog'} \subseteq Kept
  <2>1. aLog' \in Seq(Entries) /\ Len(aLog') = Len(aLog) + 1 /\ aLog'[Len(aLog) + 1] = r
        /\ \A i \in 1..Len(aLog) : aLog'[i] = aLog[i]
    BY <1>2, <1>7
  <2>2. \A i \in 1..Len(aLog) : aLog[i] \in Kept BY <1>7 DEF Kept
  <2> QED BY <1>6, <1>7, <2>1, <2>2
<1>9. /\ aJob' \in [Artifacts!Writers -> WriterJobs] /\ aJob'[w] = new
      /\ \A v \in Artifacts!Writers : v # w => aJob'[v] = aJob[v]
  BY <1>1, <1>2, <1>5 DEF ArtifactsTyped
<1>10. Kept' \subseteq Kept
  <2>1. \A v \in Artifacts!Writers : aJob'[v].at \in {"store", "tally", "publish"}
          => aJob'[v].record \in Kept
    BY <1>5, <1>9 DEF Kept
  <2> QED BY <1>2, <1>8, <2>1 DEF Kept
<1>11. ArtifactsTyped' BY <1>1, <1>2, <1>8, <1>9 DEF ArtifactsTyped
<1>12. \A path : Listed(path)' = Listed(path) BY <1>2 DEF Listed
<1>13. \A v \in Artifacts!Writers : ArtifactOK(v)'
  <2>1. ArtifactOK(w)' BY <1>5, <1>9 DEF ArtifactOK
  <2>2. \A v \in Artifacts!Writers : v # w => ArtifactOK(v)'
    BY <1>9, <1>12 DEF ArtifactsInv, ArtifactOK
  <2> QED BY <2>1, <2>2
<1>14. Artifacts!OneRecordPerPath' /\ \A j \in DOMAIN aRecords' : aRecords'[j].id \in aHosts'
  BY <1>2 DEF ArtifactsInv, ListIsFaithful, Artifacts!ListIsFaithful, Artifacts!OneRecordPerPath
<1> QED BY <1>2, <1>3, <1>10, <1>11, <1>12, <1>13, <1>14, NothingNew

(* Load, Loaded and Restore: aLoading gets nothing but events.                    *)
LEMMA LoadSteps ==
  ASSUME ArtifactsInv, Artifacts!Load \/ Artifacts!Loaded
  PROVE  ArtifactsInv'
<1>1. ArtifactsTyped /\ aLog \in Seq(Entries) BY DEF ArtifactsInv, ArtifactsTyped
<1>2. UNCHANGED <<aFile, aWrites, aRecords, aHosts, aIssued, aLog, aFresh, aCount, aJob>>
  BY DEF Artifacts!Load, Artifacts!Loaded, Artifacts!Store
<1>3. /\ aLoading' \in Seq(Entries \cup {Artifacts!NoRecord})
      /\ {aLoading'[i] : i \in DOMAIN aLoading'} \ {Artifacts!NoRecord} \subseteq Kept
  <2>1. CASE Artifacts!Loaded BY <2>1 DEF Artifacts!Loaded
  <2>2. CASE Artifacts!Load
    <3> DEFINE no == Artifacts!NoRecord
    <3>1. aLoading' = aLog \o <<no>> BY <2>2 DEF Artifacts!Load
    <3>2. \A i \in 1..Len(aLog) : aLog[i] \in Entries /\ aLog[i] \in Kept BY <1>1 DEF Kept
    <3> HIDE DEF no
    <3>3. aLog \in Seq(Entries \cup {no}) /\ <<no>> \in Seq(Entries \cup {no}) BY <1>1
    <3>4. /\ aLoading' \in Seq(Entries \cup {no}) /\ Len(aLoading') = Len(aLog) + 1
          /\ \A i \in 1..Len(aLog) : aLoading'[i] = aLog[i]
          /\ aLoading'[Len(aLog) + 1] = no
      BY <3>1, <3>3
    <3>5. \A i \in DOMAIN aLoading' : aLoading'[i] = no \/ aLoading'[i] \in Kept
      BY <3>2, <3>4
    <3> QED BY <3>4, <3>5 DEF no
  <2> QED BY <2>1, <2>2
<1>4. Kept' \subseteq Kept BY <1>2, <1>3 DEF Kept
<1>5. ArtifactsTyped' BY <1>1, <1>2, <1>3 DEF ArtifactsTyped
<1>6. \A path : Listed(path)' = Listed(path) BY <1>2 DEF Listed
<1>7. \A w \in Artifacts!Writers : ArtifactOK(w)' BY <1>2, <1>6 DEF ArtifactsInv, ArtifactOK
<1>8. Artifacts!OneRecordPerPath' /\ \A j \in DOMAIN aRecords' : aRecords'[j].id \in aHosts'
  BY <1>2 DEF ArtifactsInv, ListIsFaithful, Artifacts!ListIsFaithful, Artifacts!OneRecordPerPath
<1> QED BY <1>2, <1>4, <1>5, <1>6, <1>7, <1>8, NothingNew

(* restore_artifact puts an event's record where its path is, if it is       *)
(* listed, and drops no other path.                                          *)
LEMMA RestoreStep ==
  ASSUME ArtifactsInv, Artifacts!Restore
  PROVE  ArtifactsInv'
<1> DEFINE r == Head(aLoading)
           i == Artifacts!SelectInSeq(aRecords, LAMBDA x : x.id = r.id \/ x.path = r.path)
           All == Entries \cup {Artifacts!NoRecord}
<1>1. ArtifactsTyped /\ aLoading \in Seq(All) /\ aLoading # <<>> /\ r # Artifacts!NoRecord
  BY DEF ArtifactsInv, ArtifactsTyped, Artifacts!Restore
<1>2. /\ aLoading' = Tail(aLoading)
      /\ UNCHANGED <<aFile, aWrites, aIssued, aLog, aFresh, aCount, aJob>>
      /\ \/ UNCHANGED <<aRecords, aHosts>>
         \/ aRecords' = Artifacts!Upserted(i, r) /\ aHosts' = aHosts \cup {r.id}
  BY DEF Artifacts!Restore
<1>3. r = aLoading[1] /\ 1 \in DOMAIN aLoading BY <1>1
<1>4. r \in Kept BY <1>1, <1>3 DEF Kept
<1>5. /\ aLoading' \in Seq(All) /\ Len(aLoading') = Len(aLoading) - 1
      /\ \A k \in 1..Len(aLoading') : aLoading'[k] = aLoading[k + 1] /\ k + 1 \in DOMAIN aLoading
  <2> HIDE DEF All
  <2> QED BY <1>1, <1>2, HeadTailProperties
<1>6. {aLoading'[k] : k \in DOMAIN aLoading'} \ {Artifacts!NoRecord} \subseteq Kept
  <2>1. DOMAIN aLoading' = 1..Len(aLoading') BY <1>5
  <2>2. \A k \in DOMAIN aLoading : aLoading[k] # Artifacts!NoRecord => aLoading[k] \in Kept
    BY DEF Kept
  <2> QED BY <1>5, <2>1, <2>2
<1>7. /\ aRecords' \in Seq(Entries)
      /\ \A j \in DOMAIN aRecords' : aRecords'[j] \in Kept /\ aRecords'[j].id \in aHosts'
      /\ Artifacts!OneRecordPerPath' /\ \A path : Listed(path) => Listed(path)'
  <2>1. CASE UNCHANGED <<aRecords, aHosts>>
    <3>1. \A j \in DOMAIN aRecords : aRecords[j] \in Kept BY DEF Kept
    <3> QED BY <2>1, <3>1 DEF ArtifactsInv, ArtifactsTyped, ListIsFaithful,
           Artifacts!ListIsFaithful, Artifacts!OneRecordPerPath, Listed
  <2>2. CASE aRecords' = Artifacts!Upserted(i, r) /\ aHosts' = aHosts \cup {r.id}
    <3> HIDE DEF r
    <3>1. \/ i = 0 /\ ~Listed(r.path)
          \/ i \in DOMAIN aRecords /\ aRecords[i].path = r.path
      BY <1>4, FoundByEither
    <3> HIDE DEF i
    <3>2. i \in Nat
      <4>1. aRecords \in Seq(Entries) BY <1>1 DEF ArtifactsTyped
      <4> QED BY <3>1, <4>1
    <3> QED BY <1>4, <2>2, <3>1, <3>2, UpsertedList
  <2> QED BY <1>2, <2>1, <2>2
<1>8. Kept' \subseteq Kept
  <2>1. {aRecords'[j] : j \in DOMAIN aRecords'} \subseteq Kept BY <1>7
  <2> QED BY <1>2, <1>6, <2>1 DEF Kept
<1>9. ArtifactsTyped' BY <1>1, <1>2, <1>5, <1>7 DEF ArtifactsTyped
<1>10. \A w \in Artifacts!Writers : ArtifactOK(w)' BY <1>2, <1>7 DEF ArtifactsInv, ArtifactOK
<1> QED BY <1>2, <1>7, <1>8, <1>9, <1>10, NothingNew

(* After a restart this process has announced nothing, and nothing is        *)
(* listed.                                                                   *)
LEMMA RestartStep ==
  ASSUME ArtifactsInv, Artifacts!Restart
  PROVE  ArtifactsInv'
<1>1. ArtifactsTyped /\ aLog \in Seq(Entries) /\ Len(aLog) \in Nat BY DEF ArtifactsInv, ArtifactsTyped
<1>2. /\ aRecords' = <<>> /\ aHosts' = {} /\ aLoading' = <<>>
      /\ aJob' = [w \in Artifacts!Writers |-> Artifacts!Idle]
      /\ aCount' = Len(aLog) /\ aFresh' = Len(aLog) /\ UNCHANGED <<aFile, aWrites, aIssued, aLog>>
  BY DEF Artifacts!Restart
<1>3. \A w \in Artifacts!Writers :
        aJob'[w] \in WriterJobs /\ aJob'[w].at = "idle" /\ aJob'[w].todo = <<>>
        /\ aJob'[w].record = Artifacts!NoRecord
  BY <1>2, IdleType
<1>4. ArtifactsTyped' BY <1>1, <1>2, <1>3, IdleType DEF ArtifactsTyped
<1>5. Kept' \subseteq Kept BY <1>2, <1>3 DEF Kept
<1>6. IdsOK' BY <1>2, <1>5 DEF ArtifactsInv, IdsOK
<1>7. \A w \in Artifacts!Writers : ArtifactOK(w)' BY <1>3 DEF ArtifactOK, Working
<1>8. ListIsFaithful'
  BY <1>1, <1>2 DEF ListIsFaithful, Artifacts!ListIsFaithful, Artifacts!OneRecordPerPath,
     Artifacts!AnnouncedCanBePreviewed
<1> QED BY <1>2, <1>4, <1>6, <1>7, <1>8 DEF ArtifactsInv

(* Every step of a writer, of the restoring and of a restart keeps the list  *)
(* faithful.                                                                 *)
LEMMA ArtifactsNext == ArtifactsInv /\ [ServicesNext]_services => ArtifactsInv'
<1> SUFFICES ASSUME ArtifactsInv, [Artifacts!Next]_artifactsVars PROVE ArtifactsInv'
  BY ArtifactsSteps
<1>1. CASE UNCHANGED artifactsVars
  <2>1. UNCHANGED <<aFile, aWrites, aRecords, aHosts, aIssued, aLog, aFresh, aCount, aJob, aLoading>>
    BY <1>1 DEF artifactsVars
  <2>2. Kept' = Kept /\ \A path : Listed(path)' = Listed(path) BY <2>1 DEF Kept, Listed
  <2> QED BY <2>1, <2>2 DEF ArtifactsInv, ArtifactsTyped, IdsOK, ArtifactOK, ListIsFaithful,
         Artifacts!ListIsFaithful, Artifacts!OneRecordPerPath, Artifacts!AnnouncedCanBePreviewed
<1>2. CASE Artifacts!Execute \/ Artifacts!Return \/ \E p \in Outputs : Artifacts!WriteOutput(p)
  BY <1>2, ExecutionSteps
<1>3. CASE \E p \in Outputs : Artifacts!RemoveFile(p) BY <1>3, RemoveStep
<1>4. CASE Artifacts!WriteReport \/ \E left \in Artifacts!ReportLists : Artifacts!Install(left)
  BY <1>4, InstallerSteps
<1>5. CASE \E w \in Artifacts!Writers : Artifacts!Prepare(w) BY <1>5, PrepareStep
<1>6. CASE \E w \in Artifacts!Writers : Artifacts!Register(w) BY <1>6, RegisterStep
<1>7. CASE \E w \in Artifacts!Writers : Artifacts!Tally(w) BY <1>7, TallyStep
<1>8. CASE \E w \in Artifacts!Writers : Artifacts!Publish(w) BY <1>8, PublishStep
<1>9. CASE Artifacts!Load \/ Artifacts!Loaded BY <1>9, LoadSteps
<1>10. CASE Artifacts!Restore BY <1>10, RestoreStep
<1>11. CASE Artifacts!Restart BY <1>11, RestartStep
<1> QED
  BY <1>1, <1>2, <1>3, <1>4, <1>5, <1>6, <1>7, <1>8, <1>9, <1>10, <1>11 DEF Artifacts!Next

(* What a client is shown of the artifacts of a run.                               *)
THEOREM ArtifactsAreListed == ServicesSpec => []ListIsFaithful
<1>1. ServicesInit => ArtifactsInv BY ArtifactsInit DEF ServicesInit
<1>2. ArtifactsInv => ListIsFaithful BY DEF ArtifactsInv
<1> QED BY <1>1, <1>2, ArtifactsNext, PTL DEF ServicesSpec

-----------------------------------------------------------------------------
(*****************************************************************************)
(* What is left of the types: what the bounds of the model bound, and where the   *)
(* numbers that are held come from.                                           *)
(*****************************************************************************)
(* A sequence is one of the values that are in it.                              *)
LEMMA SeqInto ==
  ASSUME NEW X, NEW Y, NEW xs \in Seq(X), \A n \in 1..Len(xs) : xs[n] \in Y
  PROVE  xs \in Seq(Y)
<1>1. Len(xs) \in Nat /\ xs = [n \in 1..Len(xs) |-> xs[n]] BY LenProperties
<1>2. xs \in [1..Len(xs) -> Y] BY <1>1
<1> QED BY <1>1, <1>2, SeqDef

(* The rest of the types: what was given is of the conversation, and the bounds.       *)
TalkTyped ==
  /\ cPhase \in Talk!Phases /\ cTriggered \in BOOLEAN /\ cCompacted \in 0..MaxCompactions
  /\ Len(cMessages) <= MaxMessages
  /\ \A n \in DOMAIN cRecords : cRecords[n].cutoff \in 1..MaxMessages
  /\ cGiven.covers \subseteq 1..Len(cMessages) /\ cGiven.tail \in Seq(1..Len(cMessages))

(* At first the conversation is what the user asked.                           *)
LEMMA TalkTypedInit == Talk!Init => TalkTyped
<1> SUFFICES ASSUME Talk!Init PROVE TalkTyped
  OBVIOUS
<1>1. /\ cPhase = "accepted" /\ cMessages = <<"user">> /\ cRecords = <<>> /\ cCompacted = 0
      /\ cGiven = [covers |-> {}, tail |-> <<>>, length |-> 0] /\ cTriggered = FALSE
  BY DEF Talk!Init
<1>2. cTriggered \in BOOLEAN BY <1>1, Zenon
<1>3. Len(cMessages) = 1 /\ DOMAIN cRecords = {} /\ cGiven.covers = {} /\ cGiven.tail = <<>> BY <1>1
<1>4. cGiven.tail \in Seq(1..Len(cMessages)) BY <1>3
<1> QED BY <1>1, <1>2, <1>3, <1>4, LimitsAssumption DEF TalkTyped, Talk!Phases

(* What is loaded is of the conversation.                                      *)
LEMMA TalkTypedLoad == ASSUME TalkInv, TalkTyped, Talk!Load PROVE TalkTyped'
<1>1. PICK cut \in 0..Len(cMessages) :
        cGiven' = [covers |-> 1..cut, tail |-> Talk!From(cut), length |-> Len(cMessages)]
  BY TalkProjected DEF Talk!Load
<1>2. Len(cMessages) \in Nat BY DEF TalkInv
<1>3. Talk!From(cut) \in Seq(1..Len(cMessages))
  <2>1. Len(cMessages) - cut \in Nat BY <1>2
  <2>2. \A i \in 1..Len(cMessages) - cut : cut + i \in 1..Len(cMessages) BY <1>2
  <2>3. Talk!From(cut) \in [1..Len(cMessages) - cut -> 1..Len(cMessages)] BY <2>2 DEF Talk!From
  <2> QED BY <2>1, <2>3, SeqDef
<1>4. cGiven'.covers = 1..cut /\ cGiven'.tail = Talk!From(cut) BY <1>1
<1>5. 1..cut \subseteq 1..Len(cMessages) BY <1>2
<1>6. UNCHANGED <<cMessages, cRecords, cTriggered, cCompacted>> /\ cPhase' = "executing" BY DEF Talk!Load
<1> QED BY <1>3, <1>4, <1>5, <1>6 DEF TalkTyped, Talk!Phases

(* The conversation grows, and all that names its messages still does.              *)
LEMMA TalkTypedGrows ==
  ASSUME TalkInv, TalkTyped, UNCHANGED <<cRecords, cGiven, cCompacted>>, cPhase' \in Talk!Phases,
         cTriggered' \in BOOLEAN,
         \/ UNCHANGED cMessages
         \/ \E role \in {"user", "assistant"} : Talk!Append1(role)
  PROVE  TalkTyped'
<1>1. Len(cMessages) \in Nat BY DEF TalkInv
<1>2. Len(cMessages') \in Nat /\ Len(cMessages) <= Len(cMessages') /\ Len(cMessages') <= MaxMessages
  <2>1. CASE UNCHANGED cMessages BY <1>1, <2>1 DEF TalkTyped
  <2>2. ASSUME NEW role \in {"user", "assistant"}, Talk!Append1(role)
        PROVE  Len(cMessages') \in Nat /\ Len(cMessages) <= Len(cMessages') /\ Len(cMessages') <= MaxMessages
    <3>1. Len(cMessages') = Len(cMessages) + 1 /\ Len(cMessages) < MaxMessages
      BY <2>2 DEF Talk!Append1, TalkInv
    <3> QED BY <1>1, <3>1, LimitsAssumption
  <2> QED BY <2>1, <2>2
<1>3. 1..Len(cMessages) \subseteq 1..Len(cMessages') BY <1>1, <1>2
<1>4. cGiven'.tail \in Seq(1..Len(cMessages'))
  <2>1. cGiven.tail \in Seq(1..Len(cMessages)) BY DEF TalkTyped
  <2>3. \A n \in 1..Len(cGiven.tail) : cGiven.tail[n] \in 1..Len(cMessages') BY <1>3, <2>1
  <2>2. cGiven.tail \in Seq(1..Len(cMessages')) BY <2>1, <2>3, SeqInto
  <2> QED BY <2>2
<1> QED BY <1>2, <1>3, <1>4 DEF TalkTyped

(* So it is with every step.                                                   *)
LEMMA TalkTypedNext == TalkInv /\ TalkTyped /\ [Talk!Next]_talkVars => TalkTyped'
<1> SUFFICES ASSUME TalkInv, TalkTyped, [Talk!Next]_talkVars PROVE TalkTyped'
  OBVIOUS
<1>0. Len(cMessages) \in Nat /\ cTriggered \in BOOLEAN /\ cPhase \in Talk!Phases BY DEF TalkInv, TalkTyped
<1>1. CASE UNCHANGED talkVars
  <2>1. cTriggered' \in BOOLEAN BY <1>0, <1>1 DEF talkVars
  <2> QED BY <1>0, <1>1, <2>1, TalkTypedGrows DEF talkVars
<1>2. CASE Talk!Launch
  <2>1. cTriggered' \in BOOLEAN BY <1>2, Zenon DEF Talk!Launch
  <2> QED BY <1>2, <2>1, TalkTypedGrows DEF Talk!Launch, Talk!Phases
<1>3. CASE Talk!Load BY <1>3, TalkTypedLoad
<1>4. CASE Talk!AgentCompacts
  <2>1. cTriggered' \in BOOLEAN BY <1>4, Zenon DEF Talk!AgentCompacts
  <2> QED BY <1>0, <1>4, <2>1, TalkTypedGrows DEF Talk!AgentCompacts
<1>5. CASE Talk!Return
  <2>1. cTriggered' \in BOOLEAN BY <1>0, <1>5 DEF Talk!Return
  <2> QED BY <1>5, <2>1, TalkTypedGrows DEF Talk!Return, Talk!Phases
<1>6. CASE Talk!Settle
  <2>1. cTriggered' \in BOOLEAN BY <1>0, <1>6 DEF Talk!Settle
  <2> QED BY <1>6, <2>1, TalkTypedGrows DEF Talk!Settle, Talk!Phases
<1>7. CASE Talk!Reply
  <2>1. cTriggered' \in BOOLEAN BY <1>7, Zenon DEF Talk!Reply
  <2> QED BY <1>7, <2>1, TalkTypedGrows DEF Talk!Reply, Talk!Phases
<1>8. CASE (\E c \in Compacters : Talk!ClientCompacts(c)) \/ Talk!ExecutionCompacts
  <2>1. UNCHANGED <<cPhase, cMessages, cRecords, cGiven, cTriggered, cCompacted>>
    BY <1>8 DEF Talk!ClientCompacts, Talk!ExecutionCompacts
  <2>2. cTriggered' \in BOOLEAN BY <1>0, <2>1
  <2> QED BY <1>0, <2>1, <2>2, TalkTypedGrows
<1>9. ASSUME NEW a \in Talk!Actors, Talk!Skip(a) \/ Talk!SummaryFails(a) PROVE TalkTyped'
  <2>1. /\ UNCHANGED <<cMessages, cRecords, cGiven, cCompacted>> /\ Talk!Done(a)
        /\ cPhase' \in {cPhase, "stranded"}
    BY <1>9 DEF Talk!Skip, Talk!SummaryFails
  <2>2. cTriggered' \in BOOLEAN BY <1>0, <2>1, Zenon DEF Talk!Done
  <2>3. cPhase' \in Talk!Phases BY <1>0, <2>1 DEF Talk!Phases
  <2> QED BY <2>1, <2>2, <2>3, TalkTypedGrows
<1>10. ASSUME NEW a \in Talk!Actors, NEW cutoff \in 1..MaxMessages, Talk!Summarise(a, cutoff)
       PROVE TalkTyped'
  <2> DEFINE new == [cutoff |-> cutoff, covers |-> 1..cutoff]
  <2>1. /\ cRecords' = Append(cRecords, new) /\ Len(cRecords) < MaxCompactions
        /\ cCompacted' = Len(cRecords) + 1 /\ Talk!Done(a) /\ UNCHANGED <<cMessages, cGiven, cPhase>>
    BY <1>10 DEF Talk!Summarise
  <2>2. cTriggered' \in BOOLEAN BY <1>0, <2>1, Zenon DEF Talk!Done
  <2>3. Len(cRecords) \in Nat /\ cRecords \in Seq(Summaries) BY DEF TalkInv
  <2>4. \A n \in DOMAIN cRecords' : cRecords'[n] = IF n <= Len(cRecords) THEN cRecords[n] ELSE new
    BY <2>1, <2>3
  <2>5. DOMAIN cRecords' = 1..Len(cRecords) + 1 BY <2>1, <2>3
  <2>6. \A n \in DOMAIN cRecords' : cRecords'[n].cutoff \in 1..MaxMessages
    BY <2>3, <2>4, <2>5 DEF TalkTyped
  <2>7. cCompacted' \in 0..MaxCompactions BY <2>1, <2>3, LimitsAssumption
  <2> HIDE DEF new
  <2> QED BY <2>1, <2>2, <2>6, <2>7 DEF TalkTyped
<1>11. CASE Talk!Restart
  <2>1. cTriggered' \in BOOLEAN BY <1>11, Zenon DEF Talk!Restart
  <2>2. cCompacted' = 0 /\ cPhase' = "paused" /\ UNCHANGED <<cMessages, cRecords, cGiven>>
    BY <1>11 DEF Talk!Restart
  <2> QED BY <2>1, <2>2, LimitsAssumption DEF TalkTyped, Talk!Phases
<1> QED
  BY <1>1, <1>2, <1>3, <1>4, <1>5, <1>6, <1>7, <1>8, <1>9, <1>10, <1>11
  DEF Talk!Next

(* The types of the conversation.                                              *)
LEMMA TalkTypeOK == TalkInv /\ TalkTyped => Talk!TypeOK
<1> SUFFICES ASSUME TalkInv, TalkTyped PROVE Talk!TypeOK
  OBVIOUS
<1>1. Len(cMessages) \in Nat /\ Len(cMessages) <= MaxMessages /\ MaxMessages \in Nat
  BY LimitsAssumption DEF TalkInv, TalkTyped
<1>2. cReading \in [Talk!Actors -> 0..MaxMessages]
  BY <1>1 DEF TalkInv
<1>3. cRecords \in Seq([cutoff : 1..MaxMessages, covers : SUBSET (1..MaxMessages)])
  <2>1. cRecords \in Seq(Summaries) BY DEF TalkInv
  <2>2. \A n \in 1..Len(cRecords) : cRecords[n] \in [cutoff : 1..MaxMessages, covers : SUBSET (1..MaxMessages)]
    <3> SUFFICES ASSUME NEW n \in 1..Len(cRecords)
                 PROVE  cRecords[n] \in [cutoff : 1..MaxMessages, covers : SUBSET (1..MaxMessages)]
      OBVIOUS
    <3>1. cRecords[n] \in Summaries BY <2>1
    <3>2. cRecords[n].cutoff \in 1..MaxMessages /\ cRecords[n].covers = 1..cRecords[n].cutoff
      BY <2>1 DEF TalkInv, TalkTyped
    <3>3. cRecords[n].covers \in SUBSET (1..MaxMessages) BY <1>1, <3>2
    <3> QED BY <3>1, <3>2, <3>3 DEF Summaries
  <2> QED BY <2>1, <2>2, SeqInto
<1> QED BY <1>1, <1>2, <1>3 DEF TalkInv, TalkTyped, Talk!TypeOK, Talk!Message

(* The tokens that a row, a client or a run has are among those that were issued.       *)
HeldOf(x, n) == x.token \in 0..n /\ x.refresh \in 0..n
McpBounded ==
  /\ Len(mIssued) <= MaxTokens /\ \A p \in mPending : p.id \in 1..mRequests
  /\ \A k \in Mcp!Keys : HeldOf(mGrants[k], Len(mIssued))
  /\ \A c \in McpClients : HeldOf(mClient[c], Len(mIssued))
  /\ \A r \in McpRuns : HeldOf(mRun[r].grant, Len(mIssued))

(* Who has no tokens has none of any number.                                   *)
LEMMA HeldNothing ==
  /\ \A n \in Nat : HeldOf(Mcp!NoGrant, n) /\ HeldOf(Mcp!Resting, n)
  /\ Mcp!Unborn.grant = Mcp!NoGrant
  /\ \A where \in {"idle", "unauthorized", "failed"} : [Mcp!Unborn EXCEPT !.at = where].grant = Mcp!NoGrant
BY DEF HeldOf, Mcp!NoGrant, Mcp!Resting, Mcp!Unborn

(* At first nobody has a token, and nothing is pending.                        *)
LEMMA McpBoundedInit == Mcp!Init => McpBounded
<1> SUFFICES ASSUME Mcp!Init PROVE McpBounded
  OBVIOUS
<1>1. /\ mGrants = [k \in Mcp!Keys |-> Mcp!NoGrant] /\ mPending = {} /\ mIssued = <<>>
      /\ mClient = [c \in McpClients |-> Mcp!Resting] /\ mRun = [r \in McpRuns |-> Mcp!Unborn]
  BY DEF Mcp!Init
<1>2. Len(mIssued) = 0 BY <1>1
<1> QED BY <1>1, <1>2, HeldNothing, LimitsAssumption DEF McpBounded

(* More tokens may be there after the step; all others hold what they held.             *)
LEMMA McpBoundedMoves ==
  ASSUME McpInv, McpBounded, Len(mIssued') \in {Len(mIssued), Len(mIssued) + 1}, Len(mIssued') <= MaxTokens,
         \A p \in mPending' : p.id \in 1..mRequests',
         \A k \in Mcp!Keys : mGrants'[k] = mGrants[k] \/ HeldOf(mGrants'[k], Len(mIssued')),
         \A c \in McpClients : mClient'[c] = mClient[c] \/ HeldOf(mClient'[c], Len(mIssued')),
         \A r \in McpRuns : mRun'[r].grant = mRun[r].grant \/ HeldOf(mRun'[r].grant, Len(mIssued'))
  PROVE  McpBounded'
<1>1. Len(mIssued) \in Nat BY DEF McpInv, McpTyped
<1>2. \A x : HeldOf(x, Len(mIssued)) => HeldOf(x, Len(mIssued')) BY <1>1 DEF HeldOf
<1> QED BY <1>2 DEF McpBounded

(* A step of one run: what it holds is what it held, what its row holds, or new.         *)
LEMMA McpBoundedRun ==
  ASSUME McpInv, McpBounded, NEW r \in McpRuns, NEW new, mRun' = [mRun EXCEPT ![r] = new],
         UNCHANGED <<mPending, mRequests, mClient, mIssued>>,
         \A k \in Mcp!Keys : mGrants'[k] = mGrants[k] \/ HeldOf(mGrants'[k], Len(mIssued)),
         HeldOf(new.grant, Len(mIssued))
  PROVE  McpBounded'
<1>1. \A q \in McpRuns : mRun'[q].grant = mRun[q].grant \/ HeldOf(mRun'[q].grant, Len(mIssued))
  BY DEF McpInv, McpTyped
<1>2. \A p \in mPending' : p.id \in 1..mRequests' BY DEF McpBounded
<1> QED BY <1>1, <1>2, McpBoundedMoves DEF McpBounded

(* Steps of a run that read a row, and issue nothing.                          *)
LEMMA McpBoundedQuiet ==
  ASSUME McpInv, McpBounded, NEW r \in McpRuns,
         Mcp!Start(r) \/ Mcp!Approve(r) \/ Mcp!Connect(r) \/ Mcp!Headers(r)
  PROVE  McpBounded'
<1> DEFINE s == Head(mRun[r].todo)
<1>0. /\ mRun \in [McpRuns -> RunTypes] /\ mRun[r] \in RunTypes /\ RunOK(mRun[r], r, mIssued)
      /\ Len(mIssued) \in Nat /\ HeldOf(mRun[r].grant, Len(mIssued))
  BY DEF McpInv, McpTyped, McpBounded
<1>1. UNCHANGED <<mGrants, mPending, mRequests, mClient, mIssued>>
  BY DEF Mcp!Start, Mcp!Approve, Mcp!Connect, Mcp!Headers
<1>2. CASE \E where : mRun' = [mRun EXCEPT ![r] = [Mcp!Unborn EXCEPT !.at = where, !.todo = Servers]]
  <2>1. PICK where : mRun' = [mRun EXCEPT ![r] = [Mcp!Unborn EXCEPT !.at = where, !.todo = Servers]]
    BY <1>2
  <2> DEFINE new == [Mcp!Unborn EXCEPT !.at = where, !.todo = Servers]
  <2>2. new.grant = Mcp!NoGrant BY DEF Mcp!Unborn
  <2>3. HeldOf(new.grant, Len(mIssued)) BY <1>0, <2>2, HeldNothing
  <2> HIDE DEF new
  <2>4. mRun' = [mRun EXCEPT ![r] = new] BY <2>1 DEF new
  <2> QED BY <1>1, <2>3, <2>4, McpBoundedRun
<1>3. CASE \E where : mRun' = [mRun EXCEPT ![r].at = where]
  <2>1. PICK where : mRun' = [mRun EXCEPT ![r].at = where] BY <1>3
  <2> DEFINE new == [mRun[r] EXCEPT !.at = where]
  <2>2. new.grant = mRun[r].grant BY <1>0 DEF RunTypes
  <2>3. mRun' = [mRun EXCEPT ![r] = new] BY <2>1
  <2> HIDE DEF new
  <2> QED BY <1>0, <1>1, <2>2, <2>3, McpBoundedRun
<1>4. CASE \E where \in {"unauthorized", "failed"} : Mcp!Stops(r, where)
  <2>1. PICK where \in {"unauthorized", "failed"} : Mcp!Stops(r, where) BY <1>4
  <2> DEFINE new == [Mcp!Unborn EXCEPT !.at = where]
  <2>2. HeldOf(new.grant, Len(mIssued)) BY <1>0, HeldNothing
  <2> HIDE DEF new
  <2>3. mRun' = [mRun EXCEPT ![r] = new] BY <2>1 DEF Mcp!Stops, new
  <2> QED BY <1>1, <2>2, <2>3, McpBoundedRun
<1>5. CASE \E used : mRun' = [mRun EXCEPT ![r] = Mcp!Onward(r, used)]
  <2>1. PICK used : mRun' = [mRun EXCEPT ![r] = Mcp!Onward(r, used)] BY <1>5
  <2> DEFINE new == Mcp!Onward(r, used)
  <2>2. new.grant = Mcp!NoGrant BY DEF Mcp!Onward
  <2>3. HeldOf(new.grant, Len(mIssued)) BY <1>0, <2>2, HeldNothing
  <2> HIDE DEF new
  <2>4. mRun' = [mRun EXCEPT ![r] = new] BY <2>1 DEF new
  <2> QED BY <1>1, <2>3, <2>4, McpBoundedRun
<1>6. CASE Mcp!Headers(r)
  <2> DEFINE g == mGrants[<<ProviderOf[s], UserOf[r]>>]
  <2>1. CASE /\ ProviderOf[s] # Static /\ UserOf[r] # NoUser /\ mRun[r].at = "headers"
             /\ mRun' = [mRun EXCEPT ![r].at = "refresh", ![r].grant = g]
    <3> DEFINE new == [mRun[r] EXCEPT !.at = "refresh", !.grant = g]
    <3>1. mRun[r].todo \in Seq(Mcp!Names) /\ mRun[r].todo # <<>> BY <1>0, <2>1 DEF RunTypes, RunOK, Busy
    <3>2. s \in Mcp!Names BY <3>1, HeadTailProperties
    <3>3. <<ProviderOf[s], UserOf[r]>> \in Mcp!Keys BY <2>1, <3>2, KeyOf, OwnerAssumption
    <3>4. HeldOf(g, Len(mIssued)) BY <3>3 DEF McpBounded
    <3>5. mRun' = [mRun EXCEPT ![r] = new] BY <2>1
    <3>6. new.grant = g BY <1>0 DEF RunTypes
    <3> HIDE DEF new, g
    <3> QED BY <1>1, <3>4, <3>5, <3>6, McpBoundedRun
  <2>2. \/ \E used : mRun' = [mRun EXCEPT ![r] = Mcp!Onward(r, used)]
        \/ Mcp!Stops(r, "unauthorized")
        \/ /\ ProviderOf[s] # Static /\ UserOf[r] # NoUser /\ mRun[r].at = "headers"
           /\ mRun' = [mRun EXCEPT ![r].at = "refresh", ![r].grant = g]
    BY <1>6 DEF Mcp!Headers, Mcp!GrantFor
  <2> QED BY <1>4, <1>5, <2>1, <2>2
<1>7. CASE Mcp!Start(r) \/ Mcp!Approve(r) BY <1>2, <1>7 DEF Mcp!Start, Mcp!Approve
<1>8. CASE Mcp!Connect(r)
  <2> DEFINE decision == Mcp!Policy!Evaluate(Mcp!Connection(s), mApproved[r])
  <2>1. decision \in {"ALLOW", "DENY", "REQUIRE_APPROVAL"} BY DEF Mcp!Policy!Evaluate
  <2> HIDE DEF decision
  <2>2. \/ mRun' = [mRun EXCEPT ![r].at = "headers"]
        \/ Mcp!Stops(r, "failed")
        \/ mRun' = [mRun EXCEPT ![r].at = "asked"]
    BY <1>8, <2>1 DEF Mcp!Connect, decision
  <2> QED BY <1>3, <1>4, <2>2
<1> QED BY <1>6, <1>7, <1>8

(* A new token is one more, and the row or the hand that it comes into may hold it.      *)
LEMMA McpBoundedIssue ==
  ASSUME McpInv, McpBounded, NEW k, mIssued' = Append(mIssued, k), Len(mIssued) < MaxTokens
  PROVE  /\ Len(mIssued) \in Nat /\ Len(mIssued') = Len(mIssued) + 1 /\ Len(mIssued') <= MaxTokens
         /\ Len(mIssued) + 1 \in 0..Len(mIssued') /\ 0 \in 0..Len(mIssued')
         /\ \A x : HeldOf(x, Len(mIssued)) => HeldOf(x, Len(mIssued'))
<1>1. Len(mIssued) \in Nat /\ Len(mIssued') = Len(mIssued) + 1 BY DEF McpInv, McpTyped
<1> QED BY SMTT(30), <1>1, LimitsAssumption DEF HeldOf

(* A refresh issues a token, or not.                                           *)
LEMMA McpBoundedRefresh ==
  ASSUME McpInv, McpBounded, NEW r \in McpRuns, Mcp!Refresh(r)
  PROVE  McpBounded'
<1> DEFINE s == Head(mRun[r].todo)
           old == mRun[r]
           n == Len(mIssued) + 1
<1>0. /\ mRun \in [McpRuns -> RunTypes] /\ old \in RunTypes /\ Len(mIssued) \in Nat
      /\ HeldOf(old.grant, Len(mIssued)) /\ old.grant \in Rows
  BY DEF McpInv, McpTyped, McpBounded, RunTypes
<1>1. UNCHANGED <<mGrants, mPending, mRequests, mClient>> BY DEF Mcp!Refresh
<1>2. CASE Mcp!Stops(r, "failed") /\ UNCHANGED mIssued
  <2> DEFINE new == [Mcp!Unborn EXCEPT !.at = "failed"]
  <2>1. HeldOf(new.grant, Len(mIssued)) BY <1>0, HeldNothing
  <2> HIDE DEF new
  <2>2. mRun' = [mRun EXCEPT ![r] = new] BY <1>2 DEF Mcp!Stops, new
  <2> QED BY <1>1, <1>2, <2>1, <2>2, McpBoundedRun
<1>3. ASSUME Len(mIssued) < MaxTokens, mIssued' = Append(mIssued, <<ProviderOf[s], UserOf[r]>>),
             NEW refresh \in {0, n},
             mRun' = [mRun EXCEPT ![r].at = "save",
                                  ![r].grant = Mcp!Merged(Mcp!NewGrant(n, refresh), @)]
      PROVE  McpBounded'
  <2> DEFINE g == Mcp!Merged(Mcp!NewGrant(n, refresh), old.grant)
             new == [old EXCEPT !.at = "save", !.grant = g]
  <2>1. /\ Len(mIssued') = n /\ n <= MaxTokens /\ n \in 0..n /\ 0 \in 0..n
        /\ \A x : HeldOf(x, Len(mIssued)) => HeldOf(x, n)
    BY <1>3, McpBoundedIssue
  <2>2. mRun' = [mRun EXCEPT ![r] = new] BY <1>0, <1>3 DEF RunTypes
  <2> HIDE DEF n
  <2>3. HeldOf(g, n)
    <3>1. g.token = n /\ g.refresh \in {refresh, old.grant.refresh}
      BY DEF Mcp!Merged, Mcp!NewGrant
    <3>2. old.grant.refresh \in 0..n BY <1>0, <2>1 DEF HeldOf
    <3> QED BY <1>3, <2>1, <3>1, <3>2 DEF HeldOf
  <2> HIDE DEF g
  <2>4. new.grant = g BY <1>0 DEF RunTypes
  <2> HIDE DEF new
  <2>5. \A q \in McpRuns : mRun'[q].grant = mRun[q].grant \/ HeldOf(mRun'[q].grant, n)
    BY <1>0, <2>2, <2>3, <2>4
  <2>6. \A p \in mPending' : p.id \in 1..mRequests' BY <1>1 DEF McpBounded
  <2> QED BY <1>1, <2>1, <2>5, <2>6, McpBoundedMoves DEF n
<1> QED BY <1>2, <1>3 DEF Mcp!Refresh

(* The row gets the tokens that the run has.                                   *)
LEMMA McpBoundedSave ==
  ASSUME McpInv, McpBounded, NEW r \in McpRuns, Mcp!SaveRefreshed(r)
  PROVE  McpBounded'
<1> DEFINE s == Head(mRun[r].todo)
           g == mRun[r].grant
           new == Mcp!Onward(r, <<s, g.token>>)
<1>1. /\ mGrants' = [mGrants EXCEPT ![<<ProviderOf[s], UserOf[r]>>] = g]
      /\ mRun' = [mRun EXCEPT ![r] = new] /\ UNCHANGED <<mPending, mRequests, mClient, mIssued>>
  BY DEF Mcp!SaveRefreshed
<1>2. Len(mIssued) \in Nat /\ mGrants \in [Mcp!Keys -> Rows] /\ HeldOf(g, Len(mIssued))
  BY DEF McpInv, McpTyped, McpBounded
<1> HIDE DEF g
<1>3. \A k \in Mcp!Keys : mGrants'[k] = mGrants[k] \/ HeldOf(mGrants'[k], Len(mIssued)) BY <1>1, <1>2
<1>4. new.grant = Mcp!NoGrant BY DEF Mcp!Onward
<1> HIDE DEF new
<1>5. HeldOf(new.grant, Len(mIssued)) BY <1>2, <1>4, HeldNothing
<1> QED BY <1>1, <1>3, <1>5, McpBoundedRun

(* The steps of a client: what it exchanges is new, what it saves it has.      *)
LEMMA McpBoundedClients ==
  ASSUME McpInv, McpBounded, NEW c \in McpClients,
         \/ Mcp!Exchange(c) \/ Mcp!SaveGrant(c) \/ Mcp!DeletePending(c)
         \/ \E p \in mPending : Mcp!Complete(c, p)
  PROVE  McpBounded'
<1> DEFINE old == mClient[c]
           p == old.request
           n == Len(mIssued) + 1
<1>0. /\ mClient \in [McpClients -> ClientTypes] /\ old \in ClientTypes /\ Len(mIssued) \in Nat
      /\ HeldOf(old, Len(mIssued)) /\ mGrants \in [Mcp!Keys -> Rows]
  BY DEF McpInv, McpTyped, McpBounded
<1>1. mRun' = mRun /\ mRequests' = mRequests /\ mPending' \subseteq mPending
  BY DEF Mcp!Exchange, Mcp!SaveGrant, Mcp!DeletePending, Mcp!Complete
<1>2. \A q \in mPending' : q.id \in 1..mRequests' BY <1>1 DEF McpBounded
<1>3. ASSUME NEW new, mClient' = [mClient EXCEPT ![c] = new], UNCHANGED mIssued, HeldOf(new, Len(mIssued)),
             \A k \in Mcp!Keys : mGrants'[k] = mGrants[k] \/ HeldOf(mGrants'[k], Len(mIssued))
      PROVE  McpBounded'
  <2>1. \A d \in McpClients : mClient'[d] = mClient[d] \/ HeldOf(mClient'[d], Len(mIssued))
    BY <1>0, <1>3
  <2> QED BY <1>1, <1>2, <1>3, <2>1, McpBoundedMoves DEF McpBounded
<1>4. CASE \E q \in mPending : Mcp!Complete(c, q)
  <2>1. PICK q \in mPending : Mcp!Complete(c, q) BY <1>4
  <2> DEFINE new == [Mcp!Resting EXCEPT !.at = "exchange", !.request = q]
  <2>2. new.token = 0 /\ new.refresh = 0 BY DEF Mcp!Resting
  <2>3. HeldOf(new, Len(mIssued)) BY <1>0, <2>2 DEF HeldOf
  <2> HIDE DEF new
  <2>4. mClient' = [mClient EXCEPT ![c] = new] /\ UNCHANGED <<mIssued, mGrants>>
    BY <2>1 DEF Mcp!Complete, new
  <2> QED BY <1>3, <2>3, <2>4
<1>5. CASE Mcp!DeletePending(c)
  <2>1. HeldOf(Mcp!Resting, Len(mIssued)) BY <1>0, HeldNothing
  <2> QED BY <1>3, <1>5, <2>1 DEF Mcp!DeletePending
<1>6. CASE Mcp!SaveGrant(c)
  <2> DEFINE new == [old EXCEPT !.at = "delete"]
             g == Mcp!NewGrant(old.token, old.refresh)
  <2>1. /\ mGrants' = [mGrants EXCEPT ![<<ProviderOf[p.server], p.user>>] = g]
        /\ mClient' = [mClient EXCEPT ![c] = new] /\ UNCHANGED mIssued
    BY <1>6 DEF Mcp!SaveGrant
  <2>2. g.token = old.token /\ g.refresh = old.refresh BY DEF Mcp!NewGrant
  <2>3. HeldOf(g, Len(mIssued)) BY <1>0, <2>2 DEF HeldOf
  <2>4. new.token = old.token /\ new.refresh = old.refresh BY <1>0 DEF ClientTypes
  <2>5. HeldOf(new, Len(mIssued)) BY <1>0, <2>4 DEF HeldOf
  <2> HIDE DEF g, new
  <2>6. \A k \in Mcp!Keys : mGrants'[k] = mGrants[k] \/ HeldOf(mGrants'[k], Len(mIssued))
    BY <1>0, <2>1, <2>3
  <2> QED BY <1>3, <2>1, <2>5, <2>6
<1>7. CASE Mcp!Exchange(c)
  <2>0. UNCHANGED <<mGrants, mPending>> BY <1>7 DEF Mcp!Exchange
  <2>1. CASE mClient' = [mClient EXCEPT ![c] = Mcp!Resting] /\ UNCHANGED mIssued
    <3>1. HeldOf(Mcp!Resting, Len(mIssued)) BY <1>0, HeldNothing
    <3> QED BY <1>3, <2>0, <2>1, <3>1
  <2>2. ASSUME Len(mIssued) < MaxTokens, mIssued' = Append(mIssued, <<ProviderOf[p.server], p.user>>),
               NEW refresh \in {0, n},
               mClient' = [mClient EXCEPT ![c].at = "save", ![c].token = n, ![c].refresh = refresh]
        PROVE  McpBounded'
    <3> DEFINE new == [old EXCEPT !.at = "save", !.token = n, !.refresh = refresh]
    <3>1. /\ Len(mIssued') = n /\ n <= MaxTokens /\ n \in 0..n /\ 0 \in 0..n
          /\ \A x : HeldOf(x, Len(mIssued)) => HeldOf(x, n)
      BY <2>2, McpBoundedIssue
    <3>2. mClient' = [mClient EXCEPT ![c] = new] BY <2>2
    <3> HIDE DEF n
    <3>3. new.token = n /\ new.refresh = refresh BY <1>0 DEF ClientTypes
    <3> HIDE DEF new
    <3>4. HeldOf(new, n) BY <2>2, <3>1, <3>3 DEF HeldOf
    <3>5. \A d \in McpClients : mClient'[d] = mClient[d] \/ HeldOf(mClient'[d], n) BY <1>0, <3>2, <3>4
    <3> QED BY <1>1, <1>2, <2>0, <3>1, <3>5, McpBoundedMoves DEF n
  <2> QED BY <1>7, <2>1, <2>2 DEF Mcp!Exchange
<1> QED BY <1>4, <1>5, <1>6, <1>7

(* So it is with every step.                                                   *)
LEMMA McpBoundedNext == McpInv /\ McpBounded /\ [Mcp!Next]_mcpVars => McpBounded'
<1> SUFFICES ASSUME McpInv, McpBounded, [Mcp!Next]_mcpVars PROVE McpBounded'
  OBVIOUS
<1>0. Len(mIssued) \in Nat /\ mRequests \in Nat /\ mGrants \in [Mcp!Keys -> Rows]
  BY DEF McpInv, McpTyped
<1>1. CASE UNCHANGED mcpVars BY <1>1 DEF mcpVars, McpBounded
<1>2. ASSUME NEW r \in McpRuns, Mcp!RunStep(r) PROVE McpBounded'
  BY <1>2, McpBoundedQuiet, McpBoundedRefresh, McpBoundedSave DEF Mcp!RunStep
<1>3. ASSUME NEW r \in McpRuns, NEW s \in Mcp!Names, Mcp!StartAuthorization(r, s) PROVE McpBounded'
  <2> DEFINE q == [id |-> mRequests + 1, server |-> s, user |-> UserOf[r], run |-> r]
  <2>1. /\ mRequests' = mRequests + 1 /\ mPending' = mPending \cup {q}
        /\ UNCHANGED <<mGrants, mIssued, mClient, mRun>>
    BY <1>3 DEF Mcp!StartAuthorization
  <2>2. q.id = mRequests + 1 OBVIOUS
  <2> HIDE DEF q
  <2>3. \A p \in mPending' : p.id \in 1..mRequests' BY <1>0, <2>1, <2>2 DEF McpBounded
  <2> QED BY <2>1, <2>3, McpBoundedMoves DEF McpBounded
<1>4. ASSUME NEW c \in McpClients,
             \/ Mcp!Exchange(c) \/ Mcp!SaveGrant(c) \/ Mcp!DeletePending(c)
             \/ \E p \in mPending : Mcp!Complete(c, p)
      PROVE  McpBounded'
  BY <1>4, McpBoundedClients
<1>5. ASSUME NEW k \in Mcp!Keys, Mcp!Revoke(k) \/ Mcp!Expire(k) PROVE McpBounded'
  <2>1. UNCHANGED <<mPending, mRequests, mIssued, mClient, mRun>> BY <1>5 DEF Mcp!Revoke, Mcp!Expire
  <2>2. mGrants'[k].token = mGrants[k].token /\ mGrants'[k].refresh = mGrants[k].refresh
        /\ \A q \in Mcp!Keys : q # k => mGrants'[q] = mGrants[q]
    BY <1>0, <1>5 DEF Mcp!Revoke, Mcp!Expire, Rows
  <2>3. HeldOf(mGrants[k], Len(mIssued)) BY DEF McpBounded
  <2>4. HeldOf(mGrants'[k], Len(mIssued)) BY <2>2, <2>3 DEF HeldOf
  <2>5. \A p \in mPending' : p.id \in 1..mRequests' BY <2>1 DEF McpBounded
  <2> QED BY <2>1, <2>2, <2>4, <2>5, McpBoundedMoves DEF McpBounded
<1>6. CASE Mcp!Restart
  <2>1. /\ mClient' = [c \in McpClients |-> Mcp!Resting]
        /\ mRun' = [r \in McpRuns |-> IF mRun[r].at \in {"connect", "headers", "refresh", "save"}
                                      THEN Mcp!Unborn ELSE mRun[r]]
        /\ UNCHANGED <<mGrants, mPending, mRequests, mIssued>>
    BY <1>6 DEF Mcp!Restart
  <2>2. \A r \in McpRuns : mRun'[r].grant = mRun[r].grant \/ HeldOf(mRun'[r].grant, Len(mIssued))
    BY <1>0, <2>1, HeldNothing
  <2>3. \A c \in McpClients : HeldOf(mClient'[c], Len(mIssued)) BY <1>0, <2>1, HeldNothing
  <2>4. \A p \in mPending' : p.id \in 1..mRequests' BY <2>1 DEF McpBounded
  <2> QED BY <2>1, <2>2, <2>3, <2>4, McpBoundedMoves DEF McpBounded
<1> QED BY <1>1, <1>2, <1>3, <1>4, <1>5, <1>6 DEF Mcp!Next

(* The types of the authorization.                                             *)
LEMMA McpTypeOK == McpInv /\ McpBounded => Mcp!TypeOK
<1> SUFFICES ASSUME McpInv, McpBounded PROVE Mcp!TypeOK
  OBVIOUS
<1>1. McpTyped /\ Len(mIssued) \in Nat BY DEF McpInv, McpTyped
<1>2. \A k \in Mcp!Keys : /\ {mGrants[k].token, mGrants[k].refresh} \subseteq 0..MaxTokens
                          /\ mGrants[k].status \in {"none", "authorized", "revoked"}
  <2> SUFFICES ASSUME NEW k \in Mcp!Keys
               PROVE  /\ {mGrants[k].token, mGrants[k].refresh} \subseteq 0..MaxTokens
                      /\ mGrants[k].status \in {"none", "authorized", "revoked"}
    OBVIOUS
  <2>1. mGrants[k] \in Rows /\ HeldOf(mGrants[k], Len(mIssued)) BY <1>1 DEF McpTyped, McpBounded
  <2>2. 0..Len(mIssued) \subseteq 0..MaxTokens BY <1>1, LimitsAssumption DEF McpBounded
  <2> QED BY <2>1, <2>2 DEF HeldOf, Rows
<1>3. mPending \subseteq [id : 1..mRequests, server : Mcp!Names, user : Users, run : McpRuns]
  <2> SUFFICES ASSUME NEW p \in mPending
               PROVE  p \in [id : 1..mRequests, server : Mcp!Names, user : Users, run : McpRuns]
    OBVIOUS
  <2>1. p \in Pendings /\ p.id \in 1..mRequests BY <1>1 DEF McpTyped, McpBounded
  <2> QED BY <2>1 DEF Pendings
<1>4. \A c \in McpClients : mClient[c].at \in {"idle", "exchange", "save", "delete"}
  <2>1. \A c \in McpClients : mClient[c] \in ClientTypes BY <1>1 DEF McpTyped
  <2> QED BY <2>1 DEF ClientTypes
<1>5. \A r \in McpRuns : mRun[r].at \in {"idle", "connect", "headers", "refresh", "save", "asked",
                                         "unauthorized", "failed", "working"}
  <2>1. \A r \in McpRuns : mRun[r] \in RunTypes BY <1>1 DEF McpTyped
  <2> QED BY <2>1 DEF RunTypes, Busy
<1> QED BY <1>1, <1>2, <1>3, <1>4, <1>5 DEF Mcp!TypeOK, McpTyped, McpBounded

(* What is asked, changed and lost of the skills stays within its bounds.               *)
SkillsBounded ==
  /\ Len(iQuestions) <= MaxQuestions /\ iChanges \in 0..MaxChanges /\ iCrashes \in 0..MaxDeaths
  /\ iSkills \in [SkillRuns -> {"none", "loaded", "error"}]

(* At first nothing is.                                                      *)
LEMMA SkillsBoundedInit == Skills!Init => SkillsBounded
<1> SUFFICES ASSUME Skills!Init PROVE SkillsBounded
  OBVIOUS
<1>1. Len(iQuestions) = 0 BY DEF Skills!Init
<1> QED BY <1>1, LimitsAssumption DEF Skills!Init, SkillsBounded

(* A question is put while there may be one more; an answer leaves their number.          *)
LEMMA SkillsBoundedNext == SkillsInv /\ SkillsBounded /\ [Skills!Next]_skillsVars => SkillsBounded'
<1> SUFFICES ASSUME SkillsInv, SkillsBounded, [Skills!Next]_skillsVars PROVE SkillsBounded'
  OBVIOUS
<1> USE DEF Skills!Outside, Skills!Disk
<1>0. iQuestions \in Seq(Question) /\ Len(iQuestions) \in Nat BY DEF SkillsInv, SkillsTyped
<1>1. ASSUME UNCHANGED <<iChanges, iCrashes, iSkills>>, Len(iQuestions') <= MaxQuestions
      PROVE  SkillsBounded'
  BY <1>1 DEF SkillsBounded
<1>2. CASE UNCHANGED skillsVars BY <1>1, <1>2 DEF skillsVars, SkillsBounded
<1>3. ASSUME NEW t \in Installers, NEW r \in SkillRuns, NEW mode \in Skills!Modes,
             NEW via \in {"tool", "client"}, Skills!Request(t, r, mode, via)
      PROVE  SkillsBounded'
  BY <1>1, <1>3 DEF Skills!Request, SkillsBounded
<1>4. ASSUME NEW t \in Installers, Skills!Install(t) PROVE SkillsBounded'
  <2>1. CASE UNCHANGED iQuestions
    BY <1>1, <1>4, <2>1 DEF SkillsBounded, Skills!Install, Skills!Validate, Skills!Check, Skills!Decide,
       Skills!Clear, Skills!Make, Skills!Copy, Skills!Remove, Skills!Rename
  <2>2. CASE ~UNCHANGED iQuestions
    <3>1. Skills!Decide(t)
      BY <1>4, <2>2 DEF Skills!Install, Skills!Validate, Skills!Check, Skills!Clear, Skills!Make,
         Skills!Copy, Skills!Remove, Skills!Rename
    <3>2. UNCHANGED <<iChanges, iCrashes, iSkills>> BY <3>1 DEF Skills!Decide
    <3>3. Skills!Policy!Evaluate(Skills!OperationOf(iJob[t]), iGrants[iJob[t].run])
            \in {"ALLOW", "DENY", "REQUIRE_APPROVAL"}
      BY DEF Skills!Policy!Evaluate
    <3>4. PICK q : iQuestions' = Append(iQuestions, q) /\ Len(iQuestions) < MaxQuestions
      BY <2>2, <3>1, <3>3 DEF Skills!Decide
    <3>5. Len(iQuestions') = Len(iQuestions) + 1 BY <1>0, <3>4
    <3> QED BY <1>0, <1>1, <3>2, <3>4, <3>5, LimitsAssumption
  <2> QED BY <2>1, <2>2
<1>5. ASSUME NEW i \in DOMAIN iQuestions, Skills!Reject(i) \/ \E t \in Installers : Skills!Approve(t, i)
      PROVE  SkillsBounded'
  <2>1. /\ iQuestions' = [iQuestions EXCEPT ![i].open = FALSE]
        /\ UNCHANGED <<iChanges, iCrashes, iSkills>>
    BY <1>5 DEF Skills!Reject, Skills!Approve
  <2>2. Len(iQuestions') = Len(iQuestions) BY <1>0, <2>1
  <2> QED BY <1>1, <2>1, <2>2 DEF SkillsBounded
<1>6. ASSUME NEW r \in SkillRuns, Skills!StartRun(r) PROVE SkillsBounded'
  BY <1>6 DEF Skills!StartRun, SkillsBounded
<1>7. ASSUME NEW b \in Bundles, Skills!Stage(b) PROVE SkillsBounded'
  BY <1>7, LimitsAssumption DEF Skills!Stage, SkillsBounded
<1>8. CASE Skills!Crash BY <1>8, LimitsAssumption DEF Skills!Crash, SkillsBounded
<1> QED BY <1>2, <1>3, <1>4, <1>5, <1>6, <1>7, <1>8 DEF Skills!Next

(* So the types of the installation are what they should be.                   *)
LEMMA SkillsTypeOK == SkillsInv /\ SkillsBounded => Skills!TypeOK
<1> SUFFICES ASSUME SkillsInv, SkillsBounded PROVE Skills!TypeOK
  OBVIOUS
<1>1. Skills!NoJob.run \in SkillRuns BY RunsAssumption DEF Skills!NoJob
<1>2. \A t \in Installers :
        /\ iJob[t].at \in {"idle", "validate", "check", "decide", "clear", "make", "copy", "remove",
                           "rename"}
        /\ iJob[t].run \in SkillRuns /\ iJob[t].mode \in Skills!Modes /\ iJob[t].via \in {"tool", "client"}
  <2>1. \A t \in Installers : iJob[t] \in Jobs BY DEF SkillsInv, SkillsTyped
  <2> QED BY <1>1, <2>1 DEF Jobs, Installing
<1>3. \A d \in {iTarget, iStaging} : d.there \in BOOLEAN /\ d.parts \subseteq Files
  <2>1. iTarget \in Dirs /\ iStaging \in Dirs BY DEF SkillsInv, SkillsTyped
  <2> QED BY <2>1 DEF Dirs
<1> QED BY <1>2, <1>3 DEF Skills!TypeOK, SkillsBounded, SkillsInv, SkillsTyped, Files

(* A path that a writer has counted and not yet announced.                      *)
Untold(w) == IF aJob[w].at = "publish" THEN 1 ELSE 0
Reckoned == Len(aLog) + Untold("execution") + Untold("installer")

(* artifact_count runs ahead of the events by what has been counted and not yet      *)
(* announced; an execution that counts from an old value is behind, never ahead.    *)
ArtifactsBounded ==
  /\ Len(aLog) <= MaxArtifacts /\ aFresh <= Len(aLog)
  /\ aHosts \subseteq 1..aIssued
  /\ aCount <= Reckoned /\ aJob["execution"].base <= Reckoned
  /\ aLoaded \in BOOLEAN /\ aRestarts \in 0..MaxStarts

(* There are no events at first, and nothing is counted.                       *)
LEMMA ArtifactsBoundedInit == Artifacts!Init => ArtifactsBounded
<1> SUFFICES ASSUME Artifacts!Init PROVE ArtifactsBounded
  OBVIOUS
<1>1. "execution" \in Artifacts!Writers /\ "installer" \in Artifacts!Writers BY DEF Artifacts!Writers
<1>2. /\ aJob["execution"].at = "idle" /\ aJob["execution"].base = 0
      /\ aJob["installer"].at = "idle"
  BY <1>1 DEF Artifacts!Init, Artifacts!Idle
<1>3. aLog = <<>> /\ Len(aLog) = 0 BY DEF Artifacts!Init
<1>4. Reckoned = 0 BY <1>2, <1>3 DEF Reckoned, Untold
<1>5. aFresh = 0 /\ aHosts = {} /\ aCount = 0 /\ aLoaded = FALSE /\ aRestarts = 0 BY DEF Artifacts!Init
<1>6. MaxArtifacts \in Nat /\ MaxStarts \in Nat BY LimitsAssumption
<1>7. Len(aLog) <= MaxArtifacts /\ aFresh <= Len(aLog) /\ aRestarts \in 0..MaxStarts BY <1>3, <1>5, <1>6
<1>8. aCount <= Reckoned /\ aJob["execution"].base <= Reckoned BY <1>2, <1>4, <1>5
<1> QED BY <1>5, <1>7, <1>8 DEF ArtifactsBounded

(* Steps that announce nothing and count nothing.                               *)
LEMMA NothingCounted ==
  ASSUME ArtifactsBounded, ArtifactsInv, UNCHANGED <<aHosts, aLog, aFresh, aCount, aLoaded, aRestarts>>,
         aIssued' \in {aIssued, aIssued + 1},
         \A w \in Artifacts!Writers : (aJob'[w].at = "publish") = (aJob[w].at = "publish"),
         aJob'["execution"].base <= Reckoned
  PROVE  ArtifactsBounded'
<1>1. "execution" \in Artifacts!Writers /\ "installer" \in Artifacts!Writers BY DEF Artifacts!Writers
<1>2. Reckoned' = Reckoned BY <1>1 DEF Reckoned, Untold
<1>3. 1..aIssued \subseteq 1..aIssued' BY DEF ArtifactsInv, ArtifactsTyped
<1>4. aHosts' \subseteq 1..aIssued' BY <1>3 DEF ArtifactsBounded
<1> QED BY <1>2, <1>4 DEF ArtifactsBounded

(* The numbers the bounds are about.                                           *)
LEMMA ArtifactsNumbers ==
  ASSUME ArtifactsInv
  PROVE  /\ "execution" \in Artifacts!Writers /\ "installer" \in Artifacts!Writers
         /\ "execution" # "installer" /\ Artifacts!Writers = {"execution", "installer"}
         /\ Len(aLog) \in Nat /\ aFresh \in Nat /\ aCount \in Nat /\ aIssued \in Nat
         /\ Untold("execution") \in {0, 1} /\ Untold("installer") \in {0, 1} /\ Reckoned \in Nat
         /\ aJob \in [Artifacts!Writers -> WriterJobs]
         /\ \A w \in Artifacts!Writers : aJob[w].base \in Nat
<1>1. Artifacts!Writers = {"execution", "installer"} BY DEF Artifacts!Writers
<1>2. ArtifactsTyped BY DEF ArtifactsInv
<1>3. aLog \in Seq(Entries) BY <1>2 DEF ArtifactsTyped
<1>4. Len(aLog) \in Nat BY <1>3
<1>5. Untold("execution") \in {0, 1} /\ Untold("installer") \in {0, 1} BY DEF Untold
<1>6. Reckoned \in Nat BY <1>4, <1>5 DEF Reckoned
<1>7. aJob \in [Artifacts!Writers -> WriterJobs] BY <1>2 DEF ArtifactsTyped
<1>8. \A w \in Artifacts!Writers : aJob[w].base \in Nat BY <1>7 DEF WriterJobs
<1>9. aFresh \in Nat /\ aCount \in Nat /\ aIssued \in Nat BY <1>2 DEF ArtifactsTyped
<1> QED BY <1>1, <1>4, <1>5, <1>6, <1>7, <1>8, <1>9

(* The executions and the installations, until a path is counted.              *)
LEMMA NotCounting ==
  ASSUME ArtifactsInv, ArtifactsBounded,
         \/ Artifacts!Execute \/ Artifacts!Return \/ Artifacts!WriteReport
         \/ \E p \in Outputs : Artifacts!WriteOutput(p) \/ Artifacts!RemoveFile(p)
         \/ \E left \in Artifacts!ReportLists : Artifacts!Install(left)
         \/ \E w \in Artifacts!Writers : Artifacts!Prepare(w)
  PROVE  ArtifactsBounded'
<1> USE ArtifactsNumbers DEF Artifacts!Store
<1>1. UNCHANGED <<aHosts, aLog, aFresh, aCount, aLoaded, aRestarts>> /\ aIssued' \in {aIssued, aIssued + 1}
  BY DEF Artifacts!Execute, Artifacts!Return, Artifacts!WriteReport, Artifacts!WriteOutput,
     Artifacts!RemoveFile, Artifacts!Install, Artifacts!Prepare, Artifacts!Written
<1>2. /\ Artifacts!Idle.base = 0
      /\ \A step : [Artifacts!Idle EXCEPT !.at = step].at = step /\ [Artifacts!Idle EXCEPT !.at = step].base = 0
  BY DEF Artifacts!Idle
<1>3. 0 <= Reckoned /\ aCount <= Reckoned /\ aJob["execution"].base <= Reckoned BY DEF ArtifactsBounded
<1>4. CASE Artifacts!Execute
  <2> DEFINE new == [Artifacts!Idle EXCEPT !.at = "run", !.base = aCount]
  <2>1. new.at = "run" /\ new.base = aCount BY DEF Artifacts!Idle
  <2>2. aJob' = [aJob EXCEPT !["execution"] = new] /\ aJob["execution"].at = "idle"
    BY <1>4 DEF Artifacts!Execute
  <2> HIDE DEF new
  <2>3. \A w \in Artifacts!Writers : (aJob'[w].at = "publish") = (aJob[w].at = "publish")
    BY <2>1, <2>2
  <2>4. aJob'["execution"].base <= Reckoned BY <1>3, <2>1, <2>2
  <2> QED BY <1>1, <2>3, <2>4, NothingCounted
<1>5. CASE Artifacts!Return
  <2>1. PICK left \in {aJob["execution"].todo, <<>>} :
          aJob' = [aJob EXCEPT !["execution"] = Artifacts!NextPath("execution", left)]
          /\ aJob["execution"].at = "run"
    BY <1>5 DEF Artifacts!Return
  <2> DEFINE new == Artifacts!NextPath("execution", left)
  <2>2. new.at # "publish" /\ new.base \in {0, aJob["execution"].base}
    BY DEF Artifacts!NextPath, Artifacts!Idle, WriterJobs
  <2> HIDE DEF new
  <2>3. aJob' = [aJob EXCEPT !["execution"] = new] BY <2>1 DEF new
  <2>4. \A w \in Artifacts!Writers : (aJob'[w].at = "publish") = (aJob[w].at = "publish")
    BY <2>1, <2>2, <2>3
  <2>5. aJob'["execution"].base <= Reckoned BY <1>3, <2>2, <2>3
  <2> QED BY <1>1, <2>4, <2>5, NothingCounted
<1>6. CASE Artifacts!WriteReport
  <2>1. aJob' = [aJob EXCEPT !["installer"].at = "prepare"] /\ aJob["installer"].at = "write"
    BY <1>6 DEF Artifacts!WriteReport
  <2>2. \A w \in Artifacts!Writers : (aJob'[w].at = "publish") = (aJob[w].at = "publish")
    BY <2>1 DEF WriterJobs
  <2>3. aJob'["execution"] = aJob["execution"] BY <2>1
  <2> QED BY <1>1, <1>3, <2>2, <2>3, NothingCounted
<1>7. ASSUME NEW p \in Outputs, Artifacts!WriteOutput(p) PROVE ArtifactsBounded'
  <2>1. PICK left : aJob' = [aJob EXCEPT !["execution"].todo = left] BY <1>7 DEF Artifacts!WriteOutput
  <2>2. /\ \A w \in Artifacts!Writers : (aJob'[w].at = "publish") = (aJob[w].at = "publish")
        /\ aJob'["execution"].base = aJob["execution"].base
    BY <2>1 DEF WriterJobs
  <2> QED BY <1>1, <1>3, <2>2, NothingCounted
<1>8. CASE \E p \in Outputs : Artifacts!RemoveFile(p)
  <2>1. UNCHANGED aJob BY <1>8 DEF Artifacts!RemoveFile
  <2> QED BY <1>1, <1>3, <2>1, NothingCounted
<1>9. ASSUME NEW left \in Artifacts!ReportLists, Artifacts!Install(left) PROVE ArtifactsBounded'
  <2> DEFINE new == [Artifacts!Idle EXCEPT !.at = "write", !.todo = left,
                                           !.known = Artifacts!PathsOf(aRecords)]
  <2>1. new.at = "write" BY DEF Artifacts!Idle
  <2>2. aJob' = [aJob EXCEPT !["installer"] = new] /\ aJob["installer"].at = "idle"
    BY <1>9 DEF Artifacts!Install
  <2> HIDE DEF new
  <2>3. \A w \in Artifacts!Writers : (aJob'[w].at = "publish") = (aJob[w].at = "publish")
    BY <2>1, <2>2
  <2>4. aJob'["execution"] = aJob["execution"] BY <2>2
  <2> QED BY <1>1, <1>3, <2>3, <2>4, NothingCounted
<1>10. ASSUME NEW w \in Artifacts!Writers, Artifacts!Prepare(w) PROVE ArtifactsBounded'
  <2>1. aJob[w].at = "prepare" BY <1>10 DEF Artifacts!Prepare
  <2>2. PICK new :
          /\ aJob' = [aJob EXCEPT ![w] = new] /\ new.at # "publish"
          /\ new.base \in {0, aJob[w].base}
    <3> DEFINE dead == [Artifacts!Idle EXCEPT !.at = "dead"]
    <3>1. CASE aJob' = [aJob EXCEPT ![w] = dead]
      <4>1. dead.at # "publish" /\ dead.base = 0 BY <1>2
      <4> HIDE DEF dead
      <4> QED BY <3>1, <4>1
    <3>2. CASE \E r : aJob' = [aJob EXCEPT ![w].at = "store", ![w].record = r]
      <4>1. PICK r : aJob' = [aJob EXCEPT ![w].at = "store", ![w].record = r] BY <3>2
      <4> DEFINE new == [aJob[w] EXCEPT !.at = "store", !.record = r]
      <4>2. new.at = "store" /\ new.base = aJob[w].base BY DEF WriterJobs
      <4>3. aJob' = [aJob EXCEPT ![w] = new] BY <4>1
      <4> HIDE DEF new
      <4> QED BY <4>2, <4>3
    <3> QED BY <1>10, <3>1, <3>2 DEF Artifacts!Prepare
  <2>3. \A v \in Artifacts!Writers : (aJob'[v].at = "publish") = (aJob[v].at = "publish")
    BY <2>1, <2>2
  <2>4. aJob'["execution"].base <= Reckoned BY <1>3, <2>2
  <2> QED BY <1>1, <2>3, <2>4, NothingCounted
<1> QED BY <1>4, <1>5, <1>6, <1>7, <1>8, <1>9, <1>10

(* Registering, and restoring, know the host path of an id that was issued.       *)
LEMMA HostsAreIssued ==
  ASSUME ArtifactsInv, ArtifactsBounded,
         Artifacts!Restore \/ \E w \in Artifacts!Writers : Artifacts!Register(w)
  PROVE  ArtifactsBounded'
<1> USE ArtifactsNumbers
<1>1. \A x \in Kept : x.id \in 1..aIssued BY DEF ArtifactsInv, IdsOK
<1>2. CASE Artifacts!Restore
  <2>1. PICK r : r = Head(aLoading) OBVIOUS
  <2>2. /\ UNCHANGED <<aIssued, aLog, aFresh, aCount, aLoaded, aRestarts, aJob>>
        /\ aLoading # <<>> /\ r # Artifacts!NoRecord
        /\ aHosts' = aHosts \/ aHosts' = aHosts \cup {r.id}
    BY <1>2, <2>1 DEF Artifacts!Restore
  <2>3. r \in Kept
    <3>1. aLoading \in Seq(Entries \cup {Artifacts!NoRecord}) BY DEF ArtifactsInv, ArtifactsTyped
    <3>2. r = aLoading[1] /\ 1 \in DOMAIN aLoading BY <2>1, <2>2, <3>1
    <3> QED BY <2>2, <3>2 DEF Kept
  <2>4. aHosts' \subseteq 1..aIssued' BY <1>1, <2>2, <2>3 DEF ArtifactsBounded
  <2> QED BY <2>2, <2>4 DEF ArtifactsBounded, Reckoned, Untold
<1>3. ASSUME NEW w \in Artifacts!Writers, Artifacts!Register(w) PROVE ArtifactsBounded'
  <2>1. PICK r : r = aJob[w].record OBVIOUS
  <2>2. /\ UNCHANGED <<aIssued, aLog, aFresh, aCount, aLoaded, aRestarts>> /\ aJob[w].at = "store"
        /\ aHosts' = aHosts \cup {r.id} /\ aJob' = [aJob EXCEPT ![w].at = "tally"]
    BY <1>3, <2>1 DEF Artifacts!Register
  <2>3. r \in Kept BY <2>1, <2>2 DEF Kept
  <2>4. aHosts' \subseteq 1..aIssued' BY <1>1, <2>2, <2>3 DEF ArtifactsBounded
  <2>5. /\ \A v \in Artifacts!Writers : (aJob'[v].at = "publish") = (aJob[v].at = "publish")
        /\ aJob'["execution"].base = aJob["execution"].base
    BY <2>2 DEF WriterJobs
  <2>6. Reckoned' = Reckoned BY <2>2, <2>5 DEF Reckoned, Untold
  <2> QED BY <2>2, <2>4, <2>5, <2>6 DEF ArtifactsBounded
<1> QED BY <1>2, <1>3

(* What is counted is announced next.                                          *)
LEMMA CountedThenTold ==
  ASSUME ArtifactsInv, ArtifactsBounded, NEW w \in Artifacts!Writers,
         Artifacts!Tally(w) \/ Artifacts!Publish(w)
  PROVE  ArtifactsBounded'
<1> USE ArtifactsNumbers
<1>1. UNCHANGED <<aHosts, aIssued, aFresh, aLoaded, aRestarts>>
  BY DEF Artifacts!Tally, Artifacts!Publish
<1>2. aLog \in Seq(Entries) /\ aCount <= Reckoned /\ aJob["execution"].base <= Reckoned
  BY DEF ArtifactsInv, ArtifactsTyped, ArtifactsBounded
<1>3. CASE Artifacts!Tally(w)
  <2>1. /\ aJob[w].at = "tally" /\ UNCHANGED aLog
        /\ aCount' \in {IF w = "execution" THEN aJob[w].base + 1 ELSE aCount, aCount + 1}
        /\ w = "execution" => aCount' = aJob[w].base + 1
    BY <1>3 DEF Artifacts!Tally
  <2>2. PICK known : aJob' = [aJob EXCEPT ![w].at = "publish", ![w].base = @ + 1, ![w].known = known]
    BY <1>3 DEF Artifacts!Tally
  <2>3. /\ aJob'[w].at = "publish" /\ aJob'[w].base = aJob[w].base + 1
        /\ \A v \in Artifacts!Writers : v # w => aJob'[v] = aJob[v]
    BY <2>2 DEF WriterJobs
  <2>4. Reckoned' = Reckoned + 1
    <3>1. Untold(w)' = 1 /\ Untold(w) = 0 BY <2>1, <2>3 DEF Untold
    <3>2. \A v \in Artifacts!Writers : v # w => Untold(v)' = Untold(v) BY <2>3 DEF Untold
    <3>3. CASE w = "execution"
      <4>1. Untold("installer")' = Untold("installer") BY <3>2, <3>3
      <4> QED BY <2>1, <3>1, <3>3, <4>1 DEF Reckoned
    <3>4. CASE w = "installer"
      <4>1. Untold("execution")' = Untold("execution") BY <3>2, <3>4
      <4> QED BY <2>1, <3>1, <3>4, <4>1 DEF Reckoned
    <3> QED BY <3>3, <3>4
  <2>5. aCount' <= Reckoned' BY <1>2, <2>1, <2>4
  <2>6. aJob'["execution"].base <= Reckoned' BY <1>2, <2>3, <2>4
  <2> QED BY <1>1, <2>1, <2>5, <2>6 DEF ArtifactsBounded
<1>4. CASE Artifacts!Publish(w)
  <2> DEFINE new == Artifacts!NextPath(w, Tail(aJob[w].todo))
  <2>1. /\ aJob[w].at = "publish" /\ Len(aLog) < MaxArtifacts /\ UNCHANGED aCount
        /\ aLog' = Append(aLog, aJob[w].record) /\ aJob' = [aJob EXCEPT ![w] = new]
    BY <1>4 DEF Artifacts!Publish
  <2>2. new.at # "publish" /\ new.base \in {0, aJob[w].base}
    BY DEF Artifacts!NextPath, Artifacts!Idle, WriterJobs
  <2> HIDE DEF new
  <2>3. Len(aLog') = Len(aLog) + 1 BY <1>2, <2>1
  <2>4. Reckoned' = Reckoned
    <3>1. CASE w = "execution" BY <2>1, <2>2, <2>3, <3>1 DEF Reckoned, Untold
    <3>2. CASE w = "installer" BY <2>1, <2>2, <2>3, <3>2 DEF Reckoned, Untold
    <3> QED BY <3>1, <3>2
  <2>5. aJob'["execution"].base <= Reckoned' BY <1>2, <2>1, <2>2, <2>4
  <2>6. Len(aLog') <= MaxArtifacts /\ aFresh' <= Len(aLog')
    BY SMTT(30), <1>1, <2>1, <2>3, LimitsAssumption DEF ArtifactsBounded
  <2> QED BY <1>1, <1>2, <2>1, <2>4, <2>5, <2>6 DEF ArtifactsBounded
<1> QED BY <1>3, <1>4

(* Loading the run, and a restart, which counts the events anew.               *)
LEMMA CountedAnew ==
  ASSUME ArtifactsInv, ArtifactsBounded, Artifacts!Load \/ Artifacts!Loaded \/ Artifacts!Restart
  PROVE  ArtifactsBounded'
<1> USE ArtifactsNumbers DEF Artifacts!Store
<1>1. CASE Artifacts!Load \/ Artifacts!Loaded
  <2>1. UNCHANGED <<aHosts, aIssued, aLog, aFresh, aCount, aJob, aRestarts>> /\ aLoaded' \in BOOLEAN
    BY <1>1 DEF Artifacts!Load, Artifacts!Loaded, ArtifactsBounded
  <2> QED BY <2>1 DEF ArtifactsBounded, Reckoned, Untold
<1>2. CASE Artifacts!Restart
  <2>1. /\ aHosts' = {} /\ aCount' = Len(aLog) /\ aFresh' = Len(aLog) /\ aLoaded' = FALSE
        /\ aRestarts' = aRestarts + 1 /\ aRestarts < MaxStarts /\ UNCHANGED aLog
        /\ \A w \in Artifacts!Writers : aJob'[w].at = "idle" /\ aJob'[w].base = 0
    BY <1>2 DEF Artifacts!Restart, Artifacts!Idle
  <2>2. Untold("execution")' = 0 /\ Untold("installer")' = 0 BY <2>1 DEF Untold
  <2>3. Reckoned' = Len(aLog) BY <2>1, <2>2 DEF Reckoned
  <2>4. aRestarts' \in 0..MaxStarts
    <3>1. aRestarts \in 0..MaxStarts /\ MaxStarts \in Nat BY LimitsAssumption DEF ArtifactsBounded
    <3> QED BY <2>1, <3>1
  <2>5. Len(aLog') <= MaxArtifacts /\ aFresh' <= Len(aLog') BY <2>1 DEF ArtifactsBounded
  <2>6. aCount' <= Reckoned' /\ aJob'["execution"].base <= Reckoned' BY <2>1, <2>3
  <2> QED BY <2>1, <2>4, <2>5, <2>6 DEF ArtifactsBounded
<1> QED BY <1>1, <1>2

(* So it is with every step.                                                  *)
LEMMA ArtifactsBoundedNext ==
  ArtifactsInv /\ ArtifactsBounded /\ [Artifacts!Next]_artifactsVars => ArtifactsBounded'
<1> SUFFICES ASSUME ArtifactsInv, ArtifactsBounded, [Artifacts!Next]_artifactsVars
             PROVE  ArtifactsBounded'
  OBVIOUS
<1>1. CASE UNCHANGED artifactsVars
  BY <1>1 DEF artifactsVars, ArtifactsBounded, Reckoned, Untold
<1>2. CASE ~UNCHANGED artifactsVars
  <2>1. Artifacts!Next BY <1>2
  <2> QED BY <2>1, NotCounting, HostsAreIssued, CountedThenTold, CountedAnew DEF Artifacts!Next
<1> QED BY <1>1, <1>2

(* The types of the artifacts.                                                *)
LEMMA ArtifactsTypeOK == ArtifactsInv /\ ArtifactsBounded => Artifacts!TypeOK
<1> SUFFICES ASSUME ArtifactsInv, ArtifactsBounded PROVE Artifacts!TypeOK
  OBVIOUS
<1> USE ArtifactsNumbers
<1>1. ArtifactsTyped /\ \A x \in Kept : x \in Artifacts!Artifact
  BY DEF ArtifactsInv, IdsOK, Entries, Artifacts!Artifact
<1>2. aRecords \in Seq(Artifacts!Artifact) /\ aLog \in Seq(Artifacts!Artifact)
  <2>1. aRecords \in Seq(Entries) /\ aLog \in Seq(Entries) BY <1>1 DEF ArtifactsTyped
  <2>2. \A i \in 1..Len(aRecords) : aRecords[i] \in Artifacts!Artifact BY <1>1, <2>1 DEF Kept
  <2>3. \A i \in 1..Len(aLog) : aLog[i] \in Artifacts!Artifact BY <1>1, <2>1 DEF Kept
  <2>4. aRecords \in Seq(Artifacts!Artifact)
    <3>1. aRecords = [i \in 1..Len(aRecords) |-> aRecords[i]] /\ Len(aRecords) \in Nat BY <2>1
    <3> QED BY <2>2, <3>1
  <2>5. aLog \in Seq(Artifacts!Artifact)
    <3>1. aLog = [i \in 1..Len(aLog) |-> aLog[i]] /\ Len(aLog) \in Nat BY <2>1
    <3> QED BY <2>3, <3>1
  <2> QED BY <2>4, <2>5
<1>3. Artifacts!ToSet(aLoading) \subseteq Artifacts!Artifact \cup {Artifacts!NoRecord}
  BY <1>1 DEF Kept, Artifacts!ToSet
<1>4. \A w \in Artifacts!Writers :
        /\ aJob[w].at \in {"idle", "run", "write", "prepare", "store", "tally", "publish", "dead"}
        /\ Artifacts!ToSet(aJob[w].todo) \subseteq Artifacts!Paths
        /\ aJob[w].record \in Artifacts!Artifact \cup {Artifacts!NoRecord}
  <2> SUFFICES ASSUME NEW w \in Artifacts!Writers
               PROVE  /\ aJob[w].at \in {"idle", "run", "write", "prepare", "store", "tally", "publish",
                                         "dead"}
                      /\ Artifacts!ToSet(aJob[w].todo) \subseteq Artifacts!Paths
                      /\ aJob[w].record \in Artifacts!Artifact \cup {Artifacts!NoRecord}
    OBVIOUS
  <2>1. aJob[w] \in WriterJobs /\ ArtifactOK(w) BY DEF ArtifactsInv
  <2>2. aJob[w].at \in {"idle", "run", "write", "prepare", "store", "tally", "publish", "dead"}
    BY <2>1 DEF WriterJobs, Working
  <2>3. Artifacts!ToSet(aJob[w].todo) \subseteq Artifacts!Paths
    <3>1. aJob[w].todo \in Seq(Artifacts!Paths) BY <2>1 DEF WriterJobs
    <3> QED BY <3>1 DEF Artifacts!ToSet
  <2>4. aJob[w].record \in Artifacts!Artifact \cup {Artifacts!NoRecord}
    <3>1. CASE aJob[w].at \in {"store", "tally", "publish"} BY <1>1, <3>1 DEF Kept
    <3>2. CASE aJob[w].at \notin {"store", "tally", "publish"} BY <2>1, <3>2 DEF ArtifactOK
    <3> QED BY <3>1, <3>2
  <2> QED BY <2>2, <2>3, <2>4
<1>5. aFresh \in 0..Len(aLog) /\ aCount \in 0..MaxArtifacts + 2
  BY SMTT(30), LimitsAssumption DEF ArtifactsBounded, Reckoned
<1> QED BY <1>1, <1>2, <1>3, <1>4, <1>5 DEF Artifacts!TypeOK, ArtifactsTyped, ArtifactsBounded

(* The types of the checkpoints.                                             *)
LEMMA CheckpointsTypeOK == KP!TypeOK => Checkpoints!TypeOK
BY DEF KP!TypeOK, Checkpoints!TypeOK, KP!Saver, Checkpoints!Saver, KP!Controller,
   Checkpoints!Controller, KP!Callers, Checkpoints!Callers

-----------------------------------------------------------------------------
(* All that has been shown to hold of the components.                           *)
ServicesInv ==
  /\ IInv /\ Bounded
  /\ TalkInv /\ TalkTyped
  /\ McpInv /\ McpBounded
  /\ SkillsInv /\ SkillsBounded
  /\ ArtifactsInv /\ ArtifactsBounded
  /\ StoreInv /\ StoreBounded
  /\ Good(ui) /\ KP!IInv

(* A step of the composition is one of the tools, or leaves them alone.         *)
LEMMA ToolsSteps == [ServicesNext]_services => [Next]_tvars
BY DEF ServicesNext, services, Resting

(* Every component has the types it should have, beside all others, for every value   *)
(* of the constants.                                                          *)
THEOREM ServicesTyped == ServicesSpec => []ServicesTypeOK
<1>1. ServicesInit => ServicesInv
  BY InitIInv, InitBounded, TalkInit, TalkTypedInit, McpInit, McpBoundedInit, SkillsInit, SkillsBoundedInit,
     ArtifactsInit, ArtifactsBoundedInit, StoreInit, StoreBoundedInit, GoodInit, KInit, KP!InvInit
  DEF ServicesInit, ServicesInv
<1>2. ServicesInv /\ [ServicesNext]_services => ServicesInv'
  <2> SUFFICES ASSUME ServicesInv, [ServicesNext]_services PROVE ServicesInv'
    OBVIOUS
  <2>1. IInv' /\ Bounded' BY ToolsSteps, NextIInv, NextBounded DEF ServicesInv
  <2>2. TalkInv' /\ TalkTyped' BY TalkSteps, TalkNext, TalkTypedNext DEF ServicesInv
  <2>3. McpInv' /\ McpBounded' BY McpSteps, McpNext, McpBoundedNext DEF ServicesInv
  <2>4. SkillsInv' /\ SkillsBounded' BY SkillsSteps, SkillsNext, SkillsBoundedNext DEF ServicesInv
  <2>5. ArtifactsInv' /\ ArtifactsBounded'
    BY ArtifactsSteps, ArtifactsNext, ArtifactsBoundedNext DEF ServicesInv
  <2>6. StoreInv' /\ StoreBounded' BY StoreSteps, StoreNext, StoreBoundedNext DEF ServicesInv
  <2>7. Good(ui)' BY ScreensSteps, GoodNext DEF ServicesInv
  <2>8. KP!IInv' BY KSteps, KP!InvStep, ThreadAssumption DEF ServicesInv
  <2> QED BY <2>1, <2>2, <2>3, <2>4, <2>5, <2>6, <2>7, <2>8 DEF ServicesInv
<1>3. ServicesInv => ServicesTypeOK
  BY ToolsTypeOK, TalkTypeOK, McpTypeOK, SkillsTypeOK, ArtifactsTypeOK, StoreTypeOK, ScreensTypeOK,
     CheckpointsTypeOK DEF ServicesInv, ServicesTypeOK, KP!IInv
<1> QED BY <1>1, <1>2, <1>3, PTL DEF ServicesSpec
=============================================================================
