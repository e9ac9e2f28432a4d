---------------------------- MODULE ToolGatewayProofs ----------------------------
(*****************************************************************************)
(* What the policy engine's decisions mean, and, for any number of simultaneous *)
(* tool calls and any calls the model may make: nobody is asked for what has     *)
(* been granted, and nothing is written without consent.                      *)
(*****************************************************************************)
EXTENDS ToolGateway, FiniteSetTheorems, SequenceTheorems, WellFoundedInduction, TLAPS

-----------------------------------------------------------------------------
(*****************************************************************************)
(* The policy engine: what its decisions mean for every configuration, every    *)
(* operation and every set of grants.                                         *)
(*****************************************************************************)
(* The types that _requires_approval knows; another type is never asked for.    *)
KnownTypes ==
  {"file.write", "command.execute", "memory.write", "skill.install", "mcp.server.connect"}
    \cup AuthTypes \cup WebTypes

(* A type that the policy does not know is none of those it does.            *)
LEMMA TypeNames ==
  ASSUME NEW type, type \notin KnownTypes
  PROVE  /\ type # "file.write" /\ type # "command.execute" /\ type # "memory.write"
         /\ type # "skill.install" /\ type # "mcp.server.connect"
         /\ type \notin AuthTypes /\ type \notin WebTypes
BY DEF KnownTypes

(* What has to be approved can be: there is a boundary to grant, so evaluate's   *)
(* answer is never DENY merely because nobody could be asked.                   *)
THEOREM ApprovalHasBoundary ==
  ASSUME NEW op, RequiresApproval(op)
  PROVE  Boundary(op) # NoBoundary
<1>1. op.type \in KnownTypes
  BY TypeNames DEF RequiresApproval
<1>2. CASE op.type = "file.write"
  BY <1>2 DEF RequiresApproval, Boundary, NoBoundary
<1>3. CASE op.type = "command.execute"
  BY <1>3 DEF RequiresApproval, Boundary, NoBoundary
<1>4. CASE op.type = "memory.write"
  BY <1>4 DEF RequiresApproval, Boundary, NoBoundary
<1>5. CASE op.type = "skill.install"
  BY <1>5 DEF Boundary, NoBoundary
<1>6. CASE op.type = "mcp.server.connect"
  BY <1>6 DEF Boundary, NoBoundary
<1>7. CASE op.type \in AuthTypes
  BY <1>7 DEF Boundary, NoBoundary, AuthTypes
<1>8. CASE op.type \in WebTypes
  BY <1>8 DEF Boundary, NoBoundary, AuthTypes, WebTypes
<1> QED BY <1>1, <1>2, <1>3, <1>4, <1>5, <1>6, <1>7, <1>8 DEF KnownTypes

(* No number of approvals ever allows what the policy denies: a client cannot    *)
(* be talked into it by a grant that it gave for something else.                *)
THEOREM DenialIsFinal ==
  ASSUME NEW op, NEW held, NEW more, Evaluate(op, held) = "DENY"
  PROVE  Evaluate(op, held \cup more) = "DENY"
BY DEF Evaluate

(* Approving what was asked for is enough: the run is not asked again for the    *)
(* same operation, whatever else has been granted since.                        *)
THEOREM GrantSuffices ==
  ASSUME NEW op, NEW held, NEW more, Evaluate(op, held) = "REQUIRE_APPROVAL"
  PROVE  Evaluate(op, (held \cup {Boundary(op)}) \cup more) = "ALLOW"
BY DEF Evaluate

(* A grant never takes anything away.                                          *)
THEOREM AllowedStaysAllowed ==
  ASSUME NEW op, NEW held, NEW more, Evaluate(op, held) = "ALLOW"
  PROVE  Evaluate(op, held \cup more) = "ALLOW"
BY DEF Evaluate

-----------------------------------------------------------------------------
(*****************************************************************************)
(* The tool calls.                                                           *)
(*****************************************************************************)
(* The slots are numbers, and of those that raised something one is the first.   *)
LEMMA FirstSlot ==
  /\ Slots \subseteq Nat \ {0}
  /\ \A T \in SUBSET Slots : T # {} => \E s \in T : \A t \in T : s <= t
<1>1. Cardinality(Slots) \in Nat BY SlotsAssumption, FS_CardinalityType
<1>2. Slots \subseteq Nat \ {0} BY <1>1, SlotsAssumption
<1>3. ASSUME NEW T \in SUBSET Slots, T # {} PROVE \E s \in T : \A t \in T : s <= t
  <2>1. T \subseteq Nat BY <1>2
  <2>2. PICK s \in T : \A t \in T : ~(<<t, s>> \in OpToRel(<, Nat))
    BY <1>3, <2>1, NatLessThanWellFounded, WFMin
  <2>3. \A t \in T : ~(t < s) BY <2>1, <2>2 DEF OpToRel
  <2> QED BY <2>1, <2>3
<1> QED BY <1>2, <1>3

Places == Raised \cup {"idle", "body", "reject", "count", "ask", "done"}
Boundaries == {Boundary(c.op) : c \in UNION {Menu[s] : s \in Slots}}

Stages == {"validate", "govern", "announce", "perform"}

Consented(op) == ~Denied(op) /\ (RequiresApproval(op) => Boundary(op) \in grants)

(* What is left of a call that has still to ask the policy engine.               *)
Ungoverned(rest) ==
  \/ Len(rest) > 0 /\ rest[1] = "govern"
  \/ Len(rest) > 1 /\ rest[1] = "validate" /\ rest[2] = "govern"

(* A call that writes has asked the policy engine before it performs.            *)
Writers == {"write_file", "memory_write"}
WriterOK(s) ==
  at[s] = "body" /\ call[s].tool \in Writers =>
    Ungoverned(todo[s]) \/ Consented(call[s].op)

(* A question that is about to be put, or has been put in this turn, is open:     *)
(* grants are given only between turns.                                        *)
QuestionOK(s) ==
  /\ at[s] = "ask" => Boundary(call[s].op) \notin grants
  /\ at[s] = "asked" => asked[s] \in DOMAIN rows /\ rows[asked[s]] \notin grants

SlotOK(s) ==
  /\ WriterOK(s) /\ QuestionOK(s)
  /\ at[s] # "idle" => call[s] \in Menu[s]
  /\ at[s] = "body" => todo[s] # <<>>

Shape ==
  /\ at \in [Slots -> Places] /\ asked \in [Slots -> Nat]
  /\ todo \in [Slots -> Seq(Stages)]
  /\ rows \in Seq(Boundaries)
  /\ phase # "working" => \A s \in Slots : at[s] = "idle"

IInv ==
  /\ Shape
  /\ \A s \in Slots : SlotOK(s)
  /\ WaitsForOpenQuestion
  /\ EffectsWereConsented

-----------------------------------------------------------------------------
(* What is to be done of a call, and that a writing tool asks first.             *)
LEMMA BodyType ==
  ASSUME NEW tool
  PROVE  /\ <<"validate">> \o Body(tool) \in Seq(Stages)
         /\ <<"validate">> \o Body(tool) # <<>>
         /\ tool \in Writers => Ungoverned(<<"validate">> \o Body(tool))
<1>1. Body(tool) \in {<<"govern", "announce", "perform">>, <<"announce", "perform">>,
                     <<"govern", "perform", "announce">>, <<"perform", "announce">>}
  BY Zenon DEF Body
<1>2. tool \in Writers => Body(tool) \in {<<"govern", "announce", "perform">>,
                                        <<"govern", "perform", "announce">>}
  <2>1. CASE tool = "write_file" BY <2>1 DEF Body, FileTools
  <2>2. CASE tool = "memory_write"
    <3>1. "memory_write" \notin FileTools /\ "memory_write" # "mcp" BY DEF FileTools
    <3> QED BY <2>2, <3>1 DEF Body
  <2> QED BY <2>1, <2>2 DEF Writers
<1>3. Body(tool) \in Seq(Stages)
  <2>1. /\ <<"govern", "announce", "perform">> \in Seq(Stages)
        /\ <<"announce", "perform">> \in Seq(Stages)
        /\ <<"govern", "perform", "announce">> \in Seq(Stages)
        /\ <<"perform", "announce">> \in Seq(Stages)
    BY DEF Stages
  <2> QED BY <1>1, <2>1
<1>4. <<"validate">> \in Seq(Stages) BY DEF Stages
<1>5. tool \in Writers => Len(Body(tool)) = 3 /\ Body(tool)[1] = "govern"
  BY <1>2
<1>6. Len(<<"validate">> \o Body(tool)) = 1 + Len(Body(tool)) /\ Len(Body(tool)) \in Nat
  BY <1>3, <1>4
<1>7. <<"validate">> \o Body(tool) # <<>> BY <1>6
<1> QED BY <1>3, <1>4, <1>5, <1>7 DEF Ungoverned

(* Going on with a call.                                                      *)
LEMMA RestType ==
  ASSUME NEW rest \in Seq(Stages), rest # <<>>
  PROVE  /\ Tail(rest) \in Seq(Stages) /\ Head(rest) = rest[1]
         /\ Len(rest) # 1 => Tail(rest) # <<>>
         /\ Ungoverned(rest) => Head(rest) \in {"validate", "govern"}
         /\ Ungoverned(rest) /\ Head(rest) = "validate" => Ungoverned(Tail(rest))
<1>1. Len(rest) \in Nat /\ Len(rest) > 0 OBVIOUS
<1>2. /\ Tail(rest) \in Seq(Stages) /\ Head(rest) = rest[1]
      /\ Len(Tail(rest)) = Len(rest) - 1
  BY <1>1
<1>3. Len(rest) > 1 => Tail(rest)[1] = rest[2]
  <2>1. \A i \in 1..Len(Tail(rest)) : Tail(rest)[i] = rest[i + 1] BY HeadTailProperties
  <2> QED BY <1>1, <1>2, <2>1
<1>4. Len(rest) # 1 => Tail(rest) # <<>>
  <2>1. Len(rest) # 1 => Len(Tail(rest)) # 0 BY <1>1, <1>2
  <2> QED BY <2>1
<1>5. Ungoverned(rest) => Head(rest) \in {"validate", "govern"} BY <1>2 DEF Ungoverned
<1>6. Ungoverned(rest) /\ Head(rest) = "validate" => Ungoverned(Tail(rest))
  BY <1>1, <1>2, <1>3 DEF Ungoverned
<1> QED BY <1>2, <1>4, <1>5, <1>6

(* The policy looks at the path of a file.write, and at nothing else.             *)
LEMMA FileWrites ==
  ASSUME NEW op, op.type = "file.write"
  PROVE  /\ Denied(op) <=> InIdentity(op.path)
         /\ RequiresApproval(op) <=>
              ~(InArtifacts(op.path) \/ InScratch(op.path) \/ InMemory(op.path))
         /\ Boundary(op) = IF InArtifacts(op.path) \/ InScratch(op.path) THEN NoBoundary
                           ELSE <<op.type, WorkspaceSubtree(op.path)>>
<1> /\ op.type # "command.execute" /\ op.type # "memory.write" /\ op.type # "skill.install"
    /\ op.type # "mcp.server.connect" /\ op.type \notin AuthTypes /\ op.type \notin WebTypes
    /\ op.type \notin (AuthTypes \ {"remote_mcp.auth.start"}) \cup WebTypes
  BY DEF AuthTypes, WebTypes
<1>1. Denied(op) <=> InIdentity(op.path) BY Zenon DEF Denied
<1>2. RequiresApproval(op) <=>
        ~(InArtifacts(op.path) \/ InScratch(op.path) \/ InMemory(op.path))
  BY Zenon DEF RequiresApproval
<1>3. Boundary(op) = IF InArtifacts(op.path) \/ InScratch(op.path) THEN NoBoundary
                     ELSE <<op.type, WorkspaceSubtree(op.path)>>
  BY Zenon DEF Boundary
<1> QED BY <1>1, <1>2, <1>3

(* What the policy engine's answers mean.                                       *)
LEMMA Decisions ==
  ASSUME NEW op
  PROVE  /\ Evaluate(op, grants) = "ALLOW" => Consented(op)
         /\ Evaluate(op, grants) = "REQUIRE_APPROVAL" => Boundary(op) \notin grants
BY DEF Evaluate, Consented
-----------------------------------------------------------------------------
(* What every step of a call has in common: it moves the slot, in the order of    *)
(* the body and past the policy engine with its consent only, or puts a question  *)
(* that is open.                                                              *)
Moves(s, place) ==
  /\ at' = [at EXCEPT ![s] = place]
  /\ \/ UNCHANGED todo /\ place \in Places \ {"idle", "body"}
     \/ /\ at[s] = "body" /\ todo' = [todo EXCEPT ![s] = Tail(@)]
        /\ place = IF Len(todo[s]) = 1 THEN "done" ELSE "body"
        /\ Head(todo[s]) = "govern" => Consented(call[s].op)
  /\ place = "ask" => Boundary(call[s].op) \notin grants
  /\ \/ UNCHANGED <<rows, asked>> /\ place # "asked"
     \/ /\ place = "asked" /\ Boundary(call[s].op) \notin grants
        /\ rows' = Append(rows, Boundary(call[s].op))
        /\ asked' = [asked EXCEPT ![s] = Len(rows) + 1]

Moving(s) ==
  /\ phase = "working" /\ at[s] # "idle" /\ UNCHANGED <<phase, call, grants>>
  /\ \E place \in Places : Moves(s, place)

(* A call that goes to its next place moves alone.                           *)
LEMMA GoesMoves ==
  ASSUME NEW s \in Slots, NEW place \in Places \ {"idle", "body", "ask", "asked"},
         Goes(s, place), UNCHANGED <<rows, asked>>
  PROVE  \E p \in Places : Moves(s, p)
BY DEF Goes, Moves

(* A tool body that gets on consented to what it does next.                  *)
LEMMA AdvanceMoves ==
  ASSUME NEW s \in Slots, at[s] = "body", Advance(s), UNCHANGED <<rows, asked>>,
         Head(todo[s]) = "govern" => Consented(call[s].op)
  PROVE  \E p \in Places : Moves(s, p)
<1> DEFINE place == IF Len(todo[s]) = 1 THEN "done" ELSE "body"
<1>1. place \in Places \ {"ask", "asked"} BY DEF Places
<1>2. Moves(s, place) BY <1>1 DEF Advance, Moves
<1> QED BY <1>1, <1>2

(* Whatever a call does without asking, it moves alone and leaves the        *)
(* questions.                                                                *)
LEMMA WorkMoves ==
  ASSUME IInv, NEW s \in Slots, Work(s)
  PROVE  Moving(s)
<1> USE DEF Moving, Same
<1>1. CASE Validate(s)
  BY <1>1, GoesMoves, AdvanceMoves DEF Validate, Doing, Running, Places, Raised
<1>2. CASE Govern(s)
  <2> DEFINE decision == Evaluate(call[s].op, grants)
  <2>1. decision \in {"ALLOW", "DENY", "REQUIRE_APPROVAL"} BY DEF Evaluate
  <2>2. CASE decision = "ALLOW"
    BY <1>2, <2>2, AdvanceMoves, Decisions DEF Govern, Doing, Running
  <2>3. CASE decision = "DENY"
    <3>1. Goes(s, "reject") \/ Goes(s, "error") BY <1>2, <2>3 DEF Govern
    <3> QED BY <1>2, <3>1, GoesMoves DEF Govern, Doing, Running, Places, Raised
  <2>4. CASE decision = "REQUIRE_APPROVAL"
    <3>1. Goes(s, "ask") BY <1>2, <2>4 DEF Govern
    <3>2. Moves(s, "ask") BY <1>2, <2>4, <3>1, Decisions DEF Govern, Goes, Moves, Places
    <3> QED BY <1>2, <3>2 DEF Govern, Doing, Running, Places
  <2> QED BY <2>1, <2>2, <2>3, <2>4
<1>3. CASE Ask(s)
  <2>1. Boundary(call[s].op) \notin grants BY <1>3 DEF Ask, IInv, SlotOK, QuestionOK
  <2>2. Moves(s, "asked") BY <1>3, <2>1 DEF Ask, Goes, Moves, Places, Raised
  <2> QED BY <1>3, <2>2 DEF Ask, Places, Raised
<1>4. CASE Announce(s)
  BY <1>4, AdvanceMoves DEF Announce, Doing, Running
<1>5. CASE ReadFile(s)
  BY <1>5, GoesMoves, AdvanceMoves DEF ReadFile, Performs, Doing, Running, Places
<1>6. CASE WriteFile(s)
  BY <1>6, AdvanceMoves DEF WriteFile, Performs, Doing, Running
<1>7. CASE ListFiles(s)
  BY <1>7, AdvanceMoves DEF ListFiles, Performs, Doing, Running
<1>8. CASE ExecuteCommand(s)
  BY <1>8, GoesMoves, AdvanceMoves DEF ExecuteCommand, Performs, Doing, Running, Places, Raised
<1>9. CASE MemoryWrite(s)
  BY <1>9, AdvanceMoves DEF MemoryWrite, Performs, Doing, Running
<1>10. CASE Inform(s)
  BY <1>10, AdvanceMoves DEF Inform, Performs, Doing, Running
<1>11. CASE RequestUserInput(s)
  BY <1>11, GoesMoves DEF RequestUserInput, Performs, Doing, Running, Places, Raised
<1>12. CASE UseWeb(s)
  BY <1>12, GoesMoves, AdvanceMoves DEF UseWeb, Performs, Doing, Running, Places, Raised
<1>13. CASE UseMcp(s)
  BY <1>13, GoesMoves, AdvanceMoves DEF UseMcp, McpRejects, Performs, Doing, Running, Places
<1>14. CASE ReadStreak(s)
  BY <1>14, GoesMoves DEF ReadStreak, Places
<1>15. CASE WriteStreak(s)
  <2>1. Goes(s, "error") \/ Goes(s, "done") BY <1>15 DEF WriteStreak
  <2> QED BY <1>15, <2>1, GoesMoves DEF WriteStreak, Places, Raised
<1> QED
  BY <1>1, <1>2, <1>3, <1>4, <1>5, <1>6, <1>7, <1>8, <1>9, <1>10, <1>11, <1>12, <1>13,
     <1>14, <1>15 DEF Work
(* A step of one call leaves the others as they were.                           *)
LEMMA MovingKeeps ==
  ASSUME IInv, NEW s \in Slots, Moving(s)
  PROVE  Shape' /\ \A t \in Slots : SlotOK(t)'
<1> PICK place \in Places : Moves(s, place) BY DEF Moving
<1>1. Shape /\ SlotOK(s) /\ call[s] \in Menu[s] BY DEF IInv, SlotOK, Moving
<1>2. Boundary(call[s].op) \in Boundaries BY <1>1 DEF Boundaries
<1>3. /\ rows' \in Seq(Boundaries) /\ asked' \in [Slots -> Nat]
      /\ \A n \in DOMAIN rows : n \in DOMAIN rows' /\ rows'[n] = rows[n]
  <2>1. rows \in Seq(Boundaries) /\ asked \in [Slots -> Nat] BY <1>1 DEF Shape
  <2>2. CASE UNCHANGED <<rows, asked>> BY <2>1, <2>2
  <2>3. CASE ~UNCHANGED <<rows, asked>>
    <3>1. /\ rows' = Append(rows, Boundary(call[s].op))
          /\ asked' = [asked EXCEPT ![s] = Len(rows) + 1]
      BY <2>3 DEF Moves
    <3>2. /\ rows' \in Seq(Boundaries) /\ Len(rows) \in Nat
          /\ \A n \in DOMAIN rows : n \in DOMAIN rows' /\ rows'[n] = rows[n]
      BY <1>2, <2>1, <3>1
    <3> QED BY <2>1, <3>1, <3>2
  <2> QED BY <2>2, <2>3
<1>4. at[s] = "body" =>
        /\ todo[s] \in Seq(Stages) /\ todo[s] # <<>>
        /\ Tail(todo[s]) \in Seq(Stages) /\ (Len(todo[s]) # 1 => Tail(todo[s]) # <<>>)
  BY <1>1, RestType DEF Shape, SlotOK
<1>5. Shape'
  <2>1. todo' \in [Slots -> Seq(Stages)] BY <1>1, <1>4 DEF Moves, Shape
  <2>2. at' \in [Slots -> Places] BY <1>1 DEF Moves, Shape
  <2> QED BY <1>3, <2>1, <2>2 DEF Moving, Shape
<1>6. ASSUME NEW t \in Slots \ {s} PROVE SlotOK(t)'
  <2>1. at'[t] = at[t] /\ todo'[t] = todo[t] /\ asked'[t] = asked[t] /\ call' = call
    BY <1>1 DEF Moves, Moving, Shape
  <2>2. SlotOK(t) BY DEF IInv
  <2>3. WriterOK(t)' BY <2>1, <2>2 DEF SlotOK, WriterOK, Moving, Consented
  <2>4. QuestionOK(t)' BY <1>3, <2>1, <2>2 DEF SlotOK, QuestionOK, Moving
  <2> QED BY <2>1, <2>2, <2>3, <2>4 DEF SlotOK
<1>7. SlotOK(s)'
  <2>1. at'[s] = place /\ call' = call /\ grants' = grants BY <1>1 DEF Moves, Moving, Shape
  <2>2. WriterOK(s)'
    <3> SUFFICES ASSUME place = "body", call[s].tool \in Writers
        PROVE  Ungoverned(todo'[s]) \/ Consented(call[s].op)
      BY <2>1 DEF WriterOK, Consented
    <3>1. at[s] = "body" /\ todo'[s] = Tail(todo[s])
          /\ (Head(todo[s]) = "govern" => Consented(call[s].op))
      BY <1>1 DEF Moves, Shape
    <3>2. Ungoverned(todo[s]) \/ Consented(call[s].op) BY <1>1, <3>1 DEF SlotOK, WriterOK
    <3> QED BY <1>4, <3>1, <3>2, RestType
  <2>3. QuestionOK(s)' BY <1>1, <1>3, <2>1 DEF Moves, QuestionOK, Shape
  <2>4. place = "body" => todo'[s] # <<>> BY <1>1, <1>4 DEF Moves, Shape
  <2> QED BY <1>1, <2>1, <2>2, <2>3, <2>4 DEF SlotOK
<1> QED BY <1>5, <1>6, <1>7

(* Only the two writing tools leave anything behind, and they have asked.        *)
LEMMA WorkConsented ==
  ASSUME IInv, NEW s \in Slots, Work(s)
  PROVE  EffectsWereConsented'
<1>1. EffectsWereConsented /\ SlotOK(s) /\ Shape BY DEF IInv
<1>2. grants' = grants BY WorkMoves DEF Moving
<1>3. ASSUME files' \subseteq files, memory' = memory PROVE EffectsWereConsented'
  BY <1>1, <1>2, <1>3 DEF EffectsWereConsented
<1>4. ASSUME at[s] = "body", Head(todo[s]) = "perform", call[s].tool \in Writers
      PROVE  Consented(call[s].op) /\ call[s] \in Menu[s]
  BY <1>1, <1>4, RestType DEF SlotOK, WriterOK, Shape
<1>5. CASE WriteFile(s)
  <2> DEFINE op == call[s].op
             written == [type |-> "file.write", path |-> op.path]
  <2>1. Consented(op) /\ op.type = "file.write"
    BY <1>4, <1>5, MenuAssumption DEF WriteFile, Performs, Doing, Running, Writers
  <2>2. written.type = "file.write" /\ written.path = op.path OBVIOUS
  <2>3. /\ RequiresApproval(written) <=> RequiresApproval(op)
        /\ ~InIdentity(op.path) /\ Boundary(written) = Boundary(op)
    BY <2>1, <2>2, FileWrites DEF Consented
  <2>4. files' = files \cup {op.path} /\ memory' = memory
    BY <1>5 DEF WriteFile, Performs
  <2> QED BY <1>1, <1>2, <2>1, <2>3, <2>4 DEF EffectsWereConsented, Consented
<1>6. CASE MemoryWrite(s)
  <2>1. Consented(call[s].op)
    BY <1>4, <1>6 DEF MemoryWrite, Performs, Doing, Running, Writers
  <2>2. memory' = memory \cup {call[s].op} /\ files' = files
    BY <1>6 DEF MemoryWrite, Performs
  <2> QED BY <1>1, <1>2, <2>1, <2>2 DEF EffectsWereConsented, Consented
<1>7. CASE ExecuteCommand(s)
  BY <1>3, <1>7 DEF ExecuteCommand, Performs
<1>8. CASE Validate(s) BY <1>3, <1>8 DEF Validate
<1>9. CASE Govern(s) BY <1>3, <1>9 DEF Govern
<1>10. CASE Ask(s) \/ Announce(s) BY <1>3, <1>10 DEF Ask, Announce
<1>11. CASE ReadFile(s) \/ ListFiles(s) \/ Inform(s) \/ RequestUserInput(s)
  BY <1>3, <1>11 DEF ReadFile, ListFiles, Inform, RequestUserInput
<1>12. CASE UseWeb(s) \/ UseMcp(s) BY <1>3, <1>12 DEF UseWeb, UseMcp
<1>13. CASE ReadStreak(s) \/ WriteStreak(s) BY <1>3, <1>13 DEF ReadStreak, WriteStreak
<1> QED BY <1>5, <1>6, <1>7, <1>8, <1>9, <1>10, <1>11, <1>12, <1>13 DEF Work

(* So it keeps the invariant.                                                *)
LEMMA WorkKeeps ==
  ASSUME IInv, NEW s \in Slots, Work(s)
  PROVE  IInv'
<1>1. Moving(s) BY WorkMoves
<1>2. WaitsForOpenQuestion' BY <1>1 DEF Moving, WaitsForOpenQuestion
<1> QED BY <1>1, <1>2, MovingKeeps, WorkConsented DEF IInv

(* A turn begins with every call before the policy engine.                       *)
LEMMA TurnKeeps ==
  ASSUME IInv, Turn
  PROVE  IInv'
<1> PICK n \in Slots : \E calls \in Choices(n) : Begin(n, calls) BY DEF Turn
<1> PICK calls \in Choices(n) : Begin(n, calls) OBVIOUS
<1>1. Shape /\ WaitsForOpenQuestion /\ EffectsWereConsented BY DEF IInv
<1>2. UNCHANGED <<phase, rows, asked, pending, grants, files, memory>> /\ phase = "working"
  BY DEF Turn, Begin
<1>3. ASSUME NEW s \in Slots, s <= n
      PROVE  /\ calls[s] \in Menu[s] /\ call'[s] = calls[s]
             /\ todo'[s] = <<"validate">> \o Body(calls[s].tool) /\ at'[s] = "body"
  <2>1. s \in 1..n BY <1>3, FirstSlot
  <2>2. calls[s] \in Menu[s] BY <2>1 DEF Choices
  <2> QED BY <1>3, <2>2 DEF Begin
<1>4. ASSUME NEW s \in Slots, ~(s <= n)
      PROVE  todo'[s] = <<>> /\ at'[s] = "idle"
  BY <1>4 DEF Begin
<1>5. Shape'
  <2>1. at' \in [Slots -> Places] BY DEF Begin, Places, Raised
  <2>2. todo' \in [Slots -> Seq(Stages)]
    <3>1. ASSUME NEW s \in Slots PROVE todo'[s] \in Seq(Stages)
      <4>1. CASE s <= n BY <1>3, <4>1, BodyType
      <4>2. CASE ~(s <= n)
        <5>1. <<>> \in Seq(Stages) OBVIOUS
        <5> QED BY <1>4, <4>2, <5>1
      <4> QED BY <4>1, <4>2
    <3> QED BY <3>1 DEF Begin
  <2> QED BY <1>1, <1>2, <2>1, <2>2 DEF Shape
<1>6. ASSUME NEW s \in Slots PROVE SlotOK(s)'
  <2>1. CASE s <= n
    <3>1. WriterOK(s)' BY <1>3, <2>1, BodyType DEF WriterOK
    <3>2. QuestionOK(s)' BY <1>3, <2>1 DEF QuestionOK
    <3> QED BY <1>3, <2>1, <3>1, <3>2, BodyType DEF SlotOK
  <2>2. CASE ~(s <= n) BY <1>4, <2>2 DEF SlotOK, WriterOK, QuestionOK
  <2> QED BY <2>1, <2>2
<1>7. WaitsForOpenQuestion' /\ EffectsWereConsented'
  BY <1>1, <1>2 DEF WaitsForOpenQuestion, EffectsWereConsented
<1> QED BY <1>5, <1>6, <1>7 DEF IInv

(* The question that a turn ends with is one that was put in it.                  *)
LEMMA SettleKeeps ==
  ASSUME IInv, Settle
  PROVE  IInv'
<1> DEFINE raised == {s \in Slots : at[s] \in Raised}
           first  == CHOOSE s \in raised : \A t \in raised : s <= t
<1>1. Shape /\ EffectsWereConsented BY DEF IInv
<1>2. UNCHANGED <<rows, grants, files, memory>> BY DEF Settle
<1>3. at' = [s \in Slots |-> "idle"] /\ asked' = [s \in Slots |-> 0]
      /\ todo' = [s \in Slots |-> <<>>]
  BY DEF Settle
<1>4. Shape' BY <1>1, <1>2, <1>3 DEF Shape, Places
<1>5. \A s \in Slots : SlotOK(s)' BY <1>3 DEF SlotOK, WriterOK, QuestionOK
<1>6. WaitsForOpenQuestion'
  <2> SUFFICES ASSUME phase' = "waiting"
      PROVE  pending' \in DOMAIN rows /\ rows[pending'] \notin grants
    BY <1>2 DEF WaitsForOpenQuestion
  <2>1. raised # {} BY DEF Settle
  <2>2. first \in raised BY <2>1, FirstSlot
  <2>3. at[first] = "asked"
    <3>1. phase' = CASE at[first] = "asked" -> "waiting"
                     [] at[first] = "user"  -> "paused"
                     [] at[first] = "error" -> "failed"
      BY <2>1 DEF Settle
    <3>2. at[first] \in {"asked", "user", "error"} BY <2>2 DEF Raised
    <3> QED BY <3>1, <3>2
  <2>4. pending' = asked[first] BY <2>1, <2>3 DEF Settle
  <2>5. QuestionOK(first) BY <2>2 DEF IInv, SlotOK
  <2> QED BY <2>3, <2>4, <2>5 DEF QuestionOK
<1>7. EffectsWereConsented' BY <1>1, <1>2 DEF EffectsWereConsented
<1> QED BY <1>4, <1>5, <1>6, <1>7 DEF IInv
(* No call has begun at first, and nothing is asked.                         *)
LEMMA InitIInv == Init => IInv
<1> SUFFICES ASSUME Init PROVE IInv
  OBVIOUS
<1>1. <<>> \in Seq(Stages) /\ <<>> \in Seq(Boundaries) OBVIOUS
<1>2. Shape BY <1>1 DEF Init, Shape, Places
<1>3. \A s \in Slots : SlotOK(s) BY DEF Init, SlotOK, WriterOK, QuestionOK
<1>4. WaitsForOpenQuestion /\ EffectsWereConsented
  BY DEF Init, WaitsForOpenQuestion, EffectsWereConsented
<1> QED BY <1>2, <1>3, <1>4 DEF IInv

(* The invariant is kept by every step of every call.                        *)
LEMMA NextIInv == IInv /\ [Next]_tvars => IInv'
<1> SUFFICES ASSUME IInv, [Next]_tvars PROVE IInv'
  OBVIOUS
<1> USE DEF IInv
<1>1. CASE UNCHANGED tvars
  BY <1>1 DEF tvars, Shape, SlotOK, WriterOK, QuestionOK, Consented, WaitsForOpenQuestion,
     EffectsWereConsented
<1>2. CASE Turn
  BY <1>2, TurnKeeps
<1>3. ASSUME NEW s \in Slots, Work(s) PROVE IInv'
  BY <1>3, WorkKeeps
<1>4. CASE Settle
  BY <1>4, SettleKeeps
<1>5. CASE Finish
  <2>1. UNCHANGED <<call, todo, at, asked, rows, pending, grants, files, memory>>
        /\ phase' = "completed" /\ \A s \in Slots : at[s] = "idle"
    BY <1>5 DEF Finish
  <2> QED BY <2>1 DEF Shape, SlotOK, WriterOK, QuestionOK, Consented, WaitsForOpenQuestion,
       EffectsWereConsented
<1>6. CASE Reply
  <2>1. UNCHANGED <<call, todo, at, asked, rows, pending, grants, files, memory>>
        /\ phase' = "working"
    BY <1>6 DEF Reply
  <2> QED BY <2>1 DEF Shape, SlotOK, WriterOK, QuestionOK, Consented, WaitsForOpenQuestion,
       EffectsWereConsented
<1>7. ASSUME NEW approve \in BOOLEAN, Answer(approve) PROVE IInv'
  <2>1. UNCHANGED <<call, todo, at, asked, rows, files, memory>> /\ grants \subseteq grants'
        /\ phase' \in {"working", "failed"} /\ \A s \in Slots : at[s] = "idle"
    BY <1>7 DEF Answer, Shape
  <2>2. Shape' /\ \A s \in Slots : SlotOK(s)'
    BY <2>1 DEF Shape, SlotOK, WriterOK, QuestionOK
  <2>3. WaitsForOpenQuestion' BY <2>1 DEF WaitsForOpenQuestion
  <2>4. EffectsWereConsented' BY <2>1 DEF EffectsWereConsented
  <2> QED BY <2>2, <2>3, <2>4
<1> QED BY <1>1, <1>2, <1>3, <1>4, <1>5, <1>6, <1>7 DEF Next

-----------------------------------------------------------------------------
(* The counts.  The calls of a turn that have still to be counted, should they be    *)
(* rejected: each of them adds one at most, to what it read or to nothing.        *)
Uncounted == {s \in Slots : at[s] \in {"body", "reject", "count"}}
Left == Cardinality(Uncounted)

CountsOK ==
  /\ streak \in Nat /\ seen \in [Slots -> Nat]
  /\ streak + Left <= MaxStreak
  /\ \A s \in Slots : seen[s] <= MaxStreak /\ (at[s] = "count" => seen[s] + Left <= MaxStreak)
QuestionsOK ==
  /\ Len(rows) <= MaxApprovals /\ pending \in 0..Len(rows)
  /\ asked \in [Slots -> 0..Len(rows)]
Phases == {"working", "waiting", "paused", "failed", "completed"}
Bounded == phase \in Phases /\ CountsOK /\ QuestionsOK

(* There are no more of them than slots.                                      *)
LEMMA Counting ==
  /\ Cardinality(Slots) \in Nat /\ MaxStreak \in Nat /\ Cardinality(Slots) <= MaxStreak
  /\ IsFiniteSet(Uncounted) /\ Left \in Nat /\ Left <= Cardinality(Slots)
<1>1. Uncounted \subseteq Slots BY DEF Uncounted
<1>2. /\ IsFiniteSet(Uncounted) /\ Left \in Nat /\ Left <= Cardinality(Slots)
      /\ Cardinality(Slots) \in Nat
  BY <1>1, SlotsAssumption, FS_Subset, FS_CardinalityType DEF Left
<1> QED BY <1>2, CountsAssumption DEF MaxStreak

(* A sum that has room has room for less.                                       *)
LEMMA RoomForLess ==
  ASSUME NEW count \in Nat, NEW left \in Nat, NEW less \in Nat, NEW bound \in Nat,
         count + left <= bound, less <= left
  PROVE  count + less <= bound /\ 0 + less <= bound /\ 0 <= bound
OBVIOUS

(* A step that adds nobody to them lets the counts that it leaves be.                *)
LEMMA FewerLeft ==
  ASSUME Bounded, Uncounted' \subseteq Uncounted, streak' \in {streak, 0}, UNCHANGED <<phase, seen>>,
         QuestionsOK', \A s \in Slots : at'[s] = "count" => at[s] = "count"
  PROVE  Bounded'
<1>1. Left' \in Nat /\ Left' <= Left
  BY Counting, FS_Subset, FS_CardinalityType DEF Left
<1>2. Left \in Nat /\ MaxStreak \in Nat /\ Left <= MaxStreak BY Counting
<1>0. streak \in Nat /\ streak + Left <= MaxStreak BY DEF Bounded, CountsOK
<1>3. streak' \in Nat /\ streak' + Left' <= MaxStreak
  <2>1. streak + Left' <= MaxStreak /\ 0 + Left' <= MaxStreak BY <1>0, <1>1, <1>2, RoomForLess
  <2> QED BY <1>0, <2>1
<1>4. ASSUME NEW s \in Slots
      PROVE  seen[s] <= MaxStreak /\ (at'[s] = "count" => seen[s] + Left' <= MaxStreak)
  <2>1. seen[s] \in Nat /\ seen[s] <= MaxStreak /\ (at[s] = "count" => seen[s] + Left <= MaxStreak)
    BY DEF Bounded, CountsOK
  <2> QED BY <1>1, <1>2, <2>1
<1>5. MaxStreak' = MaxStreak BY DEF MaxStreak
<1> QED BY <1>3, <1>4, <1>5 DEF Bounded, CountsOK

(* What is raised, counted or announced by one call.                              *)
LEMMA WorkBounded ==
  ASSUME IInv, Bounded, NEW s \in Slots, Work(s)
  PROVE  Bounded'
<1>0. at \in [Slots -> Places] /\ rows \in Seq(Boundaries) /\ Len(rows) \in Nat
  BY DEF IInv, Shape
<1>1. Moving(s) BY WorkMoves
<1>2. PICK place \in Places : Moves(s, place) BY <1>1 DEF Moving
<1>3. UNCHANGED phase BY <1>1 DEF Moving
<1>4. at' = [at EXCEPT ![s] = place] BY <1>2 DEF Moves
<1>5. ASSUME place \notin {"body", "reject", "count"} \/ at[s] \in {"body", "reject", "count"}
      PROVE  Uncounted' \subseteq Uncounted
  BY <1>0, <1>4, <1>5 DEF Uncounted
<1>6. ASSUME UNCHANGED <<rows, asked, pending>> PROVE QuestionsOK'
  BY <1>6 DEF Bounded, QuestionsOK
<1>7. CASE Ask(s)
  <2>1. /\ rows' = Append(rows, Boundary(call[s].op)) /\ Len(rows) < MaxApprovals
        /\ asked' = [asked EXCEPT ![s] = Len(rows) + 1] /\ pending' = Len(rows) + 1
        /\ Goes(s, "asked") /\ UNCHANGED <<seen, streak>>
    BY <1>7 DEF Ask
  <2>2. Len(rows') = Len(rows) + 1
    <3>1. Boundary(call[s].op) \in Boundaries
      BY <1>1 DEF Moving, IInv, SlotOK, Boundaries
    <3> QED BY <1>0, <2>1, <3>1
  <2>3. QuestionsOK' BY <1>0, <2>1, <2>2, CountsAssumption DEF Bounded, QuestionsOK
  <2>4. place = "asked" BY <1>0, <1>4, <2>1 DEF Goes
  <2>5. \A t \in Slots : at'[t] = "count" => at[t] = "count" BY <1>0, <1>4, <2>4
  <2> QED BY <1>3, <1>5, <2>1, <2>3, <2>4, <2>5, FewerLeft
<1>8. ASSUME at[s] = "body", UNCHANGED <<seen, rows, asked, pending>>, streak' \in {streak, 0},
             Advance(s) \/ \E p \in Places \ {"count"} : Goes(s, p)
      PROVE  Bounded'
  <2>1. \E p \in Places \ {"count"} : at' = [at EXCEPT ![s] = p]
    BY <1>8 DEF Advance, Goes, Places
  <2>2. \A t \in Slots : at'[t] = "count" => at[t] = "count" BY <1>0, <2>1
  <2> QED BY <1>3, <1>5, <1>6, <1>8, <2>2, FewerLeft
<1>9. CASE ReadStreak(s)
  <2>1. /\ at[s] = "reject" /\ seen' = [seen EXCEPT ![s] = streak] /\ at' = [at EXCEPT ![s] = "count"]
        /\ UNCHANGED <<phase, streak, rows, asked, pending>>
    BY <1>9 DEF ReadStreak, Goes
  <2>2. Uncounted' = Uncounted BY <1>0, <2>1 DEF Uncounted
  <2>3. Left' = Left BY <2>2 DEF Left
  <2>4. MaxStreak' = MaxStreak BY DEF MaxStreak
  <2>5. streak <= MaxStreak BY Counting DEF Bounded, CountsOK
  <2>6. CountsOK' BY <1>0, <2>1, <2>3, <2>4, <2>5 DEF Bounded, CountsOK
  <2> QED BY <1>6, <2>1, <2>6 DEF Bounded
<1>10. CASE WriteStreak(s)
  <2>1. /\ at[s] = "count" /\ streak' = seen[s] + 1
        /\ \E p \in {"error", "done"} : at' = [at EXCEPT ![s] = p]
        /\ UNCHANGED <<phase, seen, rows, asked, pending>>
    BY <1>10 DEF WriteStreak, Goes, Same
  <2>2. Uncounted' = Uncounted \ {s} /\ s \in Uncounted BY <1>0, <2>1 DEF Uncounted
  <2>3. Left' = Left - 1 /\ Left \in Nat /\ MaxStreak \in Nat
    BY <2>2, Counting, FS_RemoveElement DEF Left
  <2>4. MaxStreak' = MaxStreak BY DEF MaxStreak
  <2>5. /\ seen[s] \in Nat /\ seen[s] + Left <= MaxStreak
        /\ \A t \in Slots : /\ seen[t] \in Nat /\ seen[t] <= MaxStreak
                            /\ at[t] = "count" => seen[t] + Left <= MaxStreak
    BY <2>1 DEF Bounded, CountsOK
  <2>6. streak' \in Nat /\ streak' + Left' <= MaxStreak BY <2>1, <2>3, <2>5
  <2>7. \A t \in Slots : at'[t] = "count" => at[t] = "count" BY <1>0, <2>1
  <2>8. \A t \in Slots : seen[t] <= MaxStreak /\ (at'[t] = "count" => seen[t] + Left' <= MaxStreak)
    BY <2>3, <2>5, <2>7
  <2>9. CountsOK' BY <2>1, <2>4, <2>6, <2>8 DEF Bounded, CountsOK
  <2> QED BY <1>6, <2>1, <2>9 DEF Bounded
<1>11. CASE Announce(s)
  BY <1>8, <1>11 DEF Announce, Doing, Running, Same
<1> USE DEF Doing, Running, Same, Performs, Places, Raised
<1>12. CASE Validate(s) BY <1>8, <1>12 DEF Validate
<1>13. CASE Govern(s)
  <2>1. Evaluate(call[s].op, grants) \in {"ALLOW", "DENY", "REQUIRE_APPROVAL"} BY DEF Evaluate
  <2>2. Advance(s) \/ Goes(s, "reject") \/ Goes(s, "error") \/ Goes(s, "ask")
    BY <1>13, <2>1 DEF Govern
  <2> QED BY <1>8, <1>13, <2>2 DEF Govern
<1>14. CASE ReadFile(s) \/ WriteFile(s) \/ ListFiles(s) \/ ExecuteCommand(s) \/ MemoryWrite(s)
  BY <1>8, <1>14 DEF ReadFile, WriteFile, ListFiles, ExecuteCommand, MemoryWrite
<1>15. CASE Inform(s) \/ RequestUserInput(s) \/ UseWeb(s) \/ UseMcp(s)
  BY <1>8, <1>15 DEF Inform, RequestUserInput, UseWeb, UseMcp, McpRejects
<1> QED BY <1>7, <1>9, <1>10, <1>11, <1>12, <1>13, <1>14, <1>15 DEF Work

(* A turn begins when the count is that far from its bound, and ends with nothing    *)
(* left to count.                                                             *)
LEMMA NextBounded == IInv /\ Bounded /\ [Next]_tvars => Bounded'
<1> SUFFICES ASSUME IInv, Bounded, [Next]_tvars PROVE Bounded'
  OBVIOUS
<1>0. MaxStreak' = MaxStreak BY DEF MaxStreak
<1>1. CASE UNCHANGED tvars
  <2>1. Left' = Left BY <1>1 DEF tvars, Left, Uncounted
  <2> QED BY <1>0, <1>1, <2>1 DEF tvars, Bounded, CountsOK, QuestionsOK
<1>2. CASE Turn
  <2>1. /\ UNCHANGED <<phase, seen, streak, rows, asked, pending>>
        /\ streak <= MaxStreak - Cardinality(Slots) /\ \A s \in Slots : at'[s] \in {"body", "idle"}
    BY <1>2 DEF Turn, Begin
  <2>2. Uncounted' \subseteq Slots BY DEF Uncounted
  <2>3. Left' \in Nat /\ Left' <= Cardinality(Slots)
    BY <2>2, SlotsAssumption, FS_Subset, FS_CardinalityType DEF Left
  <2>0. streak \in Nat BY DEF Bounded, CountsOK
  <2>4. streak + Left' <= MaxStreak
    <3>1. streak + Cardinality(Slots) <= MaxStreak BY <2>0, <2>1, Counting
    <3> QED BY <2>0, <2>3, <3>1, Counting, RoomForLess
  <2> QED BY <1>0, <2>1, <2>4 DEF Bounded, CountsOK, QuestionsOK
<1>3. ASSUME NEW s \in Slots, Work(s) PROVE Bounded' BY <1>3, WorkBounded
<1>4. CASE Settle
  <2> DEFINE raised == {s \in Slots : at[s] \in Raised}
             first  == CHOOSE s \in raised : \A t \in raised : s <= t
  <2>1. /\ UNCHANGED <<streak, rows>> /\ at' = [s \in Slots |-> "idle"]
        /\ seen' = [s \in Slots |-> 0] /\ asked' = [s \in Slots |-> 0]
    BY <1>4 DEF Settle
  <2>2. Uncounted' \subseteq Uncounted BY <2>1 DEF Uncounted
  <2>3. Left' \in Nat /\ Left' <= Left BY <2>2, Counting, FS_Subset, FS_CardinalityType DEF Left
  <2>0. streak \in Nat /\ streak + Left <= MaxStreak BY DEF Bounded, CountsOK
  <2>4. /\ streak + Left' <= MaxStreak /\ 0 + Left' <= MaxStreak /\ 0 <= MaxStreak
    BY <2>0, <2>3, Counting, RoomForLess
  <2>5. CountsOK' BY <1>0, <2>1, <2>4 DEF Bounded, CountsOK
  <2>6. raised # {} => first \in raised BY FirstSlot
  <2>7. phase' \in Phases
    <3>1. CASE raised = {} BY <1>4, <3>1 DEF Settle, Phases
    <3>2. CASE raised # {}
      <4>1. at[first] \in {"asked", "user", "error"} BY <2>6, <3>2 DEF Raised
      <4>2. phase' = CASE at[first] = "asked" -> "waiting"
                       [] at[first] = "user"  -> "paused"
                       [] at[first] = "error" -> "failed"
        BY <1>4, <3>2 DEF Settle
      <4> QED BY <4>1, <4>2 DEF Phases
    <3> QED BY <3>1, <3>2
  <2>8. pending' \in {0} \cup {asked[s] : s \in Slots}
    <3>1. pending' = IF raised # {} /\ at[first] = "asked" THEN asked[first] ELSE 0
      BY <1>4 DEF Settle
    <3> HIDE DEF first
    <3> QED BY <2>6, <3>1
  <2>9. QuestionsOK'
    <3>1. Len(rows) \in Nat BY DEF IInv, Shape
    <3> QED BY <2>1, <2>8, <3>1 DEF Bounded, QuestionsOK
  <2> QED BY <2>5, <2>7, <2>9 DEF Bounded
<1>5. CASE Finish \/ Reply \/ \E approve \in BOOLEAN : Answer(approve)
  <2>1. /\ UNCHANGED <<at, seen, streak, rows, asked>> /\ pending' \in {pending, 0}
        /\ phase' \in Phases
    BY <1>5 DEF Finish, Reply, Answer, Phases
  <2>2. Left' = Left BY <2>1 DEF Left, Uncounted
  <2>3. Len(rows) \in Nat BY DEF IInv, Shape
  <2> QED BY <1>0, <2>1, <2>2, <2>3 DEF Bounded, CountsOK, QuestionsOK
<1> QED BY <1>1, <1>2, <1>3, <1>4, <1>5 DEF Next

(* Nothing is counted at first.                                               *)
LEMMA InitBounded == Init => Bounded
<1> SUFFICES ASSUME Init PROVE Bounded
  OBVIOUS
<1>1. Uncounted = {} BY DEF Init, Uncounted
<1>2. Left = 0 BY <1>1, FS_EmptySet DEF Left
<1> QED BY <1>2, Counting, CountsAssumption DEF Init, Bounded, CountsOK, QuestionsOK, Phases

(* So the types of the calls are what they should be.                            *)
LEMMA ToolsTypeOK == IInv /\ Bounded => TypeOK
<1> SUFFICES ASSUME IInv, Bounded PROVE TypeOK
  OBVIOUS
<1>1. at \in [Slots -> Raised \cup {"idle", "body", "reject", "count", "ask", "done"}]
  BY DEF IInv, Shape, Places
<1>2. streak <= MaxStreak /\ streak \in Nat BY Counting DEF Bounded, CountsOK
<1>3. seen \in [Slots -> 0..MaxStreak] /\ streak \in 0..MaxStreak
  BY <1>2, Counting DEF Bounded, CountsOK
<1> QED BY <1>1, <1>3 DEF TypeOK, IInv, SlotOK, Bounded, QuestionsOK, Phases

-----------------------------------------------------------------------------
(* A run that waits, waits for a question that is in the store and open, however *)
(* many calls of the turn have asked, failed or been rejected.                   *)
THEOREM QuestionsAreOpen == Spec => []WaitsForOpenQuestion
<1>1. IInv => WaitsForOpenQuestion BY DEF IInv
<1> QED BY InitIInv, NextIInv, <1>1, PTL DEF Spec

(* No interleaving of calls and answers lets write_file or memory_write past a    *)
(* boundary that the user has not consented to, or into the agent's identity.    *)
THEOREM WritesAreConsented == Spec => []EffectsWereConsented
<1>1. IInv => EffectsWereConsented BY DEF IInv
<1> QED BY InitIInv, NextIInv, <1>1, PTL DEF Spec

(* Nobody is asked for a boundary that the run has been granted.                 *)
THEOREM NobodyIsAskedTwice == Spec => NeverAskedTwice
<1>1. IInv /\ [Next]_tvars =>
        [Len(rows') > Len(rows) => rows'[Len(rows')] \notin grants]_tvars
  <2> SUFFICES ASSUME IInv, Next, Len(rows') > Len(rows)
      PROVE  rows'[Len(rows')] \notin grants
    BY DEF tvars
  <2>1. rows \in Seq(Boundaries) BY DEF IInv, Shape
  <2>2. ASSUME NEW s \in Slots, Work(s) PROVE rows'[Len(rows')] \notin grants
    <3>1. Moving(s) BY <2>2, WorkMoves
    <3>2. PICK place \in Places : Moves(s, place) BY <3>1 DEF Moving
    <3>3. rows' # rows BY <2>1
    <3>4. rows' = Append(rows, Boundary(call[s].op)) /\ Boundary(call[s].op) \notin grants
      BY <3>2, <3>3 DEF Moves
    <3>5. Boundary(call[s].op) \in Boundaries
      BY <3>1 DEF IInv, SlotOK, Moving, Boundaries
    <3>6. rows'[Len(rows')] = Boundary(call[s].op) BY <2>1, <3>4, <3>5, AppendProperties
    <3> QED BY <3>4, <3>6
  <2>3. ASSUME UNCHANGED rows PROVE FALSE BY <2>1, <2>3
  <2>4. ~Turn BY <2>3 DEF Turn, Begin
  <2>5. ~Settle /\ ~Finish /\ ~Reply BY <2>3 DEF Settle, Finish, Reply
  <2>6. ASSUME NEW approve \in BOOLEAN, Answer(approve) PROVE FALSE BY <2>3, <2>6 DEF Answer
  <2> QED BY <2>2, <2>4, <2>5, <2>6 DEF Next
<1> QED BY InitIInv, NextIInv, <1>1, PTL DEF Spec, NeverAskedTwice
=============================================================================
