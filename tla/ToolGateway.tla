------------------------------- MODULE ToolGateway -------------------------------
(*****************************************************************************)
(* The tools of one run: SandboxToolBindings over the sandbox, the policy     *)
(* engine and the run's record.                                              *)
(*                                                                           *)
(* A model turn makes several tool calls, which the agent library runs in     *)
(* threads of their own; a slot is one of them.  A call is validated, put to  *)
(* the policy engine, announced (tool.called) and performed, in an order that *)
(* depends on the tool.  A rejection is an answer to the model, and counts:   *)
(* the fourth in a row ends the run, and tool.called starts the count again.  *)
(* The count is read in one transaction and written in another.               *)
(*                                                                           *)
(* The client answers a question only while the run waits for it; RunLifecycle *)
(* has the answers that come earlier.  What a program does to the files is    *)
(* not modelled, except for rm.                                              *)
(*****************************************************************************)
EXTENDS PolicyEngine, FiniteSets

CONSTANTS
  Slots,          \* 1..n: simultaneous tool calls of a turn, in the order of the turn
  Menu,           \* [Slots -> the calls the model makes there: records tool, op, args]
  Capabilities,   \* the tools that allowed_capabilities names; {} allows all
  Threshold,      \* _RECOVERABLE_TOOL_REJECTION_THRESHOLD
  MaxApprovals    \* bounds the questions that are ever asked

(* A turn has a first call, and write_file asks for a file.write.               *)
ASSUME SlotsAssumption  == IsFiniteSet(Slots) /\ Slots = 1..Cardinality(Slots)
ASSUME MenuAssumption   ==
  \A s \in Slots : \A c \in Menu[s] : c.tool = "write_file" => c.op.type = "file.write"
ASSUME CountsAssumption == {Threshold, MaxApprovals} \subseteq Nat

(* Bounds streak: a turn in which one call asks and another one is the        *)
(* fourth rejection leaves the run waiting, with a count that goes on.        *)
MaxStreak == Threshold + 2 * Cardinality(Slots)

Mounts == {"workspace", "tmp", ".memory"}

FileTools == {"read_file", "write_file", "list_files", "execute_command"}

(* The tools that turn a RecoverableToolRejection into an answer; from any    *)
(* other it escapes, and ends the run.                                       *)
Catching == FileTools \cup {"memory_write"}

(* What is left to do of a call, in the order of the tool's body.  A tool of an *)
(* MCP server is announced and called, without the policy engine.             *)
Body(tool) ==
  CASE tool \in FileTools -> <<"govern", "announce", "perform">>
    [] tool = "mcp" -> <<"announce", "perform">>
    [] tool \in {"memory_write", "web_fetch", "web_search"} ->
         <<"govern", "perform", "announce">>
    [] tool = "request_user_input" -> <<"announce", "perform">>
    [] OTHER -> <<"perform", "announce">>

VARIABLES
  phase,     \* of the run: "working", "waiting", "paused", "failed" or "completed"
  call,      \* [Slots -> the call that a slot makes]
  todo,      \* [Slots -> what is left of its body]
  at,        \* [Slots -> "idle", "body", "reject", "count", "ask", "done", or what it raised]
  seen,      \* [Slots -> recoverable_rejection_count as the slot has read it]
  streak,    \* recoverable_rejection_count in the run's record
  rows,      \* boundary keys of the approval rows, by approval id
  asked,     \* [Slots -> the approval id of the slot's question]
  pending,   \* pending_approval_id, 0 for None
  grants,    \* boundary_grants rows of the run
  files,     \* the paths that hold a file
  memory     \* the operations whose memory record has been written

tvars == <<phase, call, todo, at, seen, streak, rows, asked, pending, grants, files, memory>>

Raised == {"asked", "user", "error"}

TypeOK ==
  /\ phase \in {"working", "waiting", "paused", "failed", "completed"}
  /\ \A s \in Slots : at[s] # "idle" => call[s] \in Menu[s]
  /\ at \in [Slots -> Raised \cup {"idle", "body", "reject", "count", "ask", "done"}]
  /\ seen \in [Slots -> 0..MaxStreak] /\ streak \in 0..MaxStreak
  /\ Len(rows) <= MaxApprovals /\ pending \in 0..Len(rows)
  /\ asked \in [Slots -> 0..Len(rows)]

NoCall == [tool |-> "none"]

Init ==
  /\ phase = "working"
  /\ call = [s \in Slots |-> NoCall] /\ todo = [s \in Slots |-> <<>>]
  /\ at = [s \in Slots |-> "idle"]
  /\ seen = [s \in Slots |-> 0] /\ streak = 0
  /\ rows = <<>> /\ asked = [s \in Slots |-> 0] /\ pending = 0
  /\ grants = {} /\ files = {} /\ memory = {}

-----------------------------------------------------------------------------
(* sandbox.normalize_path: the path is under one of the mounts and does not   *)
(* climb.                                                                    *)
Normalizable(path) ==
  /\ path # <<>> /\ path[1] \in Mounts
  /\ \A i \in DOMAIN path : path[i] # ".."

PathOf(op) == IF op.type = "command.execute" THEN op.cwd ELSE op.path

(* The primary agent's file tools have the filesystem scope "workspace".      *)
OutOfScope(c) ==
  c.tool \in FileTools /\ (~Normalizable(PathOf(c.op)) \/ InMemory(PathOf(c.op)))

ArgumentsRejected(c) ==
  \/ c.tool = "execute_command" /\ c.args = "unparsable"
  \/ c.tool = "memory_write" /\ (c.args = "invalid" \/ c.op.scope \notin {"run_state", "project"})
  \/ c.tool = "mcp" /\ c.args = "invalid"

NotAllowed(c) == Capabilities # {} /\ c.tool \notin Capabilities \cup {"mcp"}

Running(s) == phase = "working" /\ at[s] = "body"
Doing(s, stage) == Running(s) /\ Head(todo[s]) = stage
Advance(s) ==
  /\ todo' = [todo EXCEPT ![s] = Tail(@)]
  /\ at' = [at EXCEPT ![s] = IF Len(todo[s]) = 1 THEN "done" ELSE "body"]
Goes(s, where) == at' = [at EXCEPT ![s] = where] /\ UNCHANGED todo

Same == UNCHANGED <<phase, call, seen, rows, asked, pending, grants>>

(* The calls of a turn that fills the first n slots.                          *)
Choices(n) == {calls \in [1..n -> UNION {Menu[s] : s \in 1..n}] :
                 \A s \in 1..n : calls[s] \in Menu[s]}

Begin(n, calls) ==
  /\ call' = [s \in Slots |-> IF s <= n THEN calls[s] ELSE NoCall]
  /\ todo' = [s \in Slots |->
       IF s <= n THEN <<"validate">> \o Body(calls[s].tool) ELSE <<>>]
  /\ at' = [s \in Slots |-> IF s <= n THEN "body" ELSE "idle"]
  /\ UNCHANGED <<phase, seen, streak, rows, asked, pending, grants, files, memory>>

(* A turn of the model: calls in the first slots.                             *)
Turn ==
  /\ phase = "working" /\ \A s \in Slots : at[s] = "idle"
  /\ streak <= MaxStreak - Cardinality(Slots)
  /\ \E n \in Slots : \E calls \in Choices(n) : Begin(n, calls)

Validate(s) ==
  LET c == call[s] IN
  /\ Doing(s, "validate")
  /\ IF OutOfScope(c) \/ (c.tool = "execute_command" /\ ArgumentsRejected(c)) THEN Goes(s, "reject")
     ELSE IF NotAllowed(c) THEN Goes(s, "error")
     ELSE IF ArgumentsRejected(c) THEN Goes(s, "reject")
     ELSE Advance(s)
  /\ Same /\ UNCHANGED <<streak, files, memory>>

(* InterruptBridge.authorize and TaskRunner._govern_operation.                *)
Govern(s) ==
  LET c == call[s]
      decision == Evaluate(c.op, grants)
  IN
  /\ Doing(s, "govern")
  /\ CASE decision = "ALLOW" -> Advance(s)
       [] decision = "DENY"  -> Goes(s, IF c.tool \in Catching THEN "reject" ELSE "error")
       [] decision = "REQUIRE_APPROVAL" -> Goes(s, "ask")
  /\ Same /\ UNCHANGED <<streak, files, memory>>

(* _create_approval_request; what the record says in the meantime is in        *)
(* RunLifecycle.  The checkpoint and the exception follow.                    *)
Ask(s) ==
  /\ phase = "working" /\ at[s] = "ask" /\ Len(rows) < MaxApprovals
  /\ rows' = Append(rows, Boundary(call[s].op))
  /\ asked' = [asked EXCEPT ![s] = Len(rows) + 1]
  /\ pending' = Len(rows) + 1
  /\ Goes(s, "asked")
  /\ UNCHANGED <<phase, call, seen, streak, grants, files, memory>>

(* tool.called: _reset_recoverable_tool_rejection_streak.                     *)
Announce(s) ==
  /\ Doing(s, "announce")
  /\ streak' = 0
  /\ Advance(s)
  /\ Same /\ UNCHANGED <<files, memory>>

-----------------------------------------------------------------------------
Performs(s, tool) == Doing(s, "perform") /\ call[s].tool = tool /\ Same /\ UNCHANGED streak

ReadFile(s) ==
  /\ Performs(s, "read_file")
  /\ IF call[s].op.path \in files THEN Advance(s) ELSE Goes(s, "reject")
  /\ UNCHANGED <<files, memory>>

WriteFile(s) ==
  /\ Performs(s, "write_file")
  /\ files' = files \cup {call[s].op.path}
  /\ Advance(s) /\ UNCHANGED memory

(* A directory that is not there has no files.                               *)
ListFiles(s) == Performs(s, "list_files") /\ Advance(s) /\ UNCHANGED <<files, memory>>

(* The arguments are translated to host paths first: a path that only looks   *)
(* like a sandbox path is a ValueError, and so is an empty command.           *)
ExecuteCommand(s) ==
  LET c == call[s] IN
  /\ Performs(s, "execute_command")
  /\ IF c.args \in {"hostpath", "missing"} THEN Goes(s, "reject") /\ UNCHANGED files
     ELSE IF c.args \in {"badpath", "empty"} THEN Goes(s, "error") /\ UNCHANGED files
     ELSE Advance(s) /\ files' = files \ c.op.targets
  /\ UNCHANGED memory

MemoryWrite(s) ==
  /\ Performs(s, "memory_write")
  /\ memory' = memory \cup {call[s].op}
  /\ Advance(s) /\ UNCHANGED files

(* These only read, or only publish.                                         *)
Harmless == {"memory_lookup", "plan_update", "artifact_inspect"}
Inform(s) ==
  /\ \E tool \in Harmless : Performs(s, tool)
  /\ Advance(s) /\ UNCHANGED <<files, memory>>

RequestUserInput(s) ==
  Performs(s, "request_user_input") /\ Goes(s, "user") /\ UNCHANGED <<files, memory>>

(* The web answers, or raises something that is no rejection.                 *)
UseWeb(s) ==
  /\ \E tool \in {"web_fetch", "web_search"} : Performs(s, tool)
  /\ Advance(s) \/ Goes(s, "error")
  /\ UNCHANGED <<files, memory>>

(* Whatever an MCP tool raises is a rejection, and counts as one.              *)
McpRejects(s) == Goes(s, "reject")
UseMcp(s) ==
  /\ Performs(s, "mcp")
  /\ Advance(s) \/ McpRejects(s)
  /\ UNCHANGED <<files, memory>>

-----------------------------------------------------------------------------
(* _handle_recoverable_rejection and _record_recoverable_tool_rejection: the  *)
(* count is read, and one more is written.                                   *)
ReadStreak(s) ==
  /\ phase = "working" /\ at[s] = "reject"
  /\ seen' = [seen EXCEPT ![s] = streak]
  /\ Goes(s, "count")
  /\ UNCHANGED <<phase, call, streak, rows, asked, pending, grants, files, memory>>

WriteStreak(s) ==
  /\ phase = "working" /\ at[s] = "count"
  /\ streak' = seen[s] + 1
  /\ Goes(s, IF seen[s] + 1 > Threshold THEN "error" ELSE "done")
  /\ Same /\ UNCHANGED <<files, memory>>

(* The library waits for every call of the turn, and raises what the first    *)
(* one in the order of the turn has raised.                                  *)
Settle ==
  LET raised == {s \in Slots : at[s] \in Raised}
      first == CHOOSE s \in raised : \A t \in raised : s <= t
  IN
  /\ phase = "working"
  /\ \E s \in Slots : at[s] # "idle"
  /\ \A s \in Slots : at[s] \in Raised \cup {"done", "idle"}
  /\ phase' = IF raised = {} THEN "working"
              ELSE CASE at[first] = "asked" -> "waiting"
                     [] at[first] = "user"  -> "paused"
                     [] at[first] = "error" -> "failed"
  /\ pending' = IF raised # {} /\ at[first] = "asked" THEN asked[first] ELSE 0
  /\ call' = [s \in Slots |-> NoCall] /\ todo' = [s \in Slots |-> <<>>]
  /\ at' = [s \in Slots |-> "idle"]
  /\ seen' = [s \in Slots |-> 0] /\ asked' = [s \in Slots |-> 0]
  /\ UNCHANGED <<streak, rows, grants, files, memory>>

Finish ==
  /\ phase = "working" /\ \A s \in Slots : at[s] = "idle"
  /\ phase' = "completed"
  /\ UNCHANGED <<call, todo, at, seen, streak, rows, asked, pending, grants, files, memory>>

(* Mutant of Answer: the grant is written, and the run goes on waiting.        *)
AnswerUnnoticed(approve) ==
  /\ phase = "waiting"
  /\ grants' = IF approve THEN grants \cup {rows[pending]} ELSE grants
  /\ phase' = IF approve THEN "waiting" ELSE "failed"
  /\ UNCHANGED <<call, todo, at, seen, streak, rows, asked, pending, files, memory>>

(* task.approve: the grant is written, and the run resumes; or it fails.      *)
Answer(approve) ==
  /\ phase = "waiting"
  /\ grants' = IF approve THEN grants \cup {rows[pending]} ELSE grants
  /\ phase' = IF approve THEN "working" ELSE "failed"
  /\ pending' = 0
  /\ UNCHANGED <<call, todo, at, seen, streak, rows, asked, files, memory>>

Reply ==
  /\ phase = "paused" /\ phase' = "working"
  /\ UNCHANGED <<call, todo, at, seen, streak, rows, asked, pending, grants, files, memory>>

Work(s) ==
  \/ Validate(s) \/ Govern(s) \/ Ask(s) \/ Announce(s)
  \/ ReadFile(s) \/ WriteFile(s) \/ ListFiles(s) \/ ExecuteCommand(s) \/ MemoryWrite(s)
  \/ Inform(s) \/ RequestUserInput(s) \/ UseWeb(s) \/ UseMcp(s)
  \/ ReadStreak(s) \/ WriteStreak(s)

Next ==
  \/ Turn
  \/ \E s \in Slots : Work(s)
  \/ Settle \/ Finish \/ Reply
  \/ \E approve \in BOOLEAN : Answer(approve)

Spec == Init /\ [][Next]_tvars

-----------------------------------------------------------------------------
(* A question is never put to the user when the run has the grant already,    *)
(* however the calls of a turn interleave and whatever was asked before.      *)
NeverAskedTwice ==
  [][Len(rows') > Len(rows) => rows'[Len(rows')] \notin grants]_tvars

(* A run that waits, waits for a question that is in the store and that no     *)
(* earlier answer has settled.                                               *)
WaitsForOpenQuestion ==
  phase = "waiting" => pending \in DOMAIN rows /\ rows[pending] \notin grants

(* Every file that write_file leaves behind, and every record of project       *)
(* memory, is inside a boundary that the user consented to or that needs no    *)
(* consent, and nothing is inside the agent's identity.                       *)
EffectsWereConsented ==
  /\ \A path \in files :
       LET op == [type |-> "file.write", path |-> path]
       IN ~InIdentity(path) /\ (RequiresApproval(op) => Boundary(op) \in grants)
  /\ \A op \in memory :
       ~Denied(op) /\ (RequiresApproval(op) => Boundary(op) \in grants)
=============================================================================
