--------------------------------- MODULE Requests ---------------------------------
(*****************************************************************************)
(* What a client says to the runtime and what the runtime hears: the commands  *)
(* of the CLI and the calls of the TUI, the parameter classes of the protocol   *)
(* in their two directions (to_dict and from_dict), and the handlers, up to     *)
(* what they ask the rest of the runtime to do.                               *)
(*                                                                           *)
(* A value is the class it belongs to: "text", "blank" (empty or white space), *)
(* "null", "true", "false", "positive", "list", "empty" (list or object), or     *)
(* one of the words that a field may be.  Arguments that the user leaves out    *)
(* are "absent", Python's None.  The object approval of task.approve, and task  *)
(* of task.create, are flattened into their fields.                           *)
(*****************************************************************************)
EXTENDS Naturals, TLC

Clients == {"cli", "tui"}

VARIABLES
  oauth,    \* an enabled MCP server has auth.mode = oauth_user_grant
  order,    \* what the user asks for: client, method and the given arguments
  wire,     \* params of the request, a function on the fields it has
  effect,   \* the arguments with which the runtime goes on, or Nothing
  code,     \* of the response
  stage     \* "ready", "asked", "sent" or "answered"

rvars == <<oauth, order, wire, effect, code, stage>>

Nothing == [done |-> "nothing"]
NoOrder == [client |-> "none", method |-> "none", given |-> <<>>]

Init ==
  /\ oauth \in BOOLEAN
  /\ order = NoOrder /\ wire = <<>> /\ effect = Nothing /\ code = "" /\ stage = "ready"

-----------------------------------------------------------------------------
(* The parameter classes: the fields that from_dict demands, the fields it      *)
(* allows, and of which classes.  str(...).strip() makes a text of anything,    *)
(* null included.                                                            *)
Values   == {"text", "blank", "null", "true", "false", "positive", "list", "empty"}
Texts(S)   == [f \in S |-> Values \ {"blank"}]
Strings(S) == [f \in S |-> {"text", "blank", "null"}]
Words(f, S) == f :> S

TaskOnly == [needs |-> Texts({"task_id"}), may |-> Strings({"run_id"})]

TaskGetParams             == TaskOnly
TaskResumeParams          == TaskOnly
TaskCompactParams         == TaskOnly
TaskApprovalsListParams   == TaskOnly
TaskDiagnosticsListParams == TaskOnly

TaskListParams == [needs |-> <<>>, may |-> Words("limit", {"null", "positive", "true"})]

TaskCancelParams == [needs |-> Texts({"task_id"}), may |-> Strings({"run_id", "reason"})]

TaskReplyParams ==
  [needs |-> Texts({"task_id", "message"}),
   may   |-> Strings({"run_id"}) @@ Words("background", {"true", "false"})]

TaskApproveParams ==
  [needs |-> Texts({"approval_id"}) @@ Words("decision", {"approved", "rejected"}),
   may   |-> Strings({"task_id", "run_id"})]

TaskArtifactsListParams ==
  [needs |-> Texts({"task_id"}),
   may   |-> Strings({"run_id", "persistence_class", "content_type_prefix"})]

TaskArtifactGetParams ==
  [needs |-> Texts({"task_id", "artifact_id"}), may |-> Strings({"run_id"})]

TaskLogsStreamParams ==
  [needs |-> Texts({"task_id"}),
   may   |-> Strings({"run_id", "from_event_id"}) @@ Words("include_history", {"true", "false"})]

RemoteMCPAuthorizeStartParams ==
  [needs |-> Texts({"task_id", "run_id", "server_name"}), may |-> <<>>]

RemoteMCPAuthorizeCompleteParams ==
  [needs |-> Texts({"authorization_id", "state_token", "code"}), may |-> <<>>]

RemoteMCPRevokeParams == [needs |-> Texts({"provider_id", "runtime_user_id"}), may |-> <<>>]

Scopes == {"project", "identity", "run_state", "scratch"}

MemoryInspectParams ==
  [needs |-> <<>>,
   may   |-> Strings({"task_id", "run_id", "namespace"})
               @@ Words("scope", {"text", "blank", "null"} \cup Scopes)]

SkillInstallParams ==
  [needs |-> Texts({"task_id", "source_path", "reason"})
               @@ Words("target_scope", {"primary_agent", "subagent"})
               @@ Words("install_mode", {"fail_if_exists", "replace"}),
   may   |-> Strings({"run_id", "target_role"})]

(* A workspace root is a virtual path: "inside" /workspace, or "outside".       *)
Lists == {"scope", "success_criteria", "constraints", "allowed_capabilities"}

TaskCreateRequest ==
  [needs |-> Texts({"objective"}) @@ Words("workspace_roots", {"inside"}),
   may   |-> Words("runtime_user_id", {"text", "null"}) @@ Words("metadata", {"empty"})
               @@ [f \in Lists |-> {"list", "empty"}]]

NoParams == [needs |-> <<>>, may |-> <<>>]

ParamsOf(method) ==
  CASE method = "task.create" -> TaskCreateRequest
    [] method = "task.get" -> TaskGetParams
    [] method = "task.list" -> TaskListParams
    [] method = "task.cancel" -> TaskCancelParams
    [] method = "task.resume" -> TaskResumeParams
    [] method = "task.compact" -> TaskCompactParams
    [] method = "task.reply" -> TaskReplyParams
    [] method = "task.approve" -> TaskApproveParams
    [] method = "task.approvals.list" -> TaskApprovalsListParams
    [] method = "task.diagnostics.list" -> TaskDiagnosticsListParams
    [] method = "task.artifacts.list" -> TaskArtifactsListParams
    [] method = "task.artifact.get" -> TaskArtifactGetParams
    [] method = "task.logs.stream" -> TaskLogsStreamParams
    [] method = "memory.inspect" -> MemoryInspectParams
    [] method = "skill.install" -> SkillInstallParams
    [] method \in {"remote_mcp.authorize.start", "remote_mcp.reauthorize"} ->
         RemoteMCPAuthorizeStartParams
    [] method = "remote_mcp.authorize.complete" -> RemoteMCPAuthorizeCompleteParams
    [] method = "remote_mcp.revoke" -> RemoteMCPRevokeParams
    [] OTHER -> NoParams

Given(p, f) == f \in DOMAIN p /\ p[f] # "null"

(* from_dict raises ValueError, or does not.                                  *)
Parses(method, p) ==
  LET params == ParamsOf(method) IN
  /\ \A f \in DOMAIN params.needs : f \in DOMAIN p /\ p[f] \in params.needs[f]
  /\ \A f \in DOMAIN params.may : f \in DOMAIN p => p[f] \in params.may[f]
  /\ method = "skill.install" /\ p["target_scope"] = "subagent" =>
       Given(p, "target_role") /\ p["target_role"] # "blank"
  /\ method = "memory.inspect" /\ Given(p, "run_id") => Given(p, "task_id")

(* What from_dict gives to a field that is not in the request.                 *)
DefaultOf(f) ==
  CASE f \in {"background", "include_history"} -> "false"
    [] f = "metadata" -> "empty"
    [] f \in Lists \ {"scope"} -> "empty"
    [] OTHER -> "absent"

(* "scope" is a list of task.create and a word of memory.inspect.              *)
Default(method, f) == IF method = "task.create" /\ f = "scope" THEN "empty" ELSE DefaultOf(f)

Fields(method) == DOMAIN ParamsOf(method).needs \cup DOMAIN ParamsOf(method).may

Parsed(method, p) ==
  [f \in Fields(method) |->
     IF ~Given(p, f) \/ (p[f] = "blank" /\ method = "task.cancel" /\ f = "reason")
     THEN Default(method, f) ELSE p[f]]

-----------------------------------------------------------------------------
(* What each client lets its user give: the fields that it demands, the fields  *)
(* that may be left out, and the values of each.                              *)
Wants(must, can) == [must |-> must, can |-> can]
Free(S)    == [f \in S |-> {"text", "blank"}]
Text(S)   == [f \in S |-> {"text"}]
Only(f, S) == f :> S

(* The CLI: positional arguments and required options may be blank; argparse     *)
(* checks the words.                                                         *)
CliCreate ==
  Wants(Free({"objective"}) @@ Only("workspace_roots", {"inside", "outside"}),
        [f \in {"constraints", "success_criteria"} |-> {"list"}])

CliReads(method) ==
  CASE method \in {"runtime.health", "config.get"} -> Wants(<<>>, <<>>)
    [] method = "task.logs.stream" ->
         Wants(Free({"task_id"}) @@ Only("include_history", {"true"}), Text({"run_id"}))
    [] method = "memory.inspect" ->
         Wants(<<>>, Text({"task_id", "run_id", "namespace"}) @@ Only("scope", Scopes))
    [] OTHER -> Wants(Free({"task_id"}), Text({"run_id"}))

CliWrites(method) ==
  CASE method = "task.cancel" -> Wants(Free({"task_id"}), Text({"run_id"}) @@ Free({"reason"}))
    [] method = "task.resume" -> Wants(Free({"task_id"}), Text({"run_id"}))
    [] method = "task.reply"  -> Wants(Free({"task_id", "message"}), Text({"run_id"}))
    [] method = "task.approve" ->
         Wants(Free({"approval_id"}) @@ Only("decision", {"approve", "reject"}),
               Text({"task_id", "run_id"}))
    [] method = "skill.install" ->
         Wants(Free({"task_id", "source_path", "reason"}) @@ Text({"run_id"})
                 @@ Only("target_scope", {"primary_agent", "subagent"})
                 @@ Only("install_mode", {"fail_if_exists", "replace"}),
               Free({"target_role"}))

CliMethods ==
  [reads  |-> {"runtime.health", "config.get", "task.get", "task.logs.stream", "memory.inspect",
               "task.artifacts.list", "task.approvals.list", "task.diagnostics.list"},
   writes |-> {"task.cancel", "task.resume", "task.reply", "task.approve", "skill.install"}]

(* The TUI takes the ids from what the runtime has told it.                    *)
TuiCreate ==
  Wants(Free({"objective"}) @@ Only("workspace_roots", {"inside", "outside"}),
        Text({"runtime_user_id"}))

TuiRun(method) ==
  CASE method = "task.resume" -> Wants(Text({"task_id"}), Text({"run_id"}))
    [] method = "task.reply"  -> Wants(Text({"task_id", "message"}), Text({"run_id"}))
    [] method = "task.cancel" -> Wants(Text({"task_id"}), Text({"run_id", "reason"}))

TuiRemote(method) ==
  CASE method \in {"remote_mcp.authorize.start", "remote_mcp.reauthorize"} ->
         Wants(Text({"task_id", "run_id", "server_name"}), <<>>)
    [] method = "remote_mcp.authorize.complete" ->
         Wants(Text({"authorization_id", "code", "state_token"}), <<>>)
    [] method = "remote_mcp.revoke" -> Wants(Text({"provider_id", "runtime_user_id"}), <<>>)

TuiReads(method) ==
  CASE method \in {"runtime.health", "config.get"} -> Wants(<<>>, <<>>)
    [] method = "task.list" -> Wants(Only("limit", {"positive"}), <<>>)
    [] method = "task.artifact.get" -> Wants(Text({"task_id", "artifact_id"}), Text({"run_id"}))
    [] method = "task.logs.stream" ->
         Wants(Text({"task_id"}) @@ Only("include_history", {"true"}), Text({"run_id"}))
    [] method = "task.approve" ->
         Wants(Text({"approval_id"}) @@ Only("decision", {"approved", "rejected"}),
               Text({"task_id", "run_id"}))
    [] OTHER -> Wants(Text({"task_id"}), Text({"run_id"}))

(* A run is inspected only with its task.                                     *)
TuiMemory == {Wants(<<>>, Text({"task_id"})), Wants(Text({"task_id", "run_id"}), <<>>)}

TuiMethods ==
  [run    |-> {"task.resume", "task.reply", "task.cancel"},
   remote |-> {"remote_mcp.authorize.start", "remote_mcp.reauthorize",
               "remote_mcp.authorize.complete", "remote_mcp.revoke"},
   reads  |-> {"runtime.health", "config.get", "task.list", "task.get", "task.artifact.get",
               "task.logs.stream", "task.approve", "task.approvals.list",
               "task.artifacts.list", "task.diagnostics.list"}]

(* The forms that a client has for a method; {} if it has none.                *)
Forms(client, method) ==
  IF client = "cli"
  THEN CASE method = "task.create"         -> {CliCreate}
         [] method \in CliMethods.reads  -> {CliReads(method)}
         [] method \in CliMethods.writes -> {CliWrites(method)}
         [] OTHER -> {}
  ELSE CASE method = "task.create"         -> {TuiCreate}
         [] method = "memory.inspect"      -> TuiMemory
         [] method \in TuiMethods.run    -> {TuiRun(method)}
         [] method \in TuiMethods.remote -> {TuiRemote(method)}
         [] method \in TuiMethods.reads  -> {TuiReads(method)}
         [] OTHER -> {}

Methods == {"task.create", "memory.inspect"} \cup CliMethods.reads \cup CliMethods.writes
             \cup TuiMethods.run \cup TuiMethods.remote \cup TuiMethods.reads

(* The ways to fill in a form.                                               *)
Filled(form) ==
  LET all == form.must @@ form.can
      choices(f) == all[f] \cup (IF f \in DOMAIN form.must THEN {} ELSE {"absent"})
  IN {g \in [DOMAIN all -> UNION {choices(f) : f \in DOMAIN all}] :
        \A f \in DOMAIN all : g[f] \in choices(f)}

Ask(client, method) ==
  /\ stage = "ready"
  /\ \E form \in Forms(client, method) : \E given \in Filled(form) :
       order' = [client |-> client, method |-> method, given |-> given]
  /\ stage' = "asked"
  /\ UNCHANGED <<oauth, wire, effect, code>>

(* Mutant of Stripped: None is sent as null.                                  *)
StrippedNot(p) == [f \in DOMAIN p |-> IF p[f] = "absent" THEN "null" ELSE p[f]]

(* _strip_none.                                                              *)
Stripped(p) == [f \in {f \in DOMAIN p : p[f] # "absent"} |-> p[f]]

(* The decision of the CLI is put into the word of the protocol.              *)
Normalised(f, v) ==
  CASE f = "decision" /\ v = "approve" -> "approved"
    [] f = "decision" /\ v = "reject"  -> "rejected"
    [] OTHER -> v

(* TaskCreateParams.to_dict keeps None and has all fields; task.reply has        *)
(* background only if it is true, which no client asks for.                    *)
Created(given) ==
  [f \in Fields("task.create") |->
     IF f \in DOMAIN given /\ given[f] # "absent" THEN given[f]
     ELSE IF f = "runtime_user_id" THEN "null" ELSE "empty"]

Build(method, given) ==
  CASE method = "task.create" -> Created(given)
    [] method = "task.reply"  -> Stripped(given @@ [f \in {"background"} |-> "absent"])
    [] OTHER -> Stripped([f \in DOMAIN given |-> Normalised(f, given[f])])

Send ==
  /\ stage = "asked"
  /\ wire' = Build(order.method, order.given)
  /\ stage' = "sent"
  /\ UNCHANGED <<oauth, order, effect, code>>

(* task.create is refused by the handler, after from_dict.                     *)
Refused(method, args) ==
  method = "task.create" /\ oauth /\ args["runtime_user_id"] = "absent"

(* _dispatch_request and _background_response: a ValueError of from_dict or of    *)
(* the handler is -32602; what the runner says then is its own affair.          *)
Handle ==
  LET method == order.method
      args   == Parsed(method, wire)
  IN
  /\ stage = "sent"
  /\ IF ~Parses(method, wire) \/ Refused(method, args)
     THEN code' = "-32602" /\ UNCHANGED effect
     ELSE /\ code' \in {"result", "-32602", "-32004", "-32000"}
          /\ effect' = [done |-> method, args |-> args]
  /\ stage' = "answered"
  /\ UNCHANGED <<oauth, order, wire>>

(* The next command.                                                         *)
Rest ==
  /\ stage = "answered"
  /\ order' = NoOrder /\ wire' = <<>> /\ effect' = Nothing /\ code' = "" /\ stage' = "ready"
  /\ UNCHANGED oauth

Next ==
  \/ \E client \in Clients, method \in Methods : Ask(client, method)
  \/ Send \/ Handle \/ Rest

Spec == Init /\ [][Next]_rvars

-----------------------------------------------------------------------------
(* What the user gives makes sense: nothing that is demanded is blank, the roots *)
(* are inside the sandbox, a subagent's skill names the subagent, a run is named *)
(* with its task; and with OAuth there is a user to hold the grants.           *)
Sensible(o) ==
  LET g(f) == IF f \in DOMAIN o.given THEN o.given[f] ELSE "absent" IN
  /\ \E form \in Forms(o.client, o.method) :
       \A f \in DOMAIN form.must : g(f) \notin {"absent", "blank", "outside"}
  /\ o.method = "skill.install" /\ g("target_scope") = "subagent" => g("target_role") = "text"
  /\ o.method = "memory.inspect" /\ g("run_id") # "absent" => g("task_id") # "absent"
  /\ o.method = "task.create" /\ oauth => g("runtime_user_id") = "text"

(* Every request that makes sense reaches its handler with exactly what the      *)
(* user gave: no argument is lost, turned into something else, refused because  *)
(* of the way it was sent, or invented, except that the decision is put into    *)
(* other words and a blank reason is none.  A request that makes no sense       *)
(* reaches nothing and is answered with -32602.                               *)
ClientsAreUnderstood ==
  stage = "answered" =>
    IF ~Sensible(order) THEN effect = Nothing /\ code = "-32602"
    ELSE /\ effect.done = order.method
         /\ \A f \in Fields(order.method) :
              LET v == IF f \in DOMAIN order.given THEN order.given[f] ELSE "absent" IN
              effect.args[f] =
                IF v = "absent" \/ (v = "blank" /\ f = "reason") THEN Default(order.method, f)
                ELSE Normalised(f, v)
=============================================================================
