------------------------------ MODULE PolicyEngine ------------------------------
(*****************************************************************************)
(* What the agent may do without asking, what it must ask for, and what it    *)
(* may never do: RuntimePolicyEngine.evaluate and describe_boundary.          *)
(*                                                                           *)
(* An operation is a record whose type names the kind of operation; a path is *)
(* the sequence of its components, as the sandbox has normalised it: absolute *)
(* and without "..".  A boundary key is a string in the code, built from the  *)
(* components that the tuple here lists.                                      *)
(*****************************************************************************)
EXTENDS Naturals, Sequences

CONSTANTS
  SafeClasses,   \* safe_command_classes of the policy configuration
  DenyClasses,   \* deny_command_classes
  WebMode        \* web_access_mode: "allow", "require_approval" or "deny"

NoBoundary == <<>>

Under(path, root) ==
  Len(path) >= Len(root) /\ SubSeq(path, 1, Len(root)) = root

InArtifacts(path) == Under(path, <<"workspace", "artifacts">>) /\ Len(path) > 2
InScratch(path)   == Under(path, <<"tmp">>)
InMemory(path)    == Under(path, <<".memory">>)
InIdentity(path)  == Under(path, <<".memory", "identity">>) /\ Len(path) > 2

(* A grant for one file covers the first two levels above it.                 *)
WorkspaceSubtree(path) == SubSeq(path, 1, IF Len(path) < 2 THEN Len(path) ELSE 2)

(* rm whose targets are all under /tmp.  The targets of any other destructive *)
(* command are not looked at: {}.                                            *)
ScratchOnly(op) ==
  /\ op.class = "destructive"
  /\ op.targets # {}
  /\ \A path \in op.targets : InScratch(path)

AuthTypes == {"remote_mcp.auth.start", "remote_mcp.auth.complete", "remote_mcp.auth.refresh"}
WebTypes  == {"web.fetch", "web.search"}

(* describe_boundary                                                         *)
Boundary(op) ==
  CASE op.type = "file.write" ->
         IF InArtifacts(op.path) \/ InScratch(op.path) THEN NoBoundary
         ELSE <<op.type, WorkspaceSubtree(op.path)>>
    [] op.type = "command.execute" -> <<op.type, op.class, op.cwd>>
    [] op.type = "memory.write" ->
         IF op.scope = "project" THEN <<op.type, op.namespace>> ELSE NoBoundary
    [] op.type = "skill.install" -> <<op.type, op.scope, op.role, op.skill, op.mode>>
    [] op.type = "mcp.server.connect" ->
         IF op.transport = "stdio" THEN <<op.type, "stdio", op.server>>
         ELSE <<op.type, op.transport, op.host>>
    [] op.type \in AuthTypes -> <<op.type, op.provider, op.server>>
    [] op.type \in WebTypes  -> <<op.type, op.host>>
    [] OTHER -> NoBoundary

(* _requires_approval                                                        *)
RequiresApproval(op) ==
  CASE op.type = "file.write" ->
         ~(InArtifacts(op.path) \/ InScratch(op.path) \/ InMemory(op.path))
    [] op.type = "command.execute" -> ~ScratchOnly(op) /\ op.class \notin SafeClasses
    [] op.type = "memory.write"  -> op.scope = "project"
    [] op.type = "skill.install" -> op.scripts \/ op.overwrite \/ op.mode = "replace"
    [] op.type = "mcp.server.connect" ->
         op.source # "runtime_toml"
           /\ (op.transport = "stdio" \/ WebMode = "require_approval")
    [] op.type \in (AuthTypes \ {"remote_mcp.auth.start"}) \cup WebTypes ->
         WebMode = "require_approval"
    [] OTHER -> FALSE

(* _is_denied                                                                *)
Denied(op) ==
  CASE op.type = "file.write"      -> InIdentity(op.path)
    [] op.type = "command.execute" -> ~ScratchOnly(op) /\ op.class \in DenyClasses
    [] op.type = "memory.write" ->
         op.scope = "identity" \/ (op.scope = "project" /\ op.identity)
    [] op.type = "skill.install" -> op.escapes
    [] op.type = "mcp.server.connect" ->
         op.source # "runtime_toml" /\ op.transport # "stdio" /\ WebMode = "deny"
    [] op.type \in (AuthTypes \ {"remote_mcp.auth.start"}) \cup WebTypes -> WebMode = "deny"
    [] OTHER -> FALSE

(* Mutants of Evaluate: nothing is denied; and grants are not looked up.       *)
EvaluateDeniesNothing(op, grants) ==
  IF Boundary(op) # NoBoundary /\ Boundary(op) \in grants THEN "ALLOW"
  ELSE IF ~RequiresApproval(op) THEN "ALLOW"
  ELSE IF Boundary(op) = NoBoundary THEN "DENY"
  ELSE "REQUIRE_APPROVAL"

EvaluateIgnoresGrants(op, grants) ==
  IF Denied(op) THEN "DENY"
  ELSE IF ~RequiresApproval(op) THEN "ALLOW"
  ELSE IF Boundary(op) = NoBoundary THEN "DENY"
  ELSE "REQUIRE_APPROVAL"

(* evaluate: grants is the set of boundary keys granted for the run.          *)
Evaluate(op, grants) ==
  IF Denied(op) THEN "DENY"
  ELSE IF Boundary(op) # NoBoundary /\ Boundary(op) \in grants THEN "ALLOW"
  ELSE IF ~RequiresApproval(op) THEN "ALLOW"
  ELSE IF Boundary(op) = NoBoundary THEN "DENY"
  ELSE "REQUIRE_APPROVAL"
=============================================================================
