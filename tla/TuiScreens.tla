-------------------------------- MODULE TuiScreens --------------------------------
(*****************************************************************************)
(* Which screen the TUI shows: the stack of screens of the toolkit, the screen  *)
(* that the store calls active, the flag that the command palette is visible,   *)
(* and the workers whose answers change them when they arrive.                 *)
(*                                                                           *)
(* The toolkit lets switch_screen replace the top of the stack, whatever it is,  *)
(* and its priority bindings let most keys of the application reach it through  *)
(* a dialog; a key that both the dialog and the application handle may go to    *)
(* either.  What the store knows of tasks, approvals and artifacts, and the     *)
(* screen that an inspector was opened from, may be anything: they decide only  *)
(* which of the alternatives here is taken.                                   *)
(*****************************************************************************)
EXTENDS Naturals, Sequences, FiniteSets

CONSTANTS
  MaxDepth,   \* bounds the stack
  MaxAsked    \* bounds the workers that have been sent out at a time

Screens  == {"dashboard", "task_detail", "approvals", "artifacts", "markdown_viewer",
             "memory", "config", "diagnostics"}
Overlays == {"command_palette", "help", "create_task", "runtime_user_prompt",
             "remote_mcp_authorize", "remote_mcp_complete", "timeline_prompt", "confirm"}
Workers  == {"create", "reconnect", "authorize", "complete"}

VARIABLE ui          \* [stack, active, palette, asked]

TypeOK ==
  /\ ui.stack \in Seq(Screens \cup Overlays) /\ Len(ui.stack) <= MaxDepth
  /\ ui.active \in Screens /\ ui.palette \in BOOLEAN /\ ui.asked \subseteq Workers

Init == ui = [stack |-> <<"dashboard">>, active |-> "dashboard", palette |-> FALSE, asked |-> {}]

Top(u) == u.stack[Len(u.stack)]
Popped(u)      == [u EXCEPT !.stack = SubSeq(@, 1, Len(@) - 1)]
Switched(u, s) == [u EXCEPT !.stack[Len(u.stack)] = s, !.active = s]

-----------------------------------------------------------------------------
(* What a handler may do: the set of states it may leave.                      *)
Stay(u)     == {u}
Show(u, s)  == {Switched(u, s)}
Push(u, s)  == IF Len(u.stack) < MaxDepth THEN {[u EXCEPT !.stack = Append(@, s)]} ELSE {}
PushNew(u, s) == IF Top(u) = s THEN {u} ELSE Push(u, s)
PopIf(u, s) == IF Top(u) = s THEN {Popped(u)} ELSE {u}
Start(u, w) ==
  IF w \in u.asked \/ Cardinality(u.asked) < MaxAsked
  THEN {[u EXCEPT !.asked = @ \cup {w}]} ELSE {}
Perhaps(u, S) == {u} \cup S

(* Mutant of ClosePalette: the flag stays.                                    *)
ClosePaletteOnly(u) == IF u.palette THEN Popped(u) ELSE u

(* close_command_palette pops the top, which need not be the palette.           *)
ClosePalette(u) == IF u.palette THEN [Popped(u) EXCEPT !.palette = FALSE] ELSE u

OpenPalette(u) ==
  IF Top(u) \in {"create_task", "timeline_prompt"} \/ u.active = "markdown_viewer" THEN {u}
  ELSE IF u.palette THEN {ClosePalette(u)}
  ELSE Push([u EXCEPT !.palette = TRUE], "command_palette")

OpenHelp(u)        == IF Top(u) = "help" THEN {Popped(u)} ELSE Push(u, "help")
OpenCreateTask(u)  == IF Top(u) = "create_task" THEN {u} ELSE Push(ClosePalette(u), "create_task")
OpenRuntimeUser(u) == PushNew(ClosePalette(u), "runtime_user_prompt")

OpenTimelinePrompt(u) == IF u.active # "task_detail" THEN {u} ELSE Push(u, "timeline_prompt")

(* A decision is confirmed first; r rejects on the approvals screen.            *)
ConfirmApproval(u) == Perhaps(u, Push(u, "confirm"))
OpenApprovals(u)   == IF u.active = "approvals" THEN ConfirmApproval(u) ELSE Show(u, "approvals")
ResumeTask(u)      == IF u.active = "approvals" THEN ConfirmApproval(u) ELSE {u}

(* open_selected_approval_workflow: if something is pending.                    *)
OpenWorkflow(u) == Perhaps(u, Show(u, "approvals"))

OpenSelectedArtifact(u) == Perhaps(u, Show(u, "markdown_viewer"))
OpenArtifacts(u) ==
  IF u.active = "artifacts" THEN OpenSelectedArtifact(u) ELSE Show(u, "artifacts")

(* The inspectors that are switched to unless the store calls them active.      *)
OpenMemory(u)      == IF u.active = "memory" THEN {u} ELSE Show(u, "memory")
OpenDiagnostics(u) ==
  IF u.active = "diagnostics" THEN {u} ELSE Perhaps(u, Show(u, "diagnostics"))

(* The configuration asks for the screen itself.                              *)
OpenConfig(u) == IF Top(u) = "config" THEN {u} ELSE Show(u, "config")

(* Remote authorization: without a task, a user or an action there is nothing to *)
(* start; without a user the prompt comes first.                              *)
Authorize(u)    == Perhaps(u, OpenRuntimeUser(u) \cup Start(u, "authorize"))
CompleteAuth(u) == Perhaps(u, PushNew(u, "remote_mcp_complete"))
RevokeAuth(u)   == Perhaps(u, Push(u, "confirm"))

Handler(command, u) ==
  CASE command = "create"      -> OpenCreateTask(u)
    [] command = "user"        -> OpenRuntimeUser(u)
    [] command = "resume"      -> ResumeTask(u)
    [] command = "authorize"   -> Authorize(u)
    [] command = "complete"    -> CompleteAuth(u)
    [] command = "revoke"      -> RevokeAuth(u)
    [] command = "approvals"   -> OpenApprovals(u)
    [] command = "workflow"    -> OpenWorkflow(u)
    [] command = "artifacts"   -> OpenArtifacts(u)
    [] command = "memory"      -> OpenMemory(u)
    [] command = "config"      -> OpenConfig(u)
    [] command = "diagnostics" -> OpenDiagnostics(u)
    [] command = "reconnect"   -> Start(u, "reconnect")
    [] command = "task"        -> Show(u, "task_detail")
    [] command = "help"        -> OpenHelp(u)
    [] command = "timeline"    -> OpenTimelinePrompt(u)
    [] command = "palette"     -> OpenPalette(u)

PaletteCommands ==
  {"create", "user", "resume", "authorize", "complete", "revoke", "workflow", "artifacts",
   "memory", "config", "diagnostics", "reconnect", "task"}
TypedCommands ==
  {"resume", "authorize", "complete", "revoke", "workflow", "artifacts", "diagnostics",
   "memory", "config", "help"}
(* The keys with priority work on every screen, the others not under a dialog.   *)
PriorityKeys ==
  {"create", "timeline", "approvals", "config", "diagnostics", "memory", "resume", "authorize",
   "complete", "revoke", "artifacts", "help"}
Keys == PriorityKeys \cup {"palette", "reconnect"}

Alive == ui.stack # <<>>
May(S) == Alive /\ ui' \in S

Press(key) ==
  /\ Alive /\ (Top(ui) \in Overlays => key \in PriorityKeys)
  /\ May(Handler(key, ui))

RunPaletteCommand(command) ==
  /\ Alive
  /\ \/ ui.palette /\ Top(ui) \notin {"create_task", "timeline_prompt"}
     \/ Top(ui) = "command_palette"
  /\ May(Perhaps(ui, Handler(command, ClosePalette(ui))))    \* no command may match

TypeCommand(command) ==
  /\ Alive /\ ui.active = "task_detail" /\ Top(ui) = "task_detail"
  /\ May(Handler(command, ui))

(* action_open_task, the key Enter; commands are TypeCommand's and the palette's. *)
OpenTask ==
  /\ Alive /\ Top(ui) # "create_task"
  /\ CASE Top(ui) = "timeline_prompt"        -> May({Popped(ui)})
       [] ui.palette                         -> FALSE
       [] ui.active = "artifacts"            -> May(OpenSelectedArtifact(ui))
       [] ui.active \in {"markdown_viewer", "diagnostics"} -> FALSE
       [] ui.active = "approvals"            -> May(Perhaps(ui, Show(ui, "task_detail")))
       [] ui.active = "dashboard"            -> May(Perhaps(ui, Show(ui, "approvals")
                                                              \cup Show(ui, "task_detail")))
       [] OTHER                              -> May(Perhaps(ui, Show(ui, "task_detail")))

(* action_back_dashboard, the key Escape.                                     *)
Back(u) ==
  CASE u.palette -> {ClosePalette(u)}
    [] Top(u) \in {"help", "timeline_prompt", "create_task"} -> {Popped(u)}
    [] u.active = "markdown_viewer" -> Show(u, "artifacts")
    [] u.active \in {"artifacts", "memory", "config", "diagnostics"} ->
         UNION {Show(u, origin) : origin \in Screens}
    [] OTHER -> Show(u, "dashboard")

Escape == Alive /\ May(Back(ui))

(* With a task that is not over; otherwise the application ends.                *)
Quit ==
  /\ Alive /\ (Top(ui) = "markdown_viewer" \/ Top(ui) \notin Overlays)
  /\ May(IF ui.active = "markdown_viewer" THEN Back(ui) ELSE Push(ui, "confirm"))

(* What the dialogs do themselves: close, submit, go on.                       *)
Dialog(u) ==
  CASE Top(u) = "command_palette" -> {ClosePalette(u)}
    [] Top(u) = "create_task" ->
         {Popped(u)} \cup Start(u, "create") \cup OpenRuntimeUser(u)
    [] Top(u) = "runtime_user_prompt" ->
         {Popped(u)} \cup Start(Popped(u), "create")
    [] Top(u) = "remote_mcp_authorize" -> {Popped(u)} \cup Push(u, "remote_mcp_complete")
    [] Top(u) = "remote_mcp_complete"  -> {Popped(u)} \cup Start(u, "complete")
    [] Top(u) \in {"timeline_prompt", "confirm"} -> {Popped(u)}
    [] OTHER -> {}

UseDialog == Alive /\ May(Dialog(ui))

(* The answers.  A failed request leaves the screens as they are.              *)
Created(u)     == Show(IF Top(u) = "create_task" THEN Popped(u) ELSE u, "task_detail")
Reconnected(u) ==
  UNION {Show(u, s) : s \in {"dashboard", "task_detail", "artifacts", "approvals", "memory",
                             "config", "diagnostics"}}
Authorized(u)  == PushNew(u, "remote_mcp_authorize")
Completed(u)   == PopIf(u, "remote_mcp_complete")

Answer(w) ==
  LET u == [ui EXCEPT !.asked = @ \ {w}] IN
  /\ Alive /\ w \in ui.asked
  /\ May(Perhaps(u, CASE w = "create"    -> Created(u)
                      [] w = "reconnect" -> Reconnected(u)
                      [] w = "authorize" -> Authorized(u)
                      [] w = "complete"  -> Completed(u)))

Next ==
  \/ \E key \in Keys : Press(key)
  \/ \E command \in PaletteCommands : RunPaletteCommand(command)
  \/ \E command \in TypedCommands : TypeCommand(command)
  \/ OpenTask \/ Escape \/ Quit \/ UseDialog
  \/ \E w \in Workers : Answer(w)

Spec == Init /\ [][Next]_ui

-----------------------------------------------------------------------------
(* There is always a screen to show.  pop_screen on the last screen raises, and   *)
(* the application ends; the palette is closed by popping whatever is on top, so  *)
(* while its flag is set there has to be a screen under the top, whatever keys,   *)
(* dialogs and answers have done to the stack in between.                      *)
AScreenIsLeft == Len(ui.stack) >= IF ui.palette THEN 2 ELSE 1

(* The screen that is shown is the one that the keys are taken for.  Does NOT     *)
(* hold: the answer of task.create replaces the palette, and Escape then takes    *)
(* the task's screen off the stack, while the store still calls it active.        *)
ShownIsActive == Top(ui) \in Screens => Top(ui) = ui.active
=============================================================================
