------------------------------ MODULE RunRefinement ------------------------------
(*****************************************************************************)
(* RunLifecycle, with a client that waits for its calls and may interrupt,    *)
(* implements GovernedRun.                                                   *)
(*****************************************************************************)
EXTENDS RunLifecycle

(* A run that says executing and is in nobody's hands: its thread has died.   *)
Deserted == run.status = "executing" /\ \A c \in Calls : pc[c] \notin Working

(* The phase of the abstract run, from the status of the record.              *)
PhaseOf(status) ==
  CASE status = "absent"                                      -> "none"
    [] status \in {"accepted", "executing"}                   -> "working"
    [] status \in {"paused", "awaiting_approval", "cancelled"} -> "stopped"
    [] status \in {"completed", "failed"}                     -> "over"

Phase == IF Deserted THEN "stopped" ELSE PhaseOf(run.status)

AskedOf == {scope[a] : a \in {x \in Approvals : decision[x] # "absent"}}

Governed == INSTANCE GovernedRun
              WITH Keys <- Boundaries \cup {SkillInstall},
                   phase <- Phase,
                   asked <- AskedOf,
                   consent <- grants,
                   effects <- effects

(* Every behaviour of the calls on a run is a behaviour of the governed run.  *)
ImplementsGovernedRun == Governed!Spec
=============================================================================
