------------------------------- MODULE RunRecovery -------------------------------
(*****************************************************************************)
(* A run whose runtime process may die at any point and start again.          *)
(*                                                                           *)
(* RunLifecycle keeps apart what is in memory and what is in a database.  A   *)
(* crash ends every thread and forgets the memory; on the next start, before  *)
(* the first request is served, bootstrap runs RecoveryService.recover, which *)
(* rebuilds the run's record from its event history and its checkpoint rows.  *)
(*****************************************************************************)
EXTENDS RunLifecycle

CONSTANT MaxCrashes   \* bounds the number of crashes of a behaviour

VARIABLE crashes

rvars == <<vars, crashes>>

RInit == Init /\ crashes = 0

(* recover appends recovery.discovered for a run that it finds resumable.     *)
Rediscovered(j, ck) ==
  IF RecoveredRun(j, ck).resumable THEN AppendEvent(j, Plain("other")) ELSE j

(* Death and restart are one step: no request is served in between, and       *)
(* RecoveryIdempotent says that dying during the recovery changes nothing.    *)
(* A call that had not arrived by then still may; the client of one that had  *)
(* gets no answer.  The cancellation table is empty after a start, and        *)
(* _cancellation_for will make the object Boot.                               *)
Crash ==
  /\ crashes < MaxCrashes
  /\ journal # NoEvents
  /\ crashes' = crashes + 1
  /\ run' = RecoveredRun(journal, ckpts)
  /\ journal' = Rediscovered(journal, ckpts)
  /\ current' = Boot
  /\ flag' = [o \in Calls \cup {Boot} |-> "clear"]
  /\ pc' = [c \in Calls |-> IF pc[c] = "idle" THEN "idle" ELSE "done"]
  /\ job' = [c \in Calls |-> NoJob]
  /\ UNCHANGED <<decision, scope, grants, effects, ckpts>>

RNext == (Next /\ UNCHANGED crashes) \/ Crash

RSpec == RInit /\ [][RNext]_rvars

-----------------------------------------------------------------------------
(* Recovering twice is the same as recovering once: the event that the first  *)
(* recovery appends, and that the second one reads as the last event of the   *)
(* run, does not change what is rebuilt.  A crash may come at any state, so   *)
(* this is asked of every state.                                             *)
RecoveryIdempotent ==
  journal # NoEvents =>
    RecoveredRun(Rediscovered(journal, ckpts), ckpts) = RecoveredRun(journal, ckpts)

(* What RunLifecycle says of a runtime that lives holds in every state that any  *)
(* number of crashes and recoveries leads to: a run that can be resumed has a   *)
(* checkpoint, what was done had been allowed, a waiting run names what it     *)
(* waits for.                                                                *)
SafeAcrossCrashes == ResumableHasCheckpoint /\ EffectsAreApproved /\ AwaitingNamesApproval

(* A run that a client has seen completed is completed after every restart,   *)
(* also when the process dies before task.completed is appended, because the  *)
(* checkpoint run_completed was saved before.  An approval for a skill        *)
(* installation that somebody asked for since hides it from the recovery.     *)
CompletedSurvives ==
  [][run.status = "completed" /\ NoSkillApproval => run'.status = "completed"]_rvars

-----------------------------------------------------------------------------
(*****************************************************************************)
(* What documents say and the code does not do.                              *)
(*****************************************************************************)
(* "The durable run state after a successful interrupt is cancelled".         *)
CancelledSurvives ==
  [][run.status = "cancelled" /\ Quiet /\ crashes' # crashes
       => run'.status = "cancelled"]_rvars

(* Tasks "survive runtime restarts": a run that waits for an approval can     *)
(* still be given it.                                                        *)
AwaitingIsAnswerable ==
  (Quiet /\ run.awaiting) => decision[run.pending] = "pending"
=============================================================================
