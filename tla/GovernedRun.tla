------------------------------- MODULE GovernedRun -------------------------------
(*****************************************************************************)
(* What the runtime promises about one run to a client that waits for its     *)
(* calls: the agent works only while the run is working; it crosses only      *)
(* boundaries that the user consented to; the user consents only while the    *)
(* agent is still, and only to boundaries that were put to the user; and a    *)
(* run that is over stays over.                                              *)
(*****************************************************************************)
CONSTANT Keys   \* boundary keys

VARIABLES
  phase,     \* "none", "working", "stopped" or "over"
  asked,     \* the boundaries the user was asked about
  consent,   \* the boundaries the user consented to
  effects    \* the boundaries the agent crossed

gvars == <<phase, asked, consent, effects>>

Init ==
  /\ phase = "none"
  /\ asked = {} /\ consent = {} /\ effects = {}

(* The run starts, or continues after a stop.                                *)
Go ==
  /\ phase \in {"none", "stopped"}
  /\ phase' = "working"
  /\ UNCHANGED <<asked, consent, effects>>

(* The agent pauses, waits for the user, or is interrupted.                  *)
Stop ==
  /\ phase = "working"
  /\ phase' = "stopped"
  /\ UNCHANGED <<asked, consent, effects>>

(* The run succeeds or fails; a stopped run fails when the user says no.      *)
Finish ==
  /\ phase \in {"working", "stopped"}
  /\ phase' = "over"
  /\ UNCHANGED <<asked, consent, effects>>

Ask ==
  /\ phase # "none"
  /\ \E b \in Keys : asked' = asked \cup {b}
  /\ UNCHANGED <<phase, consent, effects>>

Consent ==
  /\ phase \in {"stopped", "over"}
  /\ \E b \in asked : consent' = consent \cup {b}
  /\ UNCHANGED <<phase, asked, effects>>

Cross ==
  /\ phase = "working"
  /\ \E b \in consent : effects' = effects \cup {b}
  /\ UNCHANGED <<phase, asked, consent>>

Next == Go \/ Stop \/ Finish \/ Ask \/ Consent \/ Cross

Spec == Init /\ [][Next]_gvars
=============================================================================
