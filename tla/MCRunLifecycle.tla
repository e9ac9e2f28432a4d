----------------------------- MODULE MCRunLifecycle -----------------------------
(* Instances of RunLifecycle for TLC.                                        *)
EXTENDS RunLifecycle, TLC

(* Calls and approvals are interchangeable: no action tells them apart.       *)
Symmetry == Permutations(Calls) \cup Permutations(Approvals)
=============================================================================
