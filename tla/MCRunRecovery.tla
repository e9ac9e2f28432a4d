------------------------------ MODULE MCRunRecovery ------------------------------
(* Instances of RunRecovery for TLC.                                         *)
EXTENDS RunRecovery, TLC

(* Calls and approvals are interchangeable: no action tells them apart.       *)
Symmetry == Permutations(Calls) \cup Permutations(Approvals)
=============================================================================
