----------------------------- MODULE MCRunRefinement -----------------------------
(* An instance of RunRefinement for TLC.                                     *)
EXTENDS RunRefinement, TLC

(* Calls and approvals are interchangeable: no action tells them apart.       *)
Symmetry == Permutations(Calls) \cup Permutations(Approvals)
=============================================================================
