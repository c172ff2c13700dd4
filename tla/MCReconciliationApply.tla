----------------------- MODULE MCReconciliationApply -----------------------
(***************************************************************************)
(* Instances of ReconciliationApply for TLC.                               *)
(***************************************************************************)
EXTENDS ReconciliationApply, TLC

\* Jobs are interchangeable, and so are sets of decisions.
Symmetry == Permutations(Job) \cup Permutations(Choice)
=============================================================================
