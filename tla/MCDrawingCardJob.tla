------------------------- MODULE MCDrawingCardJob -------------------------
(***************************************************************************)
(* Instances of DrawingCardJob for TLC.                                    *)
(***************************************************************************)
EXTENDS DrawingCardJob, TLC

\* Background threads are interchangeable.
Symmetry == Permutations(Workers)
=============================================================================
