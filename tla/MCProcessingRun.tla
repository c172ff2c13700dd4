--------------------------- MODULE MCProcessingRun ---------------------------
(***************************************************************************)
(* Instances of ProcessingRun for TLC.                                     *)
(***************************************************************************)
EXTENDS ProcessingRun, TLC

CONSTANTS o1, o2

Ask(mode, strict, output, resume) ==
  [mode |-> mode, strict |-> strict, output |-> output, resume |-> resume]

\* Both write requests have the same cache identity when both are lenient.
MCRequest == {Ask("write", FALSE, o1, FALSE), Ask("write", FALSE, o2, TRUE),
              Ask("write", TRUE, o1, FALSE), Ask("dry-run", TRUE, None, FALSE),
              Ask("inspect", TRUE, None, FALSE)}

Says(decision, noticed, warnings, hierarchy) ==
  [decision |-> decision, noticed |-> noticed, warnings |-> warnings, hierarchy |-> hierarchy]

\* One version of the source that may be written, one that warns, one that may not.
MCVerdict == 0 :> Says("allow_write", FALSE, FALSE, FALSE)
          @@ 1 :> Says("allow_write_with_warnings", FALSE, TRUE, FALSE)
          @@ 2 :> Says("allow_write", FALSE, FALSE, TRUE)

\* Attempts run the same program.
Symmetry == Permutations(Proc)
=============================================================================
