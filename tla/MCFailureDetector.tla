------------------------- MODULE MCFailureDetector -------------------------
(***************************************************************************)
(* Instances of FailureDetector for TLC.                                   *)
(***************************************************************************)
EXTENDS FailureDetector, TLC

MCSymmetry == Permutations(Timers)
=============================================================================
