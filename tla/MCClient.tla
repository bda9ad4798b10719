------------------------------ MODULE MCClient ------------------------------
(***************************************************************************)
(* Instances of Client for TLC.                                            *)
(***************************************************************************)
EXTENDS Client, TLC

MCSymmetry == Permutations(Procs) \cup Permutations(Keys)
=============================================================================
