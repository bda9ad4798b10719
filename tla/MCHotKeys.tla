----------------------------- MODULE MCHotKeys -----------------------------
(***************************************************************************)
(* An instance of HotKeys for TLC: two keys that collide in one of two     *)
(* rows, so that one of them inflates a counter of the other.              *)
(***************************************************************************)
EXTENDS HotKeys, TLC

CONSTANTS k1, k2

MCRows == {1, 2}
MCColumns == {0, 1}
MCHash == (1 :> (k1 :> 0 @@ k2 :> 0)) @@ (2 :> (k1 :> 0 @@ k2 :> 1))
=============================================================================
