------------------------------ MODULE MCStore -------------------------------
(* The store with two keys, in a shard each, for TLC.                      *)
EXTENDS Store, TLC

CONSTANTS k1, k2, p1, p2

MCKeys == {k1, k2}
MCShardOf == (k1 :> 0) @@ (k2 :> 1)
MCProcs == {p1, p2}
=============================================================================
