--------------------------- MODULE MCReplication ---------------------------
(***************************************************************************)
(* Instances of Replication for TLC.                                       *)
(***************************************************************************)
EXTENDS Replication, TLC

CONSTANTS a, b, c, d, k1, client1

TwoNodes == {a, b}
ThreeNodes == {a, b, c}
FourNodes == {a, b, c, d}
LastTwo == {b, c}
OneKey == {k1}
OneClient == {client1}

\* From the key clockwise: a first, then b, c, d.
Clockwise == a :> 1 @@ b :> 2 @@ c :> 3 @@ d :> 4
OnePlacement == k1 :> [n \in Nodes |-> Clockwise[n]]

SetOnly == {"set"}
AllOps == {"get", "set", "delete", "expire"}
=============================================================================
