---------------------------- MODULE MCMembership ----------------------------
(* Clusters of two and three nodes, for TLC.                               *)
EXTENDS Membership, TLC

CONSTANTS a, b, c

Two == {a, b}
Three == {a, b, c}

\* Node a is the seed of the others.
TwoSeeds == (a :> {}) @@ (b :> {a})

\* Two nodes that are each other's seed.
EachOther == (a :> {b}) @@ (b :> {a})

\* No node is distinguished when all are members from the start.
ThreeSymmetry == Permutations(Three)
NoSeeds == [n \in Three |-> {}]
=============================================================================
