------------------------------- MODULE MCRing -------------------------------
(* A small ring for TLC: the virtual nodes of the nodes interleave.        *)
EXTENDS Ring, TLC

CONSTANTS n1, n2, n3, n4, u1, u2, u3

FourNodes == {n1, n2, n3, n4}

\* Two virtual nodes each; position 0 is taken, so keys wrap around beyond 16.
FourHashes ==
  [n \in FourNodes |-> [i \in {0, 1} |->
     CASE n = n1 -> <<0, 6>>[i + 1]
       [] n = n2 -> <<12, 2>>[i + 1]
       [] n = n3 -> <<4, 14>>[i + 1]
       [] n = n4 -> <<8, 16>>[i + 1]]]

\* On a virtual node, between two, and beyond the last.
KeyPositions == {0, 5, 13, 19}

ThreeCallers == {u1, u2, u3}
CallerSymmetry == Permutations(ThreeCallers)
=============================================================================
