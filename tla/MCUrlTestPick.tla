--------------------------- MODULE MCUrlTestPick ---------------------------
(* Two slots of three nodes, keys for each slot and one with a rest that   *)
(* matters when their slot is dead, and two connections at once, so that   *)
(* one may take its turn on a pool the other no longer sees.               *)
EXTENDS UrlTestPick, TLC

CONSTANTS n1, n2, n3, p1, p2

ThreeNodes == {n1, n2, n3}
ThreeHashes == 0..2
TwoPicks == {p1, p2}

Symmetry == Permutations(Nodes) \cup Permutations(Picks)
=============================================================================
