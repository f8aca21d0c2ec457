-------------------------- MODULE MCStartedService --------------------------
(* StartedService on small instances: two callers are enough for one to    *)
(* interrupt the other, two instance identities for a leaked core to meet  *)
(* its successor.                                                          *)
EXTENDS StartedService, TLC

CONSTANTS c1, c2, i1, i2

TwoCallers == {c1, c2}
TwoInstances == {i1, i2}

Symmetry == Permutations(TwoCallers) \cup Permutations(TwoInstances)
=============================================================================
