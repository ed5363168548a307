---------------------------- MODULE MCDictionary ----------------------------
(* Dictionary on a small instance for TLC.                                 *)
EXTENDS Dictionary

CONSTANTS k1, k2, k3, v1, v2, n1, n2, n3

TwoKeys == {k1, k2}
ThreeKeys == {k1, k2, k3}
OneValue == {v1}
TwoValues == {v1, v2}
ThreeNodes == {n1, n2, n3}

Symmetry == Permutations(ThreeKeys) \cup Permutations(ThreeNodes) \cup Permutations(TwoValues)
=============================================================================
