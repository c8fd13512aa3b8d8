--------------------------- MODULE MCProductStore ---------------------------
(***************************************************************************)
(* Instances of ProductStore for TLC.                                      *)
(***************************************************************************)
EXTENDS ProductStore, TLC

CONSTANTS n1, n2, n3, c1, c2

Symmetry == Permutations(Node) \cup Permutations(Candidate)
==============================================================================
