------------------------ MODULE MCSerinCoreRegistry ------------------------
(* A small instance of SerinCoreRegistry for TLC. *)
EXTENDS SerinCoreRegistry, TLC

CONSTANTS m1, m2, i1, i2, d1

Symmetry == Permutations(Mac) \cup Permutations(Id)
=============================================================================
