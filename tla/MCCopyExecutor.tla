--------------------------- MODULE MCCopyExecutor ---------------------------
(* CopyExecutor on small instances. *)
EXTENDS CopyExecutor, TLC

CONSTANTS i1, i2

OneInstance == {i1}
TwoInstances == {i1, i2}
Symmetry == Permutations(Instance)
=============================================================================
