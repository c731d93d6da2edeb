---------------------------- MODULE MCMoveKernel ----------------------------
(* Small instances of MoveKernel.                                          *)
EXTENDS MoveKernel, TLC

Symmetry == Permutations(Moves) \cup Permutations(Artifacts)
=============================================================================
