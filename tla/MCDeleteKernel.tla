--------------------------- MODULE MCDeleteKernel ---------------------------
(* Small instances of DeleteKernel.                                        *)
EXTENDS DeleteKernel, TLC

Symmetry == Permutations(Runs) \cup Permutations(Inodes)
=============================================================================
