----------------------------- MODULE MCLocalState -----------------------------
(* Two processes for each layer, and one that works on all three.           *)
EXTENDS LocalState, TLC

Processes == Permutations(Writers) \cup Permutations(Samplers) \cup Permutations(Openers)
=============================================================================
