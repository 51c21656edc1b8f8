----------------------------- MODULE MCHandoff ------------------------------
(* Handoff on small instances.                                               *)
EXTENDS Handoff, TLC

Symmetry == Permutations(Tasks)
=============================================================================
