------------------------------ MODULE MCRunLife ------------------------------
(* RunLife on small instances; the workers are interchangeable.              *)
EXTENDS RunLife, TLC

Symmetry == Permutations(Workers)
=============================================================================
