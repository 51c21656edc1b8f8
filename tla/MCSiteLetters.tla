---------------------------- MODULE MCSiteLetters ----------------------------
(* SiteLetters on small instances: addresses, builds and sends are           *)
(* interchangeable.                                                          *)
EXTENDS SiteLetters, TLC

Symmetry == Permutations(Addresses) \cup Permutations(Builders) \cup Permutations(Clicks)
=============================================================================
