----------------------------- MODULE MCRunBudget -----------------------------
(* RunBudget on small instances.                                             *)
EXTENDS RunBudget, TLC

CONSTANTS a, b, c

\* A run of the screen with two batches, one over the links of competitors and
\* one of the console.
MCWanted == (a :> 2) @@ (b :> 1) @@ (c :> 1)
=============================================================================
