---------------------------- MODULE MCLetterLife ----------------------------
(* LetterLife on small instances: which processes run and what the webhook    *)
(* brings is in the configuration of each run.                                *)
EXTENDS LetterLife, TLC

\* Two runs of send, two passes or two webhook calls are interchangeable.
Symmetry == Permutations(Clicks) \cup Permutations(Passes) \cup Permutations(Hooks)
=============================================================================
