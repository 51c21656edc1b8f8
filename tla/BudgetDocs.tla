----------------------------- MODULE BudgetDocs -----------------------------
(***************************************************************************)
(* What the comments of the code say of the money of a run, and what       *)
(* RunBudget, translated from the code, does not keep: checked by a run    *)
(* that ends in a counterexample.                                          *)
(***************************************************************************)
EXTENDS MCRunBudget

\* api/runs/routes.py, enqueue_run: the ceiling is the number promised to the
\* person, and a run does not spend above it.  Every attempt gets the whole
\* promise again; only lists of competitors are taken off it.
PromiseKept == \A r \in Runs : journal[r] <= promised[r]
=============================================================================
