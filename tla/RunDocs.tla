------------------------------ MODULE RunDocs ------------------------------
(***************************************************************************)
(* What the comments of the code say of runs, and what RunLife, translated *)
(* from the code, does not keep.                                           *)
(***************************************************************************)
EXTENDS RunLife

\* repository.py, claimed_units: a run that hangs does not hold its claim for
\* long, the guard closes it.  The guard knows a run by its job, and a console
\* run has none: once its console is gone it stays open for ever.
HungRunIsClosed ==
    \A r \in Runs : Open(r) /\ (\A p \in Procs : ~Carrying(p, r)) ~> ~Open(r)
=============================================================================
