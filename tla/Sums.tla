-------------------------------- MODULE Sums --------------------------------
(* The sum of a function over a finite set of its arguments.                 *)
EXTENDS Integers, FiniteSetsExt

Total(f, S) == MapThenSumSet(LAMBDA x : f[x], S)
=============================================================================
