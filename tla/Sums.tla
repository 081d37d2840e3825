-------------------------------- MODULE Sums --------------------------------
(* Sums of the values of a function. *)
EXTENDS Integers, FiniteSetsExt

\* The sum of f[x] over the elements x of the finite set S.
SumOf(f, S) == MapThenSumSet(LAMBDA x : f[x], S)
=============================================================================
