-------------------------------- MODULE Sums --------------------------------
(* Sums of the values of a function. *)
EXTENDS Integers, FiniteSetsExt

\* What the values of f on S add up to.
SumOver(f, S) == MapThenSumSet(LAMBDA x : f[x], S)
=============================================================================
