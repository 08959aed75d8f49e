-------------------------------- MODULE Sums --------------------------------
(***************************************************************************)
(* Adding up one number after the other, as a loop over an array does.     *)
(***************************************************************************)
EXTENDS Integers

(* What has been added before step n: the values of f at 0, 1, ..., n - 1. *)
PartialSums(f) ==
  LET sum[n \in Nat] == IF n = 0 THEN 0 ELSE sum[n - 1] + f[n - 1]
  IN  sum

SumUpTo(f, n) == PartialSums(f)[n]
=============================================================================
