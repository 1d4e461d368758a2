-------------------------------- MODULE Sums --------------------------------
(***************************************************************************)
(* The total of the amounts f[0], ..., f[n-1]: what the loops of the       *)
(* program that accumulate lamports over consecutive entry indices         *)
(* compute.  It is a recursive function, not a RECURSIVE operator, so that *)
(* its properties can be proved (module AmountsProofs).                    *)
(***************************************************************************)
EXTENDS Integers

SumTo(f, n) ==
  LET total[i \in 0..n] == IF i = 0 THEN 0 ELSE total[i-1] + f[i-1]
  IN  total[n]
=============================================================================
