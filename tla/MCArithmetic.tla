---------------------------- MODULE MCArithmetic ----------------------------
(***************************************************************************)
(* The formulas of the program over bounded inputs: prices as the seconds  *)
(* pass, and all pairs of operands of a small word, one after the other.   *)
(***************************************************************************)
EXTENDS PriceCurve, Schoolbook, Ki

CONSTANT KiStep  \* harvests are checked in steps of so many Ki

ASSUME KiStepAssumption == KiStep \in Nat

VARIABLES first, second

operands == <<first, second>>

\* Prices without operands, or operands without a price.
ArithmeticInit ==
  \/ Init /\ first = 0 /\ second = Word - 1
  \/ /\ first \in 0 .. Word - 1 /\ second = 0
     /\ duration = 0 /\ start_price = 0 /\ minimum_price = 0 /\ elapsed = 1 /\ price = 0

NextOperand == second < Word - 1 /\ second' = second + 1 /\ UNCHANGED first

ArithmeticNext ==
  \/ Tick /\ UNCHANGED operands
  \/ NextOperand /\ UNCHANGED curve

ArithmeticSpec == ArithmeticInit /\ [][ArithmeticNext]_<<curve, operands>>

KiFactors == [n \in 0..MaxLevel |-> 1]

(***************************************************************************)
(* checked_multiply agrees with its documentation for every pair: none of  *)
(* its four partial products and sums loses a carry, and the sum that      *)
(* decides on the flag never wraps around to 0.                            *)
(***************************************************************************)
ProductOrFlag == ProductOrOverflow(first, second)

(***************************************************************************)
(* harvest_ki is meant to discourage large harvests: whoever harvests in   *)
(* two parts gets at least as much, but for the rounding of one Ki, as who *)
(* harvests it all at once, although it divides twice.                     *)
(***************************************************************************)
LargeHarvestsDiscouraged ==
  ReducedKi(KiStep * first) + ReducedKi(KiStep * second) + 10 >=
    ReducedKi(KiStep * (first + second))
=============================================================================
