----------------------------- MODULE PriceCurve -----------------------------
(***************************************************************************)
(* The price of one unsold entry, or of the mysteries of one block, as the *)
(* seconds pass.                                                           *)
(***************************************************************************)
EXTENDS Prices

CONSTANTS
  PricesSet,  \* start and minimum prices of configurations, in lamports
  Durations   \* of the final sale, or of the mystery phase

ASSUME PriceCurveAssumption == PricesSet \subseteq 0..MaxU64 /\ Durations \subseteq Nat

VARIABLES duration, start_price, minimum_price, elapsed, price

curve == <<duration, start_price, minimum_price, elapsed, price>>

PriceAt(seconds) == ComputePrice(duration, start_price, minimum_price, seconds)

\* admin_create_block rejects a start price below the minimum price.
Init ==
  /\ duration \in Durations
  /\ start_price \in PricesSet /\ minimum_price \in PricesSet
  /\ minimum_price <= start_price
  /\ elapsed = 0
  /\ price = PriceAt(0)

\* The price is computed anew from the time that has elapsed.
Tick ==
  /\ elapsed <= duration
  /\ elapsed' = elapsed + 1
  /\ price' = PriceAt(elapsed + 1)
  /\ UNCHANGED <<duration, start_price, minimum_price>>

Spec == Init /\ [][Tick]_curve

-----------------------------------------------------------------------------
\* compute_price overflows at this second.
Overflows ==
  PriceOverflows(duration, (start_price - minimum_price) \div 1000, minimum_price \div 1000,
                 elapsed)

(***************************************************************************)
(* compute_price never asks more than the start price, and falls short of  *)
(* the minimum price by 999 lamports at most: the division by 1000 drops   *)
(* what is not a whole thousand of it.  Only where the computation         *)
(* overflows does the price fall to a thousandth of the minimum price, and *)
(* no further.                                                             *)
(***************************************************************************)
PriceInRange ==
  /\ price <= start_price
  /\ \/ price > minimum_price - 1000
     \/ Overflows /\ price = minimum_price \div 1000

(***************************************************************************)
(* entry.h: the price decays to the minimum price.  It never rises while   *)
(* the sale lasts, not at the second either from which on compute_price    *)
(* overflows.  At the end of the sale, where compute_price switches from   *)
(* the curve to the minimum price itself, it rises to no more than that,   *)
(* and by 999 lamports at most unless the computation overflowed.          *)
(***************************************************************************)
PriceDecays ==
  [][/\ elapsed' < duration => price' <= price
     /\ \/ price' <= price
        \/ price' = minimum_price /\ (price' < price + 1000 \/ Overflows)]_curve
=============================================================================
