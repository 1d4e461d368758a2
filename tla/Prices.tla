------------------------------- MODULE Prices -------------------------------
(***************************************************************************)
(* The price curves of the program, as pure functions of the configured    *)
(* prices and of the number of seconds that have elapsed.                  *)
(*                                                                         *)
(* Prices are in lamports.  An intermediate result that overflows is never *)
(* computed here: the flag is sticky and its value is discarded.           *)
(***************************************************************************)
EXTENDS CheckedMath

\* What of the curve is left, in thousands of lamports.
CurveLeft(total_seconds, delta, seconds_elapsed) ==
  LET ab == ((100 * delta * seconds_elapsed) \div total_seconds) + delta
      bc == ((10100 * seconds_elapsed) \div total_seconds) + 101
  IN  (delta * 101 - ab) \div bc

\* Whether [overflow] is set, for the prices divided by 1000.
PriceOverflows(total_seconds, delta, end, seconds_elapsed) ==
  \/ MultiplyOverflows(100 * delta, seconds_elapsed)
  \/ AddOverflows((100 * delta * seconds_elapsed) \div total_seconds, delta)
  \/ MultiplyOverflows(10100, seconds_elapsed)
  \/ AddOverflows((10100 * seconds_elapsed) \div total_seconds, 101)
  \/ AddOverflows(end, CurveLeft(total_seconds, delta, seconds_elapsed))
  \/ MultiplyOverflows(end + CurveLeft(total_seconds, delta, seconds_elapsed), 1000)

\* Mutant: what remains of the difference is not added to the end price.
ComputePriceWithoutEnd(total_seconds, start_price, end_price, seconds_elapsed) ==
  IF seconds_elapsed >= total_seconds THEN end_price
  ELSE CurveLeft(total_seconds, (start_price - end_price) \div 1000, seconds_elapsed) * 1000

(***************************************************************************)
(* compute_price of user_buy.c: the price of a mystery during the mystery  *)
(* phase, or of a revealed entry during its final sale.  It decays from    *)
(* start_price to end_price over total_seconds, along                      *)
(*        y = 1/(100x + 1) - 1/101                                         *)
(* computed in thousands of lamports.  The end price that an overflow      *)
(* yields has been divided by 1000 before.                                 *)
(***************************************************************************)
ComputePrice(total_seconds, start_price, end_price, seconds_elapsed) ==
  LET delta == (start_price - end_price) \div 1000
      end   == end_price \div 1000
  IN  IF seconds_elapsed >= total_seconds THEN end_price
      ELSE IF PriceOverflows(total_seconds, delta, end, seconds_elapsed) THEN end
      ELSE (end + CurveLeft(total_seconds, delta, seconds_elapsed)) * 1000

(***************************************************************************)
(* compute_minimum_bid of user_bid.c: the least bid that beats             *)
(* current_max_bid.  The increment grows from about 2% at the start of the *)
(* auction to about 101% at its end.  0 means that no bid is possible.     *)
(***************************************************************************)
ComputeMinimumBid(auction_duration, initial_minimum_bid, current_max_bid, seconds_elapsed) ==
  LET a        == IF seconds_elapsed >= auction_duration THEN auction_duration - 1
                                                         ELSE seconds_elapsed
      b        == auction_duration
      p        == current_max_bid
      factor   == ((1000 * b) \div ((b + (b \div 100)) - a)) + 101000
      eighth   == p \div 8
  IN  IF p = MaxU64 THEN 0
      ELSE IF p < initial_minimum_bid THEN initial_minimum_bid
      ELSE IF ~MultiplyOverflows(p, factor) THEN (p * factor) \div 100000
      ELSE IF ~AddOverflows(p, eighth) THEN p + eighth
      ELSE MaxU64
=============================================================================
