--------------------------- MODULE EnglishAuction ---------------------------
(***************************************************************************)
(* What an auction promises about each entry, with no accounts and no      *)
(* clock: while it is open the highest bid only rises; once it is closed   *)
(* the highest bid stands, and the entry is sold for no less than that, or *)
(* for its fixed price when there was no bid.  It is sold once.            *)
(***************************************************************************)
EXTENDS Integers

CONSTANTS Entries, FixedPrice

VARIABLES
  stage,  \* of each entry's auction: "Waiting", "Open", "Closed" or "Sold"
  high,   \* its highest bid, 0 if none
  price   \* what the entry was sold for, 0 before

Init ==
  /\ stage = [i \in Entries |-> "Waiting"]
  /\ high = [i \in Entries |-> 0]
  /\ price = [i \in Entries |-> 0]

Start(i) ==
  /\ stage[i] = "Waiting"
  /\ stage' = [stage EXCEPT ![i] = "Open"]
  /\ UNCHANGED <<high, price>>

\* The bidder chooses the amount.
Outbid(i) ==
  /\ stage[i] = "Open"
  /\ high' = [high EXCEPT ![i] = high'[i]]
  /\ high'[i] > high[i]
  /\ high'[i] >= FixedPrice
  /\ UNCHANGED <<stage, price>>

\* The auctions of several entries can end at the same time.
Close(ended) ==
  /\ \A i \in ended : stage[i] = "Open"
  /\ stage' = [i \in Entries |-> IF i \in ended THEN "Closed" ELSE stage[i]]
  /\ UNCHANGED <<high, price>>

\* For more than the highest bid only if the bidder sent more.
Sell(i) ==
  /\ stage[i] = "Closed"
  /\ price' = [price EXCEPT ![i] = price'[i]]
  /\ IF high[i] = 0 THEN price'[i] = FixedPrice ELSE price'[i] >= high[i]
  /\ stage' = [stage EXCEPT ![i] = "Sold"]
  /\ UNCHANGED high

Next ==
  \/ \E i \in Entries : Start(i) \/ Outbid(i) \/ Sell(i)
  \/ \E ended \in SUBSET Entries : Close(ended)

Spec == Init /\ [][Next]_<<stage, high, price>>
=============================================================================
