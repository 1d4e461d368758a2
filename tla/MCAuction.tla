----------------------------- MODULE MCAuction -----------------------------
(***************************************************************************)
(* Small instances of the auctions.                                        *)
(***************************************************************************)
EXTENDS AuctionProperties, TLC

\* Enough for two bids, but not for raising both of them.
Lamports == [a \in Accounts |-> IF a \in Users THEN 2 * MinimumPrice + 50 ELSE 0]

\* Enough for one bid at a time, or for a donation.
FewLamports == [a \in Accounts |-> IF a \in Users THEN MinimumPrice + 50 ELSE 0]

UserSymmetry == Permutations(Users)
=============================================================================
