------------------------- MODULE AuctionProperties -------------------------
(***************************************************************************)
(* What makes the auctions correct.                                        *)
(***************************************************************************)
EXTENDS Auction, Sums

\* Every variable holds a value that its account can hold: no balance is
\* negative, and the lamports at an address may outlive its bid account.
TypeOK ==
  /\ now \in Nat
  /\ entry \in [AuctionEntries -> AuctionedEntry]
  /\ bids \subseteq Bids
  /\ held \in [Bids -> Nat]
  /\ markers \subseteq Bids
  /\ token \in [AuctionEntries -> Users \cup {EntryTokenAccount}]
  /\ lamports \in [Accounts -> Nat]

\* What user u owns, the lamports in bid accounts included.
Wealth(u) ==
  lamports[u] + SumTo([i \in AuctionEntries |-> held[<<i, u>>]], Cardinality(AuctionEntries))

(***************************************************************************)
(* Only who gets an entry pays for it: whoever raises bids, is outbid,     *)
(* bids again, takes bids back in any order, keeps all lamports, except    *)
(* for the price of an entry at the moment that it is sold; and if it had  *)
(* bids, it is its winning bidder who pays.  (Without donations.)          *)
(***************************************************************************)
LosersLoseNothing ==
  [][\A u \in Users : Wealth(u)' < Wealth(u) =>
       \E i \in AuctionEntries :
         /\ ~IsPurchased(entry[i]) /\ IsPurchased(entry'[i])
         /\ Wealth(u)' = Wealth(u) - entry'[i].purchase_price_lamports
         /\ entry[i].winning_bid_pubkey \in {Zeroes, <<i, u>>}]_auctionVars

(***************************************************************************)
(* The bid that an entry remembers as the highest is really higher than    *)
(* what any other bid account of the entry holds: user_bid.c compares with *)
(* the entry only, and create_account tops up accounts of earlier bids.    *)
(* (Without donations, which can lift a losing bid account.)               *)
(***************************************************************************)
LosingBidsAreLower ==
  \A i \in AuctionEntries, u \in Users :
    <<i, u>> \in bids /\ entry[i].winning_bid_pubkey # <<i, u>> =>
      held[<<i, u>>] < entry[i].highest_bid_lamports

\* The highest bid of entry i is there to be claimed.
IsHeld(i) ==
  /\ entry[i].winning_bid_pubkey \in bids
  /\ held[entry[i].winning_bid_pubkey] >= entry[i].highest_bid_lamports

\* Entry i is sold for all that the winning bid account holds.
SoldForItsBid(i) ==
  entry'[i].purchase_price_lamports = held[entry[i].winning_bid_pubkey]

\* The winner of i gets the bid back as one that lost at another entry j.
TakenBackElsewhere(i) ==
  LET b == entry[i].winning_bid_pubkey
  IN  /\ \E j \in AuctionEntries \ {i} : MayHaveLosers(j) /\ NotTheWinner(j, b)
      /\ b \in bids \ bids'
      /\ lamports'[b[2]] = lamports[b[2]] + held[b]
      /\ entry' = entry

(***************************************************************************)
(* What an entry remembers as its highest bid is money: the bid account    *)
(* holds as much when the bid is made, and until the entry is sold for it, *)
(* also when lamports were sent to the account before or after.  The only  *)
(* other way that it can go is the one that user_claim_losing.c leaves     *)
(* open, back to the winner by way of another entry (see WinningBidIsKept).*)
(***************************************************************************)
HighestBidIsHeld ==
  [][\A i \in AuctionEntries :
       /\ entry'[i].highest_bid_lamports # entry[i].highest_bid_lamports => IsHeld(i)'
       /\ IsHeld(i) => IsHeld(i)' \/ SoldForItsBid(i) \/ TakenBackElsewhere(i)]_auctionVars

-----------------------------------------------------------------------------
(***************************************************************************)
(* The auctions implement module EnglishAuction.                           *)
(***************************************************************************)
Stage(i) ==
  IF ~IsRevealed(entry[i]) THEN "Waiting"
  ELSE IF IsPurchased(entry[i]) THEN "Sold"
  ELSE IF StateOf(i) = "InAuction" THEN "Open" ELSE "Closed"

Stages == [i \in AuctionEntries |-> Stage(i)]
Highs  == [i \in AuctionEntries |-> entry[i].highest_bid_lamports]
Sold   == [i \in AuctionEntries |-> entry[i].purchase_price_lamports]

English == INSTANCE EnglishAuction
             WITH Entries <- AuctionEntries, FixedPrice <- MinimumPrice,
                  stage <- Stages, high <- Highs, price <- Sold

(***************************************************************************)
(* Seen from outside, each entry goes through one English auction, with    *)
(* the stages that get_entry_state derives from timestamps: no bid comes   *)
(* late, no bid lowers another, and none is sold early or for less.        *)
(***************************************************************************)
EnglishSpec == English!Spec

-----------------------------------------------------------------------------
(***************************************************************************)
(* Progress.                                                               *)
(***************************************************************************)

\* Time passes, and bidders claim their bids, losing and winning.
BiddersClaim ==
  /\ WF_auctionVars(Tick)
  /\ \A b \in Bids : /\ WF_auctionVars(ClaimLosing(b[1], b[2], b, FALSE))
                     /\ WF_auctionVars(ClaimWinning(b[1], b[2], b[2], FALSE))

FairSpec == Spec /\ BiddersClaim

(***************************************************************************)
(* No bid is locked up for ever: each bid account is claimed some day by   *)
(* its bidder, in every state that its entry can be in, although the       *)
(* bidder may have lost or burnt the bid marker.                           *)
(***************************************************************************)
BidsAreSettled == \A b \in Bids : b \in bids ~> b \notin bids

(***************************************************************************)
(* An entry that was bid on is sold, whether or not the winner still has   *)
(* the bid marker, unless the bid account is gone: user_claim_winning.c    *)
(* has no other way to sell it, and the winner may have taken the bid back *)
(* by way of another entry (see WinningBidIsKept).                         *)
(***************************************************************************)
BidOnIsSold ==
  \A i \in AuctionEntries :
    entry[i].highest_bid_lamports # 0
      ~> IsPurchased(entry[i]) \/ entry[i].winning_bid_pubkey \notin bids

-----------------------------------------------------------------------------
(***************************************************************************)
(* user_claim_losing.c: "If this is the winning bid, then can't claim it   *)
(* as a losing bid".  The bid account of the winner of an entry is only    *)
(* closed by the sale of that entry.                                       *)
(***************************************************************************)
WinningBidIsKept ==
  [][\A i \in AuctionEntries :
       LET b == entry[i].winning_bid_pubkey
       IN  b \in bids /\ b \notin bids' => IsPurchased(entry'[i])]_auctionVars
=============================================================================
