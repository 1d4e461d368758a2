------------------------------ MODULE Auction ------------------------------
(***************************************************************************)
(* The auctions of revealed entries: bids, bid markers, and the claims of  *)
(* losing and winning bids, until each entry is sold.                      *)
(*                                                                         *)
(* A bidder has at most one bid account per entry, at an address derived   *)
(* from the entry and the bidder: it is named <<i, u>> here, as is the bid *)
(* marker, a token account that shows the bidder that there is a bid.  The *)
(* lamports of the bid account are the bid.  All entries begin unrevealed, *)
(* unsold, and past their mystery phase (module BlockSale has what comes   *)
(* before).  Each action is the successful execution of an instruction.    *)
(*                                                                         *)
(* Abstracted as in BlockSale: addresses are given, rent and fees are not  *)
(* counted, and a buyer names a maximum price that is high enough and is   *)
(* not held up by a whitelist.  The number of tokens in a bid marker is    *)
(* not counted: a claim burns all.                                         *)
(***************************************************************************)
EXTENDS EntryStates, Prices, FiniteSets

CONSTANTS
  Users, Admin,
  AuctionEntries,     \* the indices of the entries
  EntryTokenAccount,  \* the token is in the entry's own account
  Unrevealed,         \* a commitment
  Duration,           \* of the auctions
  MinimumPrice,       \* of the entries, the least first bid
  BidLimits,          \* the limits that bidders name
  DonatedAmounts,     \* what is sent to bid accounts outside of the program
  InitialLamports,
  StartTime, LastReveal, MaxTime  \* the clock's first value, the last at which
                                  \* entries are revealed, and its bound

Accounts == Users \cup {Admin}

\* The addresses of bid accounts and bid markers.
Bids == AuctionEntries \X Users

AuctionedEntry ==
  [reveal_sha256 : {Unrevealed, Zeroes}, reveal_timestamp : Nat, has_auction : BOOLEAN,
   duration : Nat, minimum_price_lamports : Nat, purchase_price_lamports : Nat,
   highest_bid_lamports : Nat, winning_bid_pubkey : Bids \cup {Zeroes},
   stake_account : {Zeroes}]

ASSUME AuctionAssumption ==
  /\ Admin \notin Users
  /\ EntryTokenAccount \notin Accounts
  /\ Unrevealed # Zeroes /\ Zeroes \notin Bids
  /\ Duration \in Nat \ {0}          \* admin_create_block insists on it
  /\ MinimumPrice \in Nat           \* at least the rent of a bid account,
  /\ MinimumPrice >= 100            \* which is far more than this
  /\ BidLimits \subseteq 0..MaxU64 /\ DonatedAmounts \subseteq Nat
  /\ InitialLamports \in [Accounts -> Nat]
  /\ StartTime \in Nat /\ LastReveal \in Nat /\ MaxTime \in Nat

\* The entry_index of the entries of a block.
ASSUME EntryIndicesAssumption ==
  /\ Cardinality(AuctionEntries) \in Nat
  /\ AuctionEntries = 0..(Cardinality(AuctionEntries) - 1)

VARIABLES
  now,      \* unix_timestamp of the clock sysvar
  entry,    \* the entry accounts
  bids,     \* the bid accounts that exist
  held,     \* the lamports at the address of each bid account
  markers,  \* the bid markers that exist
  token,    \* where the token of each entry is
  lamports  \* the balances of the other accounts

auctionVars == <<now, entry, bids, held, markers, token, lamports>>

\* An entry that was added to a block with auctions and is not revealed or sold.
UnsoldEntry ==
  [reveal_sha256 |-> Unrevealed, reveal_timestamp |-> 0, has_auction |-> TRUE,
   duration |-> Duration, minimum_price_lamports |-> MinimumPrice,
   purchase_price_lamports |-> 0, highest_bid_lamports |-> 0,
   winning_bid_pubkey |-> Zeroes, stake_account |-> Zeroes]

Init ==
  /\ now = StartTime
  /\ entry = [i \in AuctionEntries |-> UnsoldEntry]
  /\ bids = {}
  /\ held = [b \in Bids |-> 0]
  /\ markers = {}
  /\ token = [i \in AuctionEntries |-> EntryTokenAccount]
  /\ lamports = InitialLamports

StateOf(i) == GetEntryStateAlone(entry[i], now)

-----------------------------------------------------------------------------
\* Instruction_RevealEntries, for one entry that was not sold as a mystery.
Reveal(i) ==
  /\ now <= LastReveal
  /\ StateOf(i) = "PreReveal"
  /\ entry' = [entry EXCEPT ![i].reveal_timestamp = now, ![i].reveal_sha256 = Zeroes]
  /\ UNCHANGED <<now, bids, held, markers, token, lamports>>

\* Mutant: a bid need only be as high as the entry's minimum price.
AnyBid(i) == entry[i].minimum_price_lamports

\* The least bid on entry i that is accepted now.
MinimumBid(i) ==
  ComputeMinimumBid(entry[i].duration, entry[i].minimum_price_lamports,
                    entry[i].highest_bid_lamports, now - entry[i].reveal_timestamp)

\* The amount of a bid of at least minimum: the bidder does not bid more than needed.
BidAmount(i, minimum) == IF MinimumBid(i) < minimum THEN minimum ELSE MinimumBid(i)

\* create_account transfers only what the account does not hold already.
Funding(b, amount) == IF held[b] < amount THEN amount - held[b] ELSE 0

\* Mutant: the transfer is not limited by the bidder's balance.
HasEnough(u, paid) == TRUE

\* The transfer by the system program fails when the bidder has too little.
CanPay(u, paid) == paid <= lamports[u]

\* Instruction_Bid, with a minimum and a maximum bid.
Bid(i, u, minimum, maximum) ==
  LET amount == BidAmount(i, minimum)
      paid   == Funding(<<i, u>>, amount)
  IN  /\ minimum <= maximum
      /\ StateOf(i) = "InAuction"
      /\ MinimumBid(i) # 0
      /\ MinimumBid(i) <= maximum
      /\ CanPay(u, paid)
      /\ markers' = markers \cup {<<i, u>>}
      /\ bids' = bids \cup {<<i, u>>}
      /\ held' = [held EXCEPT ![<<i, u>>] = held[<<i, u>>] + paid]
      /\ lamports' = [lamports EXCEPT ![u] = lamports[u] - paid]
      /\ entry' = [entry EXCEPT ![i].highest_bid_lamports = amount,
                                ![i].winning_bid_pubkey = <<i, u>>]
      /\ UNCHANGED <<now, token>>

\* reclaim_bid_marker_token, which is optional: the marker must exist.
ReclaimMarker(b, reclaim) ==
  /\ reclaim => b \in markers
  /\ markers' = IF reclaim THEN markers \ {b} ELSE markers

\* Mutant: only until the entry is claimed.
MayHaveLosersUntilClaimed(i) == StateOf(i) \in {"InAuction", "WaitingToBeClaimed"}

\* The states in which an entry can have losing bids.
MayHaveLosers(i) ==
  \/ StateOf(i) = "InAuction"
  \/ StateOf(i) \in {"WaitingToBeClaimed", "Owned", "OwnedAndStaked"} /\ entry[i].has_auction

\* Mutant: the winner is not recognized.
NeverTheWinner(i, b) == TRUE

NotTheWinner(i, b) == b # entry[i].winning_bid_pubkey

\* Instruction_ClaimLosing: the bidder of bid account b gets its lamports
\* back.  The instruction is given the entry i too, and does not check that
\* the bid was made on it.
ClaimLosing(i, u, b, reclaim) ==
  /\ MayHaveLosers(i)
  /\ b \in bids
  /\ b[2] = u
  /\ NotTheWinner(i, b)
  /\ ReclaimMarker(<<i, u>>, reclaim)
  /\ lamports' = [lamports EXCEPT ![u] = lamports[u] + held[b]]
  /\ held' = [held EXCEPT ![b] = 0]
  /\ bids' = bids \ {b}
  /\ UNCHANGED <<now, entry, token>>

\* Mutant: a winning bid is claimed while the auction goes on.
SoonClaimable(i) == entry[i].highest_bid_lamports # 0 /\ ~IsPurchased(entry[i])

\* Mutant: the winner must show the bid marker.
ClaimableWithMarker(i) ==
  StateOf(i) = "WaitingToBeClaimed" /\ entry[i].winning_bid_pubkey \in markers

Claimable(i) == StateOf(i) = "WaitingToBeClaimed"

\* Mutant: any bidder is taken for the winner.
AnyWinner(i, b) == TRUE

IsWinner(i, b) == b = entry[i].winning_bid_pubkey

\* Instruction_ClaimWinning: the lamports of the bid go to the admin, and the
\* token to the owner that the bidder names.
ClaimWinning(i, u, owner, reclaim) ==
  LET b == <<i, u>>
  IN  /\ Claimable(i)
      /\ b \in bids
      /\ IsWinner(i, b)
      /\ token[i] = EntryTokenAccount
      /\ token' = [token EXCEPT ![i] = owner]
      /\ ReclaimMarker(b, reclaim)
      /\ entry' = [entry EXCEPT ![i].purchase_price_lamports = held[b]]
      /\ lamports' = [lamports EXCEPT ![Admin] = lamports[Admin] + held[b]]
      /\ held' = [held EXCEPT ![b] = 0]
      /\ bids' = bids \ {b}
      /\ UNCHANGED now

\* Instruction_Buy of an entry that nobody bid on, for the minimum price.  The
\* code takes it from the block's configuration, which never changes and
\* which the entry got its copy of when it was created.
BuyUnsold(i, u, owner) ==
  LET price == entry[i].minimum_price_lamports
  IN  /\ StateOf(i) = "Unowned"
      /\ entry[i].has_auction
      /\ CanPay(u, price)
      /\ token[i] = EntryTokenAccount
      /\ token' = [token EXCEPT ![i] = owner]
      /\ entry' = [entry EXCEPT ![i].purchase_price_lamports = price]
      /\ lamports' = [lamports EXCEPT ![u] = lamports[u] - price,
                                      ![Admin] = lamports[Admin] + price]
      /\ UNCHANGED <<now, bids, held, markers>>

-----------------------------------------------------------------------------
\* The system program: someone sends lamports to the address of a bid account.
Donate(u, b, amount) ==
  /\ CanPay(u, amount)
  /\ lamports' = [lamports EXCEPT ![u] = lamports[u] - amount]
  /\ held' = [held EXCEPT ![b] = held[b] + amount]
  /\ UNCHANGED <<now, entry, bids, markers, token>>

\* The SPL token program: the bidder burns the marker's tokens and closes it.
DiscardMarker(b) ==
  /\ b \in markers
  /\ markers' = markers \ {b}
  /\ UNCHANGED <<now, entry, bids, held, token, lamports>>

Tick ==
  /\ now < MaxTime
  /\ now' = now + 1
  /\ UNCHANGED <<entry, bids, held, markers, token, lamports>>

-----------------------------------------------------------------------------
Next ==
  \/ \E i \in AuctionEntries : Reveal(i)
  \/ \E i \in AuctionEntries, u \in Users, minimum \in BidLimits \cup {0}, maximum \in BidLimits :
       Bid(i, u, minimum, maximum)
  \/ \E i \in AuctionEntries, u \in Users, b \in Bids, reclaim \in BOOLEAN :
       ClaimLosing(i, u, b, reclaim)
  \/ \E i \in AuctionEntries, u \in Users, owner \in Users, reclaim \in BOOLEAN :
       ClaimWinning(i, u, owner, reclaim)
  \/ \E i \in AuctionEntries, u \in Users, owner \in Users : BuyUnsold(i, u, owner)
  \/ \E u \in Users, b \in Bids, amount \in DonatedAmounts : Donate(u, b, amount)
  \/ \E b \in Bids : DiscardMarker(b)
  \/ Tick

Spec == Init /\ [][Next]_auctionVars
=============================================================================
