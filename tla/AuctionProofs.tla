--------------------------- MODULE AuctionProofs ---------------------------
(***************************************************************************)
(* Theorems about the auctions, for any number of entries, bidders and     *)
(* bids, and for a word of any size.                                       *)
(***************************************************************************)
EXTENDS AuctionProperties, AmountsProofs

(***************************************************************************)
(* The inductive invariant.                                                *)
(***************************************************************************)

\* Entry i keeps the configuration of its block, and before it is revealed
\* nobody has bid on it or bought it.
Proceeds(i) ==
  /\ entry[i].has_auction
  /\ entry[i].duration = Duration
  /\ entry[i].minimum_price_lamports = MinimumPrice
  /\ entry[i].reveal_timestamp <= now
  /\ ~IsRevealed(entry[i]) => /\ entry[i].purchase_price_lamports = 0
                              /\ entry[i].highest_bid_lamports = 0
  /\ entry[i].highest_bid_lamports <= MaxU64
  /\ entry[i].highest_bid_lamports # 0 => entry[i].winning_bid_pubkey \in {i} \X Users
  /\ entry[i].highest_bid_lamports = 0 => entry[i].winning_bid_pubkey = Zeroes

\* As long as the winning bid of i is there, it is worth what the entry says.
IsBacked(i) ==
  entry[i].winning_bid_pubkey \in bids =>
    held[entry[i].winning_bid_pubkey] >= entry[i].highest_bid_lamports

AuctionInv ==
  /\ TypeOK
  /\ \A i \in AuctionEntries : Proceeds(i)
  /\ \A i \in AuctionEntries : IsBacked(i)

-----------------------------------------------------------------------------
(***************************************************************************)
(* A bid.                                                                  *)
(***************************************************************************)

\* What is known of an accepted bid.
LEMMA AcceptedBid ==
  ASSUME AuctionInv, NEW i \in AuctionEntries, NEW u \in Users,
         NEW minimum \in BidLimits \cup {0}, NEW maximum \in BidLimits,
         Bid(i, u, minimum, maximum)
  PROVE  /\ BidAmount(i, minimum) \in Nat
         /\ BidAmount(i, minimum) <= MaxU64
         /\ BidAmount(i, minimum) >= MinimumPrice
         /\ BidAmount(i, minimum) > entry[i].highest_bid_lamports
<1>1. /\ entry[i] \in AuctionedEntry /\ now \in Nat /\ Proceeds(i)
      /\ minimum \in Nat /\ maximum \in Nat /\ maximum <= MaxU64 /\ MaxU64 \in Nat
  BY AuctionAssumption, MaxU64Assumption DEF AuctionInv, TypeOK
<1>2. now - entry[i].reveal_timestamp \in Nat
  BY <1>1 DEF Proceeds, AuctionedEntry
<1>3. /\ MinimumBid(i) # 0 /\ MinimumBid(i) <= maximum /\ minimum <= maximum
  BY DEF Bid
<1>4. /\ MinimumBid(i) \in Nat
      /\ MinimumBid(i) > entry[i].highest_bid_lamports
      /\ MinimumBid(i) >= MinimumPrice
  <2>1. /\ entry[i].duration \in Nat \ {0} /\ entry[i].minimum_price_lamports \in Nat
        /\ entry[i].minimum_price_lamports >= 100
        /\ entry[i].minimum_price_lamports = MinimumPrice
        /\ entry[i].highest_bid_lamports \in Nat /\ entry[i].highest_bid_lamports <= MaxU64
    BY <1>1, AuctionAssumption DEF Proceeds, AuctionedEntry
  <2> QED
    BY <1>2, <1>3, <2>1, MinimumBidBeatsHighest DEF MinimumBid
<1>5. entry[i].highest_bid_lamports \in Nat /\ MinimumPrice \in Nat
  BY <1>1, AuctionAssumption DEF AuctionedEntry
<1>6. CASE MinimumBid(i) < minimum
  BY <1>1, <1>3, <1>4, <1>5, <1>6 DEF BidAmount
<1>7. CASE ~(MinimumBid(i) < minimum)
  BY <1>1, <1>3, <1>4, <1>5, <1>7 DEF BidAmount
<1> QED
  BY <1>6, <1>7

\* What the bid account holds and what is left to the bidder.
LEMMA FundedBid ==
  ASSUME TypeOK, NEW b \in Bids, NEW u \in Users, NEW amount \in Nat,
         Funding(b, amount) <= lamports[u]
  PROVE  /\ Funding(b, amount) \in Nat
         /\ lamports[u] - Funding(b, amount) \in Nat
         /\ held[b] + Funding(b, amount) \in Nat
         /\ held[b] + Funding(b, amount) >= amount
         /\ held[b] <= amount => held[b] + Funding(b, amount) = amount
<1>1. held[b] \in Nat /\ lamports[u] \in Nat
  BY DEF TypeOK, Accounts
<1>2. CASE held[b] < amount
  BY <1>1, <1>2 DEF Funding
<1>3. CASE ~(held[b] < amount)
  BY <1>1, <1>3 DEF Funding
<1> QED
  BY <1>2, <1>3

\* An account pays what it has, or is paid.
LEMMA PaidType ==
  ASSUME TypeOK, NEW a \in Accounts, NEW amount \in Nat
  PROVE  /\ [lamports EXCEPT ![a] = lamports[a] + amount] \in [Accounts -> Nat]
         /\ amount <= lamports[a] =>
              [lamports EXCEPT ![a] = lamports[a] - amount] \in [Accounts -> Nat]
<1>1. /\ lamports \in [Accounts -> Nat] /\ lamports[a] \in Nat
      /\ lamports[a] + amount \in Nat
      /\ amount <= lamports[a] => lamports[a] - amount \in Nat
  BY DEF TypeOK
<1> QED
  BY <1>1

-----------------------------------------------------------------------------
(***************************************************************************)
(* Each action preserves the inductive invariant.                          *)
(***************************************************************************)
LEMMA AuctionInit == Init => AuctionInv
<1> SUFFICES ASSUME Init PROVE AuctionInv
  OBVIOUS
<1>1. TypeOK
  <2>1. now \in Nat /\ bids \subseteq Bids /\ markers \subseteq Bids
        /\ held \in [Bids -> Nat] /\ lamports \in [Accounts -> Nat]
        /\ token \in [AuctionEntries -> Users \cup {EntryTokenAccount}]
    BY AuctionAssumption DEF Init
  <2>2. UnsoldEntry \in AuctionedEntry
    BY AuctionAssumption DEF UnsoldEntry, AuctionedEntry
  <2>3. entry \in [AuctionEntries -> AuctionedEntry]
    BY <2>2 DEF Init
  <2> QED
    BY <2>1, <2>3 DEF TypeOK
<1>2. ASSUME NEW i \in AuctionEntries PROVE Proceeds(i) /\ IsBacked(i)
  <2>1. entry[i] = UnsoldEntry
    BY DEF Init
  <2>2. now \in Nat /\ bids = {}
    BY AuctionAssumption DEF Init
  <2> QED
    BY <2>1, <2>2, AuctionAssumption, MaxU64Assumption
       DEF UnsoldEntry, Proceeds, IsBacked, IsRevealed
<1> QED
  BY <1>1, <1>2 DEF AuctionInv

LEMMA RevealInv ==
  ASSUME AuctionInv, NEW i \in AuctionEntries, Reveal(i)
  PROVE  AuctionInv'
<1>1. entry[i] \in AuctionedEntry /\ now \in Nat /\ entry \in [AuctionEntries -> AuctionedEntry]
  BY DEF AuctionInv, TypeOK
<1>2. /\ entry' \in [AuctionEntries -> AuctionedEntry]
      /\ entry'[i] = [entry[i] EXCEPT !.reveal_timestamp = now, !.reveal_sha256 = Zeroes]
      /\ \A j \in AuctionEntries : j # i => entry'[j] = entry[j]
  BY <1>1 DEF Reveal, AuctionedEntry
<1>3. TypeOK'
  BY <1>2 DEF AuctionInv, TypeOK, Reveal
<1>4. ASSUME NEW j \in AuctionEntries PROVE Proceeds(j)' /\ IsBacked(j)'
  <2>1. Proceeds(j) /\ IsBacked(j)
    BY DEF AuctionInv
  <2>2. CASE j = i
    BY <1>1, <1>2, <2>1, <2>2 DEF Proceeds, IsBacked, IsRevealed, AuctionedEntry, Reveal
  <2>3. CASE j # i
    BY <1>2, <2>1, <2>3 DEF Proceeds, IsBacked, IsRevealed, Reveal
  <2> QED
    BY <2>2, <2>3
<1> QED
  BY <1>3, <1>4 DEF AuctionInv

LEMMA BidInv ==
  ASSUME AuctionInv, NEW i \in AuctionEntries, NEW u \in Users,
         NEW minimum \in BidLimits \cup {0}, NEW maximum \in BidLimits,
         Bid(i, u, minimum, maximum)
  PROVE  AuctionInv'
<1> DEFINE b      == <<i, u>>
           amount == BidAmount(i, minimum)
           paid   == Funding(b, amount)
<1>1. /\ amount \in Nat /\ amount <= MaxU64 /\ amount >= MinimumPrice
      /\ amount > entry[i].highest_bid_lamports
  BY AcceptedBid
<1>2. /\ TypeOK /\ b \in Bids /\ entry[i] \in AuctionedEntry /\ now \in Nat
      /\ entry[i].highest_bid_lamports \in Nat
  BY DEF AuctionInv, TypeOK, Bids, AuctionedEntry
<1>3. /\ bids' = bids \cup {b} /\ markers' = markers \cup {b}
      /\ held' = [held EXCEPT ![b] = held[b] + paid]
      /\ lamports' = [lamports EXCEPT ![u] = lamports[u] - paid]
      /\ entry' = [entry EXCEPT ![i].highest_bid_lamports = amount,
                                ![i].winning_bid_pubkey = b]
      /\ now' = now /\ token' = token
      /\ paid <= lamports[u]
  BY DEF Bid, CanPay
<1> HIDE DEF amount
<1>4. /\ paid \in Nat /\ lamports[u] - paid \in Nat
      /\ held[b] + paid \in Nat /\ held[b] + paid >= amount
  BY <1>1, <1>2, <1>3, FundedBid
<1> HIDE DEF paid
<1>5. /\ entry'[i] = [entry[i] EXCEPT !.highest_bid_lamports = amount, !.winning_bid_pubkey = b]
      /\ \A j \in AuctionEntries : j # i => entry'[j] = entry[j]
      /\ entry' \in [AuctionEntries -> AuctionedEntry]
  BY <1>1, <1>2, <1>3 DEF TypeOK, AuctionedEntry
<1>6. TypeOK'
  BY <1>2, <1>3, <1>4, <1>5 DEF TypeOK, Accounts
<1>7. ASSUME NEW j \in AuctionEntries PROVE Proceeds(j)' /\ IsBacked(j)'
  <2>1. Proceeds(j) /\ IsBacked(j)
    BY DEF AuctionInv
  <2>2. CASE j = i
    <3>1. IsRevealed(entry[i])
      BY DEF Bid, StateOf, GetEntryStateAlone
    <3>2. amount # 0 /\ b \in {i} \X Users
      BY <1>1, <1>2
    <3>3. Proceeds(i)'
      BY <1>1, <1>2, <1>3, <1>5, <2>1, <2>2, <3>1, <3>2 DEF Proceeds, IsRevealed, AuctionedEntry
    <3>4. held'[b] >= amount
      BY <1>2, <1>3, <1>4 DEF TypeOK
    <3> QED
      BY <1>2, <1>5, <2>2, <3>3, <3>4 DEF IsBacked, AuctionedEntry
  <2>3. CASE j # i
    <3>1. entry'[j] = entry[j] /\ entry[j].winning_bid_pubkey # b
      <4>1. Zeroes # b
        BY <1>2, AuctionAssumption
      <4> QED
        BY <1>5, <2>1, <2>3, <4>1 DEF Proceeds
    <3>2. Proceeds(j)'
      BY <1>3, <2>1, <3>1 DEF Proceeds, IsRevealed
    <3>3. /\ entry[j].winning_bid_pubkey \in bids' => entry[j].winning_bid_pubkey \in bids
          /\ entry[j].winning_bid_pubkey \in bids =>
               held'[entry[j].winning_bid_pubkey] = held[entry[j].winning_bid_pubkey]
      <4> HIDE DEF b
      <4> QED BY <1>2, <1>3, <3>1 DEF TypeOK
    <3> QED
      BY <2>1, <3>1, <3>2, <3>3 DEF IsBacked
  <2> QED
    BY <2>2, <2>3
<1> QED
  BY <1>6, <1>7 DEF AuctionInv

\* A claim closes bid account b, and may sell entry i.
LEMMA ClosingInv ==
  ASSUME AuctionInv, TypeOK', NEW b \in bids,
         bids' = bids \ {b}, held' = [held EXCEPT ![b] = 0], now' = now,
         \A j \in AuctionEntries :
           \/ entry'[j] = entry[j]
           \/ /\ IsRevealed(entry[j])
              /\ \E price \in Nat : entry'[j] = [entry[j] EXCEPT !.purchase_price_lamports = price]
  PROVE  AuctionInv'
<1>1. ASSUME NEW j \in AuctionEntries PROVE Proceeds(j)' /\ IsBacked(j)'
  <2>1. /\ Proceeds(j) /\ IsBacked(j) /\ entry[j] \in AuctionedEntry
        /\ held \in [Bids -> Nat] /\ bids \subseteq Bids
    BY DEF AuctionInv, TypeOK
  <2>2. /\ entry'[j].has_auction = entry[j].has_auction
        /\ entry'[j].duration = entry[j].duration
        /\ entry'[j].minimum_price_lamports = entry[j].minimum_price_lamports
        /\ entry'[j].reveal_timestamp = entry[j].reveal_timestamp
        /\ entry'[j].reveal_sha256 = entry[j].reveal_sha256
        /\ entry'[j].highest_bid_lamports = entry[j].highest_bid_lamports
        /\ entry'[j].winning_bid_pubkey = entry[j].winning_bid_pubkey
        /\ entry'[j].purchase_price_lamports = entry[j].purchase_price_lamports
             \/ IsRevealed(entry[j])
    BY <2>1 DEF AuctionedEntry
  <2>3. Proceeds(j)'
    BY <2>1, <2>2 DEF Proceeds, IsRevealed
  <2>4. IsBacked(j)'
    BY <2>1, <2>2 DEF IsBacked
  <2> QED
    BY <2>3, <2>4
<1> QED
  BY <1>1 DEF AuctionInv

LEMMA ClaimLosingInv ==
  ASSUME AuctionInv, NEW i \in AuctionEntries, NEW u \in Users, NEW b \in Bids,
         NEW reclaim \in BOOLEAN, ClaimLosing(i, u, b, reclaim)
  PROVE  AuctionInv'
<1>1. TypeOK /\ held[b] \in Nat /\ lamports[u] \in Nat /\ b \in bids
  BY DEF AuctionInv, TypeOK, Accounts, ClaimLosing
<1>2. TypeOK'
  <2>1. u \in Accounts
    BY DEF Accounts
  <2>2. lamports' \in [Accounts -> Nat]
    BY <1>1, <2>1, PaidType DEF ClaimLosing
  <2>3. markers' \subseteq Bids
    BY <1>1 DEF TypeOK, ClaimLosing, ReclaimMarker
  <2> QED
    BY <1>1, <2>2, <2>3 DEF TypeOK, ClaimLosing
<1> QED
  BY <1>1, <1>2, ClosingInv DEF ClaimLosing

LEMMA ClaimWinningInv ==
  ASSUME AuctionInv, NEW i \in AuctionEntries, NEW u \in Users, NEW owner \in Users,
         NEW reclaim \in BOOLEAN, ClaimWinning(i, u, owner, reclaim)
  PROVE  AuctionInv'
<1> DEFINE b == <<i, u>>
<1>1. /\ TypeOK /\ held[b] \in Nat /\ lamports[Admin] \in Nat /\ b \in bids
      /\ entry[i] \in AuctionedEntry
  BY DEF AuctionInv, TypeOK, Accounts, ClaimWinning, Bids
<1>2. /\ entry' = [entry EXCEPT ![i].purchase_price_lamports = held[b]]
      /\ bids' = bids \ {b} /\ held' = [held EXCEPT ![b] = 0] /\ now' = now
  BY DEF ClaimWinning
<1>3. entry' \in [AuctionEntries -> AuctionedEntry]
  BY <1>1, <1>2 DEF TypeOK, AuctionedEntry
<1>4. TypeOK'
  <2>1. lamports' \in [Accounts -> Nat]
    BY <1>1, PaidType DEF ClaimWinning, Accounts
  <2>2. markers' \subseteq Bids
    BY <1>1 DEF TypeOK, ClaimWinning, ReclaimMarker
  <2> QED
    BY <1>1, <1>3, <2>1, <2>2 DEF TypeOK, ClaimWinning
<1>5. IsRevealed(entry[i])
  BY DEF ClaimWinning, Claimable, StateOf, GetEntryStateAlone
<1>6. \A j \in AuctionEntries :
        \/ entry'[j] = entry[j]
        \/ /\ IsRevealed(entry[j])
           /\ \E price \in Nat : entry'[j] = [entry[j] EXCEPT !.purchase_price_lamports = price]
  BY <1>1, <1>2, <1>5 DEF TypeOK
<1> QED
  BY <1>1, <1>2, <1>4, <1>6, ClosingInv

LEMMA BuyUnsoldInv ==
  ASSUME AuctionInv, NEW i \in AuctionEntries, NEW u \in Users, NEW owner \in Users,
         BuyUnsold(i, u, owner)
  PROVE  AuctionInv'
<1> DEFINE price == entry[i].minimum_price_lamports
<1>1. /\ TypeOK /\ lamports[Admin] \in Nat /\ lamports[u] \in Nat
      /\ entry[i] \in AuctionedEntry /\ price \in Nat /\ price <= lamports[u] /\ u # Admin
  BY AuctionAssumption DEF AuctionInv, TypeOK, Accounts, BuyUnsold, CanPay, AuctionedEntry
<1>2. /\ entry' = [entry EXCEPT ![i].purchase_price_lamports = price]
      /\ UNCHANGED <<bids, held, now>> /\ IsRevealed(entry[i])
  BY DEF BuyUnsold, StateOf, GetEntryStateAlone
<1>3. entry' \in [AuctionEntries -> AuctionedEntry]
  BY <1>1, <1>2 DEF TypeOK, AuctionedEntry
<1>4. TypeOK'
  <2>1. lamports[u] - price \in Nat /\ lamports[Admin] + price \in Nat
    BY <1>1
  <2>2. lamports' = [lamports EXCEPT ![u] = lamports[u] - price,
                                     ![Admin] = lamports[Admin] + price]
    BY DEF BuyUnsold
  <2>3. lamports' \in [Accounts -> Nat]
    <3> HIDE DEF price
    <3> QED BY <1>1, <2>1, <2>2 DEF TypeOK
  <2> QED
    BY <1>1, <1>3, <2>3 DEF TypeOK, BuyUnsold
<1>5. ASSUME NEW j \in AuctionEntries PROVE Proceeds(j)' /\ IsBacked(j)'
  <2>1. Proceeds(j) /\ IsBacked(j) /\ entry[j] \in AuctionedEntry
    BY DEF AuctionInv, TypeOK
  <2> QED
    BY <1>1, <1>2, <2>1 DEF TypeOK, Proceeds, IsBacked, IsRevealed, AuctionedEntry
<1> QED
  BY <1>4, <1>5 DEF AuctionInv

LEMMA DonateInv ==
  ASSUME AuctionInv, NEW u \in Users, NEW b \in Bids, NEW amount \in DonatedAmounts,
         Donate(u, b, amount)
  PROVE  AuctionInv'
<1>1. /\ TypeOK /\ held[b] \in Nat /\ lamports[u] \in Nat /\ amount \in Nat
      /\ amount <= lamports[u]
  BY AuctionAssumption DEF AuctionInv, TypeOK, Accounts, Donate, CanPay
<1>2. TypeOK'
  <2>1. u \in Accounts
    BY DEF Accounts
  <2>2. lamports' \in [Accounts -> Nat]
    BY <1>1, <2>1, PaidType DEF Donate
  <2>3. held[b] + amount \in Nat
    BY <1>1
  <2>4. held' \in [Bids -> Nat]
    BY <1>1, <2>3 DEF TypeOK, Donate
  <2> QED
    BY <1>1, <2>2, <2>4 DEF TypeOK, Donate
<1>3. ASSUME NEW j \in AuctionEntries PROVE Proceeds(j)' /\ IsBacked(j)'
  <2>1. Proceeds(j) /\ IsBacked(j) /\ entry[j] \in AuctionedEntry
    BY DEF AuctionInv, TypeOK
  <2>2. \A c \in bids : held'[c] >= held[c] /\ held'[c] \in Nat /\ held[c] \in Nat
    BY <1>1 DEF TypeOK, Donate
  <2>3. entry[j].highest_bid_lamports \in Nat
    BY <2>1 DEF AuctionedEntry
  <2>4. Proceeds(j)'
    BY <2>1 DEF Proceeds, IsRevealed, Donate
  <2>5. IsBacked(j)'
    BY <2>1, <2>2, <2>3 DEF IsBacked, Donate
  <2> QED
    BY <2>4, <2>5
<1> QED
  BY <1>2, <1>3 DEF AuctionInv

LEMMA AuctionNext ==
  ASSUME AuctionInv, [Next]_auctionVars
  PROVE  AuctionInv'
<1>1. CASE UNCHANGED auctionVars
  BY <1>1 DEF auctionVars, AuctionInv, TypeOK, Proceeds, IsBacked, IsRevealed
<1>2. ASSUME NEW i \in AuctionEntries, Reveal(i) PROVE AuctionInv'
  BY <1>2, RevealInv
<1>3. ASSUME NEW i \in AuctionEntries, NEW u \in Users, NEW minimum \in BidLimits \cup {0},
             NEW maximum \in BidLimits, Bid(i, u, minimum, maximum)
      PROVE  AuctionInv'
  BY <1>3, BidInv
<1>4. ASSUME NEW i \in AuctionEntries, NEW u \in Users, NEW b \in Bids, NEW reclaim \in BOOLEAN,
             ClaimLosing(i, u, b, reclaim)
      PROVE  AuctionInv'
  BY <1>4, ClaimLosingInv
<1>5. ASSUME NEW i \in AuctionEntries, NEW u \in Users, NEW owner \in Users,
             NEW reclaim \in BOOLEAN, ClaimWinning(i, u, owner, reclaim)
      PROVE  AuctionInv'
  BY <1>5, ClaimWinningInv
<1>6. ASSUME NEW i \in AuctionEntries, NEW u \in Users, NEW owner \in Users, BuyUnsold(i, u, owner)
      PROVE  AuctionInv'
  BY <1>6, BuyUnsoldInv
<1>7. ASSUME NEW u \in Users, NEW b \in Bids, NEW amount \in DonatedAmounts, Donate(u, b, amount)
      PROVE  AuctionInv'
  BY <1>7, DonateInv
<1>8. ASSUME NEW b \in Bids, DiscardMarker(b) PROVE AuctionInv'
  BY <1>8 DEF DiscardMarker, AuctionInv, TypeOK, Proceeds, IsBacked, IsRevealed
<1>9. CASE Tick
  <2>1. TypeOK'
    BY <1>9 DEF Tick, AuctionInv, TypeOK
  <2>2. ASSUME NEW i \in AuctionEntries PROVE Proceeds(i)' /\ IsBacked(i)'
    <3>1. Proceeds(i) /\ IsBacked(i) /\ entry[i] \in AuctionedEntry /\ now \in Nat
      BY DEF AuctionInv, TypeOK
    <3> QED
      BY <1>9, <3>1 DEF Tick, Proceeds, IsBacked, IsRevealed, AuctionedEntry
  <2> QED
    BY <2>1, <2>2 DEF AuctionInv
<1> QED
  BY <1>1, <1>2, <1>3, <1>4, <1>5, <1>6, <1>7, <1>8, <1>9 DEF Next

LEMMA AuctionInvariant == Spec => []AuctionInv
  BY AuctionInit, AuctionNext, PTL DEF Spec

(***************************************************************************)
(* No instruction takes more from an account than it has, and no entry is  *)
(* left in a state it cannot have.                                         *)
(***************************************************************************)
THEOREM AuctionTypeCorrect == Spec => []TypeOK
<1>1. AuctionInv => TypeOK
  BY DEF AuctionInv
<1> QED
  BY <1>1, AuctionInvariant, PTL

-----------------------------------------------------------------------------
(***************************************************************************)
(* The auctions implement the English auction.                             *)
(***************************************************************************)

\* The stage of an entry, by the fields that get_entry_state looks at.
LEMMA StageOfEntry ==
  ASSUME NEW i \in AuctionEntries, Proceeds(i), entry[i] \in AuctionedEntry
  PROVE  /\ Stage(i) = "Waiting" <=> ~IsRevealed(entry[i])
         /\ Stage(i) = "Sold" <=> IsRevealed(entry[i]) /\ IsPurchased(entry[i])
         /\ Stage(i) = "Open" <=> /\ IsRevealed(entry[i]) /\ ~IsPurchased(entry[i])
                                 /\ entry[i].reveal_timestamp + Duration > now
         /\ Stage(i) = "Closed" <=> /\ IsRevealed(entry[i]) /\ ~IsPurchased(entry[i])
                                   /\ ~(entry[i].reveal_timestamp + Duration > now)
         /\ StateOf(i) = "PreReveal" => Stage(i) = "Waiting"
         /\ StateOf(i) = "InAuction" => Stage(i) = "Open"
         /\ StateOf(i) = "WaitingToBeClaimed" =>
              Stage(i) = "Closed" /\ entry[i].highest_bid_lamports # 0
         /\ StateOf(i) = "Unowned" =>
              Stage(i) = "Closed" /\ entry[i].highest_bid_lamports = 0
BY DEF Stage, StateOf, GetEntryStateAlone, RevealedState, Proceeds

\* What is the same for an entry that the step does not change.
LEMMA SameStage ==
  ASSUME NEW i \in AuctionEntries, entry'[i] = entry[i], now' = now
  PROVE  Stage(i)' = Stage(i)
BY DEF Stage, StateOf, GetEntryStateAlone, RevealedState, IsRevealed, IsPurchased

\* A step of entry i only.
LEMMA OtherEntries ==
  ASSUME AuctionInv, NEW i \in AuctionEntries, now' = now,
         \A j \in AuctionEntries : j # i => entry'[j] = entry[j]
  PROVE  /\ Stages' = [Stages EXCEPT ![i] = Stage(i)']
         /\ Highs' = [Highs EXCEPT ![i] = entry'[i].highest_bid_lamports]
         /\ Sold' = [Sold EXCEPT ![i] = entry'[i].purchase_price_lamports]
<1>1. \A j \in AuctionEntries : j # i => Stage(j)' = Stage(j)
  BY SameStage
<1>2. Stages' = [j \in AuctionEntries |-> Stage(j)']
  BY DEF Stages
<1>3. Stages' = [Stages EXCEPT ![i] = Stage(i)']
  BY <1>1, <1>2 DEF Stages
<1> QED
  BY <1>3 DEF Highs, Sold

LEMMA NothingSeen ==
  ASSUME UNCHANGED <<now, entry>>
  PROVE  UNCHANGED <<Stages, Highs, Sold>>
BY DEF Stages, Highs, Sold, Stage, StateOf, GetEntryStateAlone, RevealedState, IsRevealed, IsPurchased

LEMMA RevealStarts ==
  ASSUME AuctionInv, AuctionInv', NEW i \in AuctionEntries, Reveal(i)
  PROVE  English!Start(i)
<1>1. /\ entry \in [AuctionEntries -> AuctionedEntry] /\ Proceeds(i) /\ Proceeds(i)'
      /\ entry'[i] \in AuctionedEntry /\ now \in Nat /\ now' = now
  BY DEF AuctionInv, TypeOK, Reveal
<1>2. /\ entry'[i] = [entry[i] EXCEPT !.reveal_timestamp = now, !.reveal_sha256 = Zeroes]
      /\ \A j \in AuctionEntries : j # i => entry'[j] = entry[j]
  BY <1>1 DEF Reveal
<1>3. Stage(i) = "Waiting" /\ ~IsRevealed(entry[i])
  BY <1>1, StageOfEntry DEF Reveal
<1>4. Stage(i)' = "Open"
  BY <1>1, <1>2, <1>3, AuctionAssumption
     DEF Stage, StateOf, GetEntryStateAlone, RevealedState, IsRevealed, IsPurchased, Proceeds,
         AuctionedEntry
<1>5. Highs' = Highs /\ Sold' = Sold
  BY <1>1, <1>2 DEF Highs, Sold, AuctionedEntry
<1>6. Stages' = [Stages EXCEPT ![i] = "Open"]
  BY <1>1, <1>2, <1>4, OtherEntries
<1>7. Stages[i] = "Waiting"
  BY <1>3 DEF Stages
<1> QED
  BY <1>5, <1>6, <1>7 DEF English!Start

LEMMA BidOutbids ==
  ASSUME AuctionInv, NEW i \in AuctionEntries, NEW u \in Users,
         NEW minimum \in BidLimits \cup {0}, NEW maximum \in BidLimits,
         Bid(i, u, minimum, maximum)
  PROVE  English!Outbid(i)
<1> DEFINE amount == BidAmount(i, minimum)
<1>1. amount \in Nat /\ amount >= MinimumPrice /\ amount > entry[i].highest_bid_lamports
  BY AcceptedBid
<1>2. /\ entry \in [AuctionEntries -> AuctionedEntry] /\ Proceeds(i) /\ now' = now
      /\ entry' = [entry EXCEPT ![i].highest_bid_lamports = amount,
                                ![i].winning_bid_pubkey = <<i, u>>]
  BY DEF AuctionInv, TypeOK, Bid
<1> HIDE DEF amount
<1>3. /\ entry'[i] = [entry[i] EXCEPT !.highest_bid_lamports = amount, !.winning_bid_pubkey = <<i, u>>]
      /\ \A j \in AuctionEntries : j # i => entry'[j] = entry[j]
  BY <1>2
<1>4. /\ Stage(i) = "Open" /\ IsRevealed(entry[i]) /\ ~IsPurchased(entry[i])
      /\ StateOf(i) = "InAuction"
  BY <1>2, StageOfEntry DEF Bid
<1>5. /\ entry'[i].highest_bid_lamports = amount
      /\ entry'[i].purchase_price_lamports = entry[i].purchase_price_lamports
      /\ entry'[i].reveal_sha256 = entry[i].reveal_sha256
      /\ entry'[i].reveal_timestamp = entry[i].reveal_timestamp
      /\ entry'[i].duration = entry[i].duration
      /\ entry'[i].has_auction = entry[i].has_auction
  BY <1>2, <1>3 DEF AuctionedEntry
<1>6. entry[i].reveal_timestamp + entry[i].duration > now
  BY <1>2, <1>4, StageOfEntry DEF Proceeds
<1>7. Stage(i)' = "Open"
  BY <1>2, <1>4, <1>5, <1>6
     DEF Stage, StateOf, GetEntryStateAlone, RevealedState, IsRevealed, IsPurchased, Proceeds
<1>8. Stages' = [Stages EXCEPT ![i] = "Open"] /\ Stages[i] = "Open"
  BY <1>2, <1>3, <1>4, <1>7, OtherEntries DEF Stages
<1>9. Stages' = Stages
  BY <1>8 DEF Stages
<1>10. Sold' = Sold
  BY <1>2, <1>3, <1>5 DEF Sold
<1>11. Highs' = [Highs EXCEPT ![i] = amount] /\ Highs[i] = entry[i].highest_bid_lamports
  BY <1>2, <1>3, <1>5, OtherEntries DEF Highs
<1>12. Highs'[i] = amount
  BY <1>11 DEF Highs
<1> QED
  BY <1>1, <1>8, <1>9, <1>10, <1>11, <1>12 DEF English!Outbid

\* A sale of entry i for a price that the abstract auction allows.
LEMMA SaleSells ==
  ASSUME AuctionInv, NEW i \in AuctionEntries, NEW amount \in Nat \ {0}, now' = now,
         entry' = [entry EXCEPT ![i].purchase_price_lamports = amount],
         Stage(i) = "Closed",
         IF entry[i].highest_bid_lamports = 0 THEN amount = MinimumPrice
                                              ELSE amount >= entry[i].highest_bid_lamports
  PROVE  English!Sell(i)
<1>1. /\ entry \in [AuctionEntries -> AuctionedEntry] /\ Proceeds(i)
  BY DEF AuctionInv, TypeOK
<1>2. /\ entry'[i] = [entry[i] EXCEPT !.purchase_price_lamports = amount]
      /\ \A j \in AuctionEntries : j # i => entry'[j] = entry[j]
  BY <1>1
<1>3. /\ entry'[i].purchase_price_lamports = amount
      /\ entry'[i].highest_bid_lamports = entry[i].highest_bid_lamports
      /\ entry'[i].reveal_sha256 = entry[i].reveal_sha256
  BY <1>1, <1>2 DEF AuctionedEntry
<1>4. IsRevealed(entry[i])
  BY <1>1, StageOfEntry
<1>5. Stage(i)' = "Sold"
  BY <1>3, <1>4 DEF Stage, IsRevealed, IsPurchased
<1>6. Stages' = [Stages EXCEPT ![i] = "Sold"] /\ Stages[i] = "Closed"
  BY <1>2, <1>5, OtherEntries DEF Stages
<1>7. Highs' = Highs /\ Highs[i] = entry[i].highest_bid_lamports
  BY <1>2, <1>3 DEF Highs
<1>8. Sold' = [Sold EXCEPT ![i] = amount] /\ Sold'[i] = amount
  BY <1>2, <1>3, OtherEntries DEF Sold
<1> QED
  BY <1>6, <1>7, <1>8 DEF English!Sell

LEMMA ClaimWinningSells ==
  ASSUME AuctionInv, NEW i \in AuctionEntries, NEW u \in Users, NEW owner \in Users,
         NEW reclaim \in BOOLEAN, ClaimWinning(i, u, owner, reclaim)
  PROVE  English!Sell(i)
<1> DEFINE b == <<i, u>>
<1>1. /\ entry[i] \in AuctionedEntry /\ Proceeds(i) /\ IsBacked(i) /\ held[b] \in Nat
      /\ entry[i].highest_bid_lamports \in Nat
  BY DEF AuctionInv, TypeOK, Bids, AuctionedEntry
<1>2. /\ entry' = [entry EXCEPT ![i].purchase_price_lamports = held[b]] /\ now' = now
      /\ b = entry[i].winning_bid_pubkey /\ b \in bids
  BY DEF ClaimWinning, IsWinner
<1>3. Stage(i) = "Closed" /\ entry[i].highest_bid_lamports # 0
  BY <1>1, StageOfEntry DEF ClaimWinning, Claimable
<1>4. held[b] >= entry[i].highest_bid_lamports /\ held[b] \in Nat \ {0}
  BY <1>1, <1>2, <1>3 DEF IsBacked
<1> QED
  BY <1>2, <1>3, <1>4, SaleSells

LEMMA BuyUnsoldSells ==
  ASSUME AuctionInv, NEW i \in AuctionEntries, NEW u \in Users, NEW owner \in Users,
         BuyUnsold(i, u, owner)
  PROVE  English!Sell(i)
<1>1. /\ entry[i] \in AuctionedEntry /\ Proceeds(i)
      /\ MinimumPrice \in Nat \ {0}
  BY AuctionAssumption DEF AuctionInv, TypeOK
<1>2. /\ entry' = [entry EXCEPT ![i].purchase_price_lamports = MinimumPrice] /\ now' = now
  BY <1>1 DEF BuyUnsold, Proceeds
<1>3. Stage(i) = "Closed" /\ entry[i].highest_bid_lamports = 0
  BY <1>1, StageOfEntry DEF BuyUnsold
<1> QED
  BY <1>1, <1>2, <1>3, SaleSells

LEMMA TickCloses ==
  ASSUME AuctionInv, AuctionInv', Tick
  PROVE  \E ended \in SUBSET AuctionEntries : English!Close(ended)
<1> DEFINE ended == {i \in AuctionEntries : Stage(i) = "Open" /\ Stage(i)' # "Open"}
<1>1. ASSUME NEW i \in AuctionEntries
      PROVE  Stage(i)' = IF i \in ended THEN "Closed" ELSE Stage(i)
  <2>1. /\ entry[i] \in AuctionedEntry /\ Proceeds(i) /\ entry'[i] = entry[i] /\ Proceeds(i)'
        /\ now \in Nat /\ now' = now + 1 /\ entry[i].reveal_timestamp + Duration \in Nat
    BY AuctionAssumption DEF AuctionInv, TypeOK, Tick, AuctionedEntry
  <2>2. CASE ~IsRevealed(entry[i])
    BY <2>1, <2>2 DEF Stage
  <2>3. CASE IsRevealed(entry[i]) /\ IsPurchased(entry[i])
    BY <2>1, <2>3 DEF Stage
  <2>4. CASE IsRevealed(entry[i]) /\ ~IsPurchased(entry[i])
    <3>1. /\ Stage(i) = IF entry[i].reveal_timestamp + Duration > now THEN "Open" ELSE "Closed"
          /\ Stage(i)' = IF entry[i].reveal_timestamp + Duration > now + 1 THEN "Open" ELSE "Closed"
      BY <2>1, <2>4 DEF Stage, StateOf, GetEntryStateAlone, RevealedState, Proceeds
    <3> QED
      BY <2>1, <3>1
  <2> QED
    BY <2>2, <2>3, <2>4
<1>2. Stages' = [i \in AuctionEntries |-> IF i \in ended THEN "Closed" ELSE Stages[i]]
  BY <1>1 DEF Stages
<1>3. \A i \in ended : Stages[i] = "Open"
  BY DEF Stages
<1>4. Highs' = Highs /\ Sold' = Sold
  BY DEF Tick, Highs, Sold
<1> HIDE DEF ended
<1>5. English!Close(ended)
  BY <1>2, <1>3, <1>4 DEF English!Close
<1>6. ended \in SUBSET AuctionEntries
  BY DEF ended
<1> QED
  BY <1>5, <1>6

LEMMA EnglishInit ==
  ASSUME Init
  PROVE  English!Init
BY AuctionAssumption DEF Init, UnsoldEntry, English!Init, Stages, Highs, Sold, Stage, IsRevealed

LEMMA EnglishStep ==
  ASSUME AuctionInv, [Next]_auctionVars
  PROVE  English!Next \/ UNCHANGED <<Stages, Highs, Sold>>
<1>1. CASE UNCHANGED <<now, entry>>
  BY <1>1, NothingSeen
<1>2. AuctionInv'
  BY AuctionNext
<1>3. ASSUME NEW i \in AuctionEntries, Reveal(i) PROVE English!Next
  BY <1>2, <1>3, RevealStarts DEF English!Next
<1>4. ASSUME NEW i \in AuctionEntries, NEW u \in Users, NEW minimum \in BidLimits \cup {0},
             NEW maximum \in BidLimits, Bid(i, u, minimum, maximum)
      PROVE  English!Next
  BY <1>4, BidOutbids DEF English!Next
<1>5. ASSUME NEW i \in AuctionEntries, NEW u \in Users, NEW owner \in Users,
             NEW reclaim \in BOOLEAN, ClaimWinning(i, u, owner, reclaim)
      PROVE  English!Next
  BY <1>5, ClaimWinningSells DEF English!Next
<1>6. ASSUME NEW i \in AuctionEntries, NEW u \in Users, NEW owner \in Users, BuyUnsold(i, u, owner)
      PROVE  English!Next
  BY <1>6, BuyUnsoldSells DEF English!Next
<1>7. CASE Tick
  BY <1>2, <1>7, TickCloses DEF English!Next
<1> QED
  BY <1>1, <1>3, <1>4, <1>5, <1>6, <1>7
     DEF Next, ClaimLosing, Donate, DiscardMarker, auctionVars

(***************************************************************************)
(* Each entry goes through one English auction: bids only rise, none comes *)
(* late, and it is sold once, not before the end, for no less than the     *)
(* highest bid, or for the minimum price when there was none.              *)
(***************************************************************************)
THEOREM AuctionIsEnglish == Spec => EnglishSpec
<1>1. Init => English!Init
  BY EnglishInit
<1>2. AuctionInv /\ [Next]_auctionVars => [English!Next]_<<Stages, Highs, Sold>>
  BY EnglishStep
<1> QED
  BY <1>1, <1>2, AuctionInvariant, PTL DEF Spec, EnglishSpec, English!Spec

-----------------------------------------------------------------------------
(***************************************************************************)
(* The bid accounts of an entry, when nobody sends lamports to them.       *)
(***************************************************************************)

\* An address where there is no bid account holds nothing, the winning bid
\* account holds the highest bid, and the others less.
OnlyBids ==
  /\ \A b \in Bids : b \notin bids => held[b] = 0
  /\ \A i \in AuctionEntries :
       entry[i].winning_bid_pubkey \in bids =>
         held[entry[i].winning_bid_pubkey] = entry[i].highest_bid_lamports
  /\ LosingBidsAreLower

\* A step that leaves the bids of all entries, or closes bid accounts.
LEMMA OnlyBidsRemain ==
  ASSUME AuctionInv, OnlyBids, bids' \subseteq bids,
         \A b \in Bids : held'[b] = IF b \in bids /\ b \notin bids' THEN 0 ELSE held[b],
         \A i \in AuctionEntries :
           /\ entry'[i].highest_bid_lamports = entry[i].highest_bid_lamports
           /\ entry'[i].winning_bid_pubkey = entry[i].winning_bid_pubkey
  PROVE  OnlyBids'
<1>1. bids \subseteq Bids
  BY DEF AuctionInv, TypeOK
<1>2. \A b \in Bids : b \notin bids' => held'[b] = 0
  BY DEF OnlyBids
<1>3. \A i \in AuctionEntries :
        entry'[i].winning_bid_pubkey \in bids' =>
          held'[entry'[i].winning_bid_pubkey] = entry'[i].highest_bid_lamports
  BY <1>1 DEF OnlyBids
<1>4. LosingBidsAreLower'
  BY <1>1 DEF OnlyBids, LosingBidsAreLower, Bids
<1> QED
  BY <1>2, <1>3, <1>4 DEF OnlyBids

LEMMA BidOnlyBids ==
  ASSUME AuctionInv, OnlyBids, NEW i \in AuctionEntries, NEW u \in Users,
         NEW minimum \in BidLimits \cup {0}, NEW maximum \in BidLimits,
         Bid(i, u, minimum, maximum)
  PROVE  OnlyBids'
<1> DEFINE b      == <<i, u>>
           amount == BidAmount(i, minimum)
           paid   == Funding(b, amount)
<1>1. amount \in Nat /\ amount > entry[i].highest_bid_lamports
  BY AcceptedBid
<1>2. /\ TypeOK /\ b \in Bids /\ entry[i] \in AuctionedEntry /\ Proceeds(i)
      /\ entry[i].highest_bid_lamports \in Nat /\ held[b] \in Nat
  BY DEF AuctionInv, TypeOK, Bids, AuctionedEntry
<1>3. /\ bids' = bids \cup {b}
      /\ held' = [held EXCEPT ![b] = held[b] + paid]
      /\ entry' = [entry EXCEPT ![i].highest_bid_lamports = amount,
                                ![i].winning_bid_pubkey = b]
      /\ paid <= lamports[u]
  BY DEF Bid, CanPay
<1> HIDE DEF amount
<1>4. held[b] <= entry[i].highest_bid_lamports
  <2>1. CASE b \notin bids
    BY <1>2, <2>1 DEF OnlyBids
  <2>2. CASE b \in bids /\ entry[i].winning_bid_pubkey = b
    BY <1>2, <2>2 DEF OnlyBids
  <2>3. CASE b \in bids /\ entry[i].winning_bid_pubkey # b
    BY <1>2, <2>3 DEF OnlyBids, LosingBidsAreLower
  <2> QED
    BY <2>1, <2>2, <2>3
<1>5. held[b] + paid = amount
  BY <1>1, <1>2, <1>3, <1>4, FundedBid
<1> HIDE DEF paid
<1>6. held'[b] = amount /\ \A c \in Bids : c # b => held'[c] = held[c]
  BY <1>2, <1>3, <1>5 DEF TypeOK
<1>7. /\ entry'[i].highest_bid_lamports = amount /\ entry'[i].winning_bid_pubkey = b
      /\ \A j \in AuctionEntries : j # i => entry'[j] = entry[j]
  BY <1>2, <1>3 DEF TypeOK, AuctionedEntry
<1>8. \A c \in Bids : c \notin bids' => held'[c] = 0
  BY <1>3, <1>6 DEF OnlyBids
<1>9. ASSUME NEW j \in AuctionEntries, entry'[j].winning_bid_pubkey \in bids'
      PROVE  held'[entry'[j].winning_bid_pubkey] = entry'[j].highest_bid_lamports
  <2>1. CASE j = i
    BY <1>6, <1>7, <2>1
  <2>2. CASE j # i
    <3>1. entry'[j] = entry[j] /\ Proceeds(j)
      BY <1>7, <2>2 DEF AuctionInv
    <3>2. entry[j].winning_bid_pubkey # b
      BY <1>2, <2>2, <3>1, AuctionAssumption DEF Proceeds
    <3>3. entry[j].winning_bid_pubkey \in bids /\ entry[j].winning_bid_pubkey \in Bids
      <4>1. bids' = bids \cup {b} /\ bids \subseteq Bids
        BY <1>2, <1>3 DEF TypeOK
      <4>2. entry[j].winning_bid_pubkey \in bids'
        BY <1>9, <3>1
      <4> HIDE DEF b
      <4> QED
        BY <3>2, <4>1, <4>2
    <3> QED
      BY <1>6, <3>1, <3>2, <3>3 DEF OnlyBids
  <2> QED
    BY <2>1, <2>2
<1>10. ASSUME NEW j \in AuctionEntries, NEW v \in Users,
              <<j, v>> \in bids', entry'[j].winning_bid_pubkey # <<j, v>>
       PROVE  held'[<<j, v>>] < entry'[j].highest_bid_lamports
  <2> DEFINE c == <<j, v>>
  <2>1. c # b /\ c \in Bids
    BY <1>7, <1>10 DEF Bids
  <2>2. c \in bids /\ held'[c] = held[c] /\ held[c] \in Nat
    <3> HIDE DEF b, c
    <3>1. c \in bids'
      BY <1>10 DEF c
    <3> QED BY <1>2, <1>3, <1>6, <2>1, <3>1 DEF TypeOK
  <2>3. CASE j = i
    <3>1. held[c] <= entry[i].highest_bid_lamports
      <4>1. CASE entry[i].winning_bid_pubkey = c
        BY <1>2, <2>2, <4>1 DEF OnlyBids
      <4>2. CASE entry[i].winning_bid_pubkey # c
        BY <1>2, <2>2, <2>3, <4>2 DEF OnlyBids, LosingBidsAreLower
      <4> QED
        BY <4>1, <4>2
    <3> QED
      BY <1>1, <1>2, <1>7, <2>2, <2>3, <3>1
  <2>4. CASE j # i
    BY <1>7, <1>10, <2>2, <2>4 DEF OnlyBids, LosingBidsAreLower
  <2> QED
    BY <2>3, <2>4
<1>11. LosingBidsAreLower'
  BY <1>10 DEF LosingBidsAreLower
<1> QED
  BY <1>8, <1>9, <1>11 DEF OnlyBids

LEMMA OnlyBidsStep ==
  ASSUME AuctionInv, OnlyBids, [Next]_auctionVars, DonatedAmounts = {}
  PROVE  OnlyBids'
<1>1. /\ bids \subseteq Bids /\ held \in [Bids -> Nat]
      /\ entry \in [AuctionEntries -> AuctionedEntry]
  BY DEF AuctionInv, TypeOK
<1>2. CASE UNCHANGED <<entry, bids, held>>
  BY <1>2, OnlyBidsRemain
<1>3. ASSUME NEW i \in AuctionEntries, Reveal(i) PROVE OnlyBids'
  <2>1. \A j \in AuctionEntries :
          /\ entry'[j].highest_bid_lamports = entry[j].highest_bid_lamports
          /\ entry'[j].winning_bid_pubkey = entry[j].winning_bid_pubkey
    BY <1>1, <1>3 DEF Reveal, AuctionedEntry
  <2>2. UNCHANGED <<bids, held>>
    BY <1>3 DEF Reveal
  <2> QED
    BY <2>1, <2>2, OnlyBidsRemain
<1>4. ASSUME NEW i \in AuctionEntries, NEW u \in Users, NEW minimum \in BidLimits \cup {0},
             NEW maximum \in BidLimits, Bid(i, u, minimum, maximum)
      PROVE  OnlyBids'
  BY <1>4, BidOnlyBids
<1>5. ASSUME NEW i \in AuctionEntries, NEW u \in Users, NEW b \in Bids, NEW reclaim \in BOOLEAN,
             ClaimLosing(i, u, b, reclaim)
      PROVE  OnlyBids'
  <2>1. b \in bids /\ bids' = bids \ {b} /\ held' = [held EXCEPT ![b] = 0] /\ entry' = entry
    BY <1>5 DEF ClaimLosing
  <2>2. \A c \in Bids : held'[c] = IF c \in bids /\ c \notin bids' THEN 0 ELSE held[c]
    BY <1>1, <2>1
  <2> QED
    BY <2>1, <2>2, OnlyBidsRemain
<1>6. ASSUME NEW i \in AuctionEntries, NEW u \in Users, NEW owner \in Users,
             NEW reclaim \in BOOLEAN, ClaimWinning(i, u, owner, reclaim)
      PROVE  OnlyBids'
  <2> DEFINE b == <<i, u>>
  <2>1. /\ b \in bids /\ bids' = bids \ {b} /\ held' = [held EXCEPT ![b] = 0]
        /\ entry' = [entry EXCEPT ![i].purchase_price_lamports = held[b]]
    BY <1>6 DEF ClaimWinning
  <2> HIDE DEF b
  <2>2. \A c \in Bids : held'[c] = IF c \in bids /\ c \notin bids' THEN 0 ELSE held[c]
    BY <1>1, <2>1
  <2>3. \A j \in AuctionEntries :
          /\ entry'[j].highest_bid_lamports = entry[j].highest_bid_lamports
          /\ entry'[j].winning_bid_pubkey = entry[j].winning_bid_pubkey
    BY <1>1, <2>1 DEF AuctionedEntry
  <2>4. bids' \subseteq bids
    BY <2>1
  <2> QED
    BY <2>2, <2>3, <2>4, OnlyBidsRemain
<1>7. ASSUME NEW i \in AuctionEntries, NEW u \in Users, NEW owner \in Users, BuyUnsold(i, u, owner)
      PROVE  OnlyBids'
  <2>1. \A j \in AuctionEntries :
          /\ entry'[j].highest_bid_lamports = entry[j].highest_bid_lamports
          /\ entry'[j].winning_bid_pubkey = entry[j].winning_bid_pubkey
    BY <1>1, <1>7 DEF BuyUnsold, AuctionedEntry
  <2>2. UNCHANGED <<bids, held>>
    BY <1>7 DEF BuyUnsold
  <2> QED
    BY <2>1, <2>2, OnlyBidsRemain
<1> QED
  BY <1>2, <1>3, <1>4, <1>5, <1>6, <1>7 DEF Next, DiscardMarker, Tick, auctionVars

(***************************************************************************)
(* When lamports come to bid accounts by bids only, every losing bid is    *)
(* lower than the bid that the entry remembers as the highest.             *)
(***************************************************************************)
THEOREM LosingBidsStayLower ==
  ASSUME DonatedAmounts = {}
  PROVE  Spec => []LosingBidsAreLower
<1>1. Init => OnlyBids
  BY AuctionAssumption DEF Init, OnlyBids, LosingBidsAreLower
<1>2. AuctionInv /\ OnlyBids /\ [Next]_auctionVars => OnlyBids'
  BY OnlyBidsStep
<1>3. OnlyBids => LosingBidsAreLower
  BY DEF OnlyBids
<1> QED
  BY <1>1, <1>2, <1>3, AuctionInvariant, PTL DEF Spec

-----------------------------------------------------------------------------
(***************************************************************************)
(* The highest bid of an entry k.                                          *)
(***************************************************************************)

\* What a step may do to it.
BidIsSafe(k) ==
  /\ entry'[k].highest_bid_lamports # entry[k].highest_bid_lamports => IsHeld(k)'
  /\ IsHeld(k) => IsHeld(k)' \/ SoldForItsBid(k) \/ TakenBackElsewhere(k)

\* By IsBacked it is enough that the winning bid account stays there.
LEMMA SafeWhenKept ==
  ASSUME AuctionInv, AuctionInv', NEW k \in AuctionEntries,
         entry'[k].highest_bid_lamports = entry[k].highest_bid_lamports,
         entry'[k].winning_bid_pubkey = entry[k].winning_bid_pubkey,
         entry[k].winning_bid_pubkey \in bids => entry[k].winning_bid_pubkey \in bids'
  PROVE  BidIsSafe(k)
<1>1. IsBacked(k)'
  BY DEF AuctionInv
<1> QED
  BY <1>1 DEF BidIsSafe, IsHeld, IsBacked

LEMMA BidIsHeldWhenMade ==
  ASSUME AuctionInv, AuctionInv', NEW i \in AuctionEntries, NEW u \in Users,
         NEW minimum \in BidLimits \cup {0}, NEW maximum \in BidLimits,
         Bid(i, u, minimum, maximum), NEW k \in AuctionEntries
  PROVE  BidIsSafe(k)
<1> DEFINE b == <<i, u>>
           amount == BidAmount(i, minimum)
<1>1. /\ entry' = [entry EXCEPT ![i].highest_bid_lamports = amount, ![i].winning_bid_pubkey = b]
      /\ bids' = bids \cup {b}
      /\ entry \in [AuctionEntries -> AuctionedEntry] /\ IsBacked(k)'
  BY DEF Bid, AuctionInv, TypeOK
<1> HIDE DEF b, amount
<1>2. CASE k = i
  <2>1. entry'[k].winning_bid_pubkey = b
    BY <1>1, <1>2 DEF AuctionedEntry
  <2> QED
    BY <1>1, <2>1 DEF BidIsSafe, IsHeld, IsBacked
<1>3. CASE k # i
  <2>1. entry'[k] = entry[k]
    BY <1>1, <1>3
  <2> QED
    BY <1>1, <2>1, SafeWhenKept
<1> QED
  BY <1>2, <1>3

\* A claim of the winning bid as a losing one must name another entry.
LEMMA ClaimedElsewhere ==
  ASSUME AuctionInv, AuctionInv', NEW i \in AuctionEntries, NEW u \in Users, NEW b \in Bids,
         NEW reclaim \in BOOLEAN, ClaimLosing(i, u, b, reclaim), NEW k \in AuctionEntries
  PROVE  BidIsSafe(k)
<1>1. /\ bids' = bids \ {b} /\ entry' = entry /\ b \in bids /\ b[2] = u
      /\ lamports' = [lamports EXCEPT ![u] = lamports[u] + held[b]]
      /\ MayHaveLosers(i) /\ NotTheWinner(i, b)
      /\ lamports \in [Accounts -> Nat] /\ u \in Accounts
  BY DEF ClaimLosing, AuctionInv, TypeOK, Accounts
<1>2. CASE b = entry[k].winning_bid_pubkey
  <2>1. i # k
    BY <1>1, <1>2 DEF NotTheWinner
  <2>2. lamports'[b[2]] = lamports[b[2]] + held[b] /\ b \in bids \ bids'
    BY <1>1
  <2>3. TakenBackElsewhere(k)
    BY <1>1, <1>2, <2>1, <2>2 DEF TakenBackElsewhere
  <2> QED
    BY <1>1, <2>3 DEF BidIsSafe
<1>3. CASE b # entry[k].winning_bid_pubkey
  BY <1>1, <1>3, SafeWhenKept
<1> QED
  BY <1>2, <1>3

\* A claim of the winning bid sells the entry for all that the account holds.
LEMMA ClaimedBySale ==
  ASSUME AuctionInv, AuctionInv', NEW i \in AuctionEntries, NEW u \in Users, NEW owner \in Users,
         NEW reclaim \in BOOLEAN, ClaimWinning(i, u, owner, reclaim), NEW k \in AuctionEntries
  PROVE  BidIsSafe(k)
<1> DEFINE b == <<i, u>>
<1>1. /\ entry' = [entry EXCEPT ![i].purchase_price_lamports = held[b]]
      /\ bids' = bids \ {b} /\ b = entry[i].winning_bid_pubkey
      /\ entry \in [AuctionEntries -> AuctionedEntry] /\ entry[k] \in AuctionedEntry
      /\ Proceeds(k)
  BY DEF ClaimWinning, IsWinner, AuctionInv, TypeOK
<1>2. /\ entry'[k].highest_bid_lamports = entry[k].highest_bid_lamports
      /\ entry'[k].winning_bid_pubkey = entry[k].winning_bid_pubkey
  BY <1>1 DEF AuctionedEntry
<1>3. CASE k = i
  <2>1. SoldForItsBid(k)
    BY <1>1, <1>3 DEF SoldForItsBid, AuctionedEntry
  <2> QED
    BY <1>2, <2>1 DEF BidIsSafe
<1>4. CASE k # i
  <2>1. entry[k].winning_bid_pubkey \in {k} \X Users \cup {Zeroes}
    BY <1>1 DEF Proceeds
  <2>2. b # Zeroes
    BY AuctionAssumption DEF Bids
  <2>3. entry[k].winning_bid_pubkey # b
    BY <1>4, <2>1, <2>2
  <2> QED
    BY <1>1, <1>2, <2>3, SafeWhenKept
<1> QED
  BY <1>3, <1>4

(***************************************************************************)
(* With any number of auctions: a highest bid is in its account when it is *)
(* made, and can only leave it by the sale of the entry for it, or back to *)
(* its bidder in a claim at another entry.                                 *)
(***************************************************************************)
THEOREM HighestBidsAreKept == Spec => HighestBidIsHeld
<1>1. AuctionInv /\ AuctionInv' /\ [Next]_auctionVars
        => [\A k \in AuctionEntries : BidIsSafe(k)]_auctionVars
  <2> SUFFICES ASSUME AuctionInv, AuctionInv', Next, NEW k \in AuctionEntries
               PROVE  BidIsSafe(k)
    OBVIOUS
  <2>1. entry \in [AuctionEntries -> AuctionedEntry] /\ entry[k] \in AuctionedEntry
    BY DEF AuctionInv, TypeOK
  <2>2. CASE UNCHANGED <<entry, bids>>
    BY <2>2, SafeWhenKept
  <2>3. ASSUME NEW i \in AuctionEntries, Reveal(i) PROVE BidIsSafe(k)
    BY <2>1, <2>3, SafeWhenKept DEF Reveal, AuctionedEntry
  <2>4. ASSUME NEW i \in AuctionEntries, NEW u \in Users, NEW owner \in Users,
               BuyUnsold(i, u, owner)
        PROVE  BidIsSafe(k)
    BY <2>1, <2>4, SafeWhenKept DEF BuyUnsold, AuctionedEntry
  <2> QED
    BY <2>2, <2>3, <2>4, BidIsHeldWhenMade, ClaimedElsewhere, ClaimedBySale
       DEF Next, Donate, DiscardMarker, Tick
<1>2. [\A k \in AuctionEntries : BidIsSafe(k)]_auctionVars
        => [\A i \in AuctionEntries :
              /\ entry'[i].highest_bid_lamports # entry[i].highest_bid_lamports => IsHeld(i)'
              /\ IsHeld(i) => IsHeld(i)' \/ SoldForItsBid(i) \/ TakenBackElsewhere(i)]_auctionVars
  BY DEF BidIsSafe
<1> QED
  BY <1>1, <1>2, AuctionInvariant, PTL DEF Spec, HighestBidIsHeld

-----------------------------------------------------------------------------
(***************************************************************************)
(* What a user owns.  A user's lamports and bid accounts change by one     *)
(* instruction at one entry at most.                                       *)
(***************************************************************************)

InBids(u) == [i \in AuctionEntries |-> held[<<i, u>>]]

\* One bid account of u changes: the lamports in all of them change by as much.
LEMMA WealthMoves ==
  ASSUME TypeOK, TypeOK', NEW u \in Users, NEW k \in AuctionEntries,
         \A i \in AuctionEntries : i # k => held'[<<i, u>>] = held[<<i, u>>]
  PROVE  /\ Wealth(u) \in Nat /\ Wealth(u)' \in Nat
         /\ Wealth(u)' + lamports[u] + held[<<k, u>>]
              = Wealth(u) + lamports'[u] + held'[<<k, u>>]
<1> DEFINE n == Cardinality(AuctionEntries)
           f == InBids(u)
           g == InBids(u)'
<1>1. n \in Nat /\ AuctionEntries = 0..(n - 1)
  BY EntryIndicesAssumption
<1>2. /\ \A i \in AuctionEntries : <<i, u>> \in Bids
      /\ \A i \in AuctionEntries : held[<<i, u>>] \in Nat /\ held'[<<i, u>>] \in Nat
      /\ lamports[u] \in Nat /\ lamports'[u] \in Nat
  BY DEF TypeOK, Bids, Accounts
<1>3. /\ f \in [AuctionEntries -> Nat] /\ g \in [AuctionEntries -> Nat]
      /\ \A i \in AuctionEntries : f[i] = held[<<i, u>>] /\ g[i] = held'[<<i, u>>]
  BY <1>2 DEF InBids
<1>4. Wealth(u) = lamports[u] + SumTo(f, n) /\ Wealth(u)' = lamports'[u] + SumTo(g, n)
  BY DEF Wealth, InBids
<1> HIDE DEF f, g, n
<1>5. SumTo(f, n) \in Nat /\ SumTo(g, n) \in Nat
  BY <1>1, <1>3, SumToNat
<1>6. SumTo(f, n) + g[k] = SumTo(g, n) + f[k]
  BY <1>1, <1>3, SumToUpdate
<1> QED BY <1>2, <1>3, <1>4, <1>5, <1>6

LEMMA WealthNat ==
  ASSUME TypeOK, NEW u \in Users
  PROVE  Wealth(u) \in Nat
<1> DEFINE n == Cardinality(AuctionEntries)
           f == InBids(u)
<1>1. n \in Nat /\ AuctionEntries = 0..(n - 1)
  BY EntryIndicesAssumption
<1>2. lamports[u] \in Nat /\ f \in [AuctionEntries -> Nat]
  BY DEF TypeOK, Bids, Accounts, InBids
<1>3. Wealth(u) = lamports[u] + SumTo(f, n)
  BY DEF Wealth, InBids
<1> HIDE DEF f, n
<1>4. SumTo(f, n) \in Nat
  BY <1>1, <1>2, SumToNat
<1> QED BY <1>2, <1>3, <1>4

\* Nothing that u owns changes.
LEMMA WealthStays ==
  ASSUME NEW u \in Users, lamports'[u] = lamports[u],
         \A i \in AuctionEntries : held'[<<i, u>>] = held[<<i, u>>]
  PROVE  Wealth(u)' = Wealth(u)
<1>1. [i \in AuctionEntries |-> held'[<<i, u>>]] = [i \in AuctionEntries |-> held[<<i, u>>]]
  OBVIOUS
<1> QED BY <1>1 DEF Wealth

\* A bid moves lamports of the bidder to the bidder's own bid account.
LEMMA BidKeepsWealth ==
  ASSUME AuctionInv, AuctionInv', NEW i \in AuctionEntries, NEW u \in Users,
         NEW minimum \in BidLimits \cup {0}, NEW maximum \in BidLimits,
         Bid(i, u, minimum, maximum), NEW v \in Users
  PROVE  Wealth(v)' = Wealth(v)
<1> DEFINE b    == <<i, u>>
           paid == Funding(b, BidAmount(i, minimum))
<1>1. /\ TypeOK /\ TypeOK' /\ b \in Bids /\ u \in Accounts /\ v \in Accounts
      /\ held \in [Bids -> Nat] /\ lamports \in [Accounts -> Nat]
      /\ \A j \in AuctionEntries, w \in Users : <<j, w>> \in Bids
  BY DEF AuctionInv, TypeOK, Bids, Accounts
<1>2. /\ held' = [held EXCEPT ![b] = held[b] + paid]
      /\ lamports' = [lamports EXCEPT ![u] = lamports[u] - paid]
      /\ paid <= lamports[u]
  BY DEF Bid, CanPay
<1>3. paid \in Nat
  BY <1>1, <1>2, AcceptedBid, FundedBid
<1> HIDE DEF paid
<1>4. CASE v = u
  <2>1. /\ held'[b] = held[b] + paid /\ lamports'[u] = lamports[u] - paid
        /\ held[b] \in Nat /\ lamports[u] \in Nat
        /\ \A j \in AuctionEntries : j # i => held'[<<j, u>>] = held[<<j, u>>]
    BY <1>1, <1>2
  <2>2. /\ Wealth(u) \in Nat /\ Wealth(u)' \in Nat
        /\ Wealth(u)' + lamports[u] + held[b] = Wealth(u) + lamports'[u] + held'[b]
    BY <1>1, <2>1, WealthMoves
  <2> QED BY <1>3, <1>4, <2>1, <2>2
<1>5. CASE v # u
  <2>1. \A j \in AuctionEntries : held'[<<j, v>>] = held[<<j, v>>]
    BY <1>1, <1>2, <1>5
  <2> QED BY <1>1, <1>2, <1>5, <2>1, WealthStays
<1> QED BY <1>4, <1>5

\* Whoever takes a bid back gets all that its account holds.
LEMMA ClaimLosingKeepsWealth ==
  ASSUME AuctionInv, AuctionInv', NEW i \in AuctionEntries, NEW u \in Users, NEW b \in Bids,
         NEW reclaim \in BOOLEAN, ClaimLosing(i, u, b, reclaim), NEW v \in Users
  PROVE  Wealth(v)' = Wealth(v)
<1>1. /\ TypeOK /\ TypeOK' /\ u \in Accounts /\ v \in Accounts
      /\ held \in [Bids -> Nat] /\ lamports \in [Accounts -> Nat]
      /\ \A j \in AuctionEntries, w \in Users : <<j, w>> \in Bids
  BY DEF AuctionInv, TypeOK, Bids, Accounts
<1>2. PICK k \in AuctionEntries : b = <<k, u>>
  BY DEF ClaimLosing, Bids
<1>3. /\ held' = [held EXCEPT ![b] = 0]
      /\ lamports' = [lamports EXCEPT ![u] = lamports[u] + held[b]]
  BY DEF ClaimLosing
<1>4. CASE v = u
  <2>1. /\ held'[b] = 0 /\ lamports'[u] = lamports[u] + held[b]
        /\ held[b] \in Nat /\ lamports[u] \in Nat
        /\ \A j \in AuctionEntries : j # k => held'[<<j, u>>] = held[<<j, u>>]
    BY <1>1, <1>2, <1>3
  <2>2. /\ Wealth(u) \in Nat /\ Wealth(u)' \in Nat
        /\ Wealth(u)' + lamports[u] + held[b] = Wealth(u) + lamports'[u] + held'[b]
    BY <1>1, <1>2, <2>1, WealthMoves
  <2> QED BY <1>4, <2>1, <2>2
<1>5. CASE v # u
  <2>1. \A j \in AuctionEntries : held'[<<j, v>>] = held[<<j, v>>]
    BY <1>1, <1>2, <1>3, <1>5
  <2> QED BY <1>1, <1>3, <1>5, <2>1, WealthStays
<1> QED BY <1>4, <1>5

\* Entry i is sold, and u paid for it as its winner, or because nobody bid.
SoldTo(i, u) ==
  /\ ~IsPurchased(entry[i]) /\ IsPurchased(entry'[i])
  /\ Wealth(u)' = Wealth(u) - entry'[i].purchase_price_lamports
  /\ entry[i].winning_bid_pubkey \in {Zeroes, <<i, u>>}

\* The winner pays with the bid account, and nobody else pays.
LEMMA WinnerPays ==
  ASSUME AuctionInv, AuctionInv', NEW i \in AuctionEntries, NEW u \in Users, NEW owner \in Users,
         NEW reclaim \in BOOLEAN, ClaimWinning(i, u, owner, reclaim), NEW v \in Users
  PROVE  IF v = u THEN SoldTo(i, u) ELSE Wealth(v)' = Wealth(v)
<1> DEFINE b == <<i, u>>
<1>1. /\ TypeOK /\ TypeOK' /\ b \in Bids /\ u \in Accounts /\ v \in Accounts
      /\ u # Admin /\ v # Admin
      /\ held \in [Bids -> Nat] /\ lamports \in [Accounts -> Nat]
      /\ \A j \in AuctionEntries, w \in Users : <<j, w>> \in Bids
      /\ entry \in [AuctionEntries -> AuctionedEntry]
      /\ entry[i] \in AuctionedEntry /\ Proceeds(i) /\ IsBacked(i)
  BY AuctionAssumption DEF AuctionInv, TypeOK, Bids, Accounts
<1>2. /\ held' = [held EXCEPT ![b] = 0]
      /\ lamports' = [lamports EXCEPT ![Admin] = lamports[Admin] + held[b]]
      /\ entry' = [entry EXCEPT ![i].purchase_price_lamports = held[b]]
      /\ b \in bids /\ entry[i].winning_bid_pubkey = b
  BY DEF ClaimWinning, IsWinner
<1>3. /\ held'[b] = 0 /\ held[b] \in Nat
      /\ entry'[i].purchase_price_lamports = held[b]
      /\ lamports'[v] = lamports[v] /\ lamports[v] \in Nat
      /\ \A j \in AuctionEntries, w \in Users : <<j, w>> # b => held'[<<j, w>>] = held[<<j, w>>]
  BY <1>1, <1>2 DEF AuctionedEntry
<1>4. CASE v = u
  <2>1. ~IsPurchased(entry[i]) /\ entry[i].highest_bid_lamports # 0
    BY <1>1, StageOfEntry DEF ClaimWinning, Claimable, StateOf, GetEntryStateAlone, RevealedState
  <2>2. held[b] # 0
    BY <1>1, <1>2, <1>3, <2>1 DEF IsBacked, AuctionedEntry
  <2>3. IsPurchased(entry'[i])
    BY <1>3, <2>2 DEF IsPurchased
  <2>4. /\ Wealth(u) \in Nat /\ Wealth(u)' \in Nat
        /\ Wealth(u)' + lamports[u] + held[b] = Wealth(u) + lamports'[u] + held'[b]
    BY <1>1, <1>3, WealthMoves
  <2>5. Wealth(u)' = Wealth(u) - entry'[i].purchase_price_lamports
    BY <1>3, <1>4, <2>4
  <2> QED BY <1>2, <1>4, <2>1, <2>3, <2>5 DEF SoldTo
<1>5. CASE v # u
  <2>1. \A j \in AuctionEntries : held'[<<j, v>>] = held[<<j, v>>]
    BY <1>3, <1>5
  <2> QED BY <1>3, <1>5, <2>1, WealthStays
<1> QED BY <1>4, <1>5

\* Who buys an entry that nobody bid on pays its minimum price.
LEMMA BuyerPays ==
  ASSUME AuctionInv, AuctionInv', NEW i \in AuctionEntries, NEW u \in Users, NEW owner \in Users,
         BuyUnsold(i, u, owner), NEW v \in Users
  PROVE  IF v = u THEN SoldTo(i, u) ELSE Wealth(v)' = Wealth(v)
<1> DEFINE p == entry[i].minimum_price_lamports
<1>1. /\ TypeOK /\ TypeOK' /\ u \in Accounts /\ v \in Accounts /\ u # Admin /\ v # Admin
      /\ lamports \in [Accounts -> Nat] /\ held \in [Bids -> Nat]
      /\ entry \in [AuctionEntries -> AuctionedEntry]
      /\ entry[i] \in AuctionedEntry /\ Proceeds(i)
  BY AuctionAssumption DEF AuctionInv, TypeOK, Accounts
<1>2. /\ lamports' = [lamports EXCEPT ![u] = lamports[u] - p, ![Admin] = lamports[Admin] + p]
      /\ entry' = [entry EXCEPT ![i].purchase_price_lamports = p]
      /\ held' = held
  BY DEF BuyUnsold
<1>3. p \in Nat \ {0}
  BY <1>1, AuctionAssumption DEF Proceeds
<1> HIDE DEF p
<1>4. /\ entry'[i].purchase_price_lamports = p
      /\ lamports'[u] = lamports[u] - p /\ lamports[u] \in Nat
      /\ v # u => lamports'[v] = lamports[v]
  BY <1>1, <1>2 DEF AuctionedEntry
<1>5. CASE v = u
  <2>1. ~IsPurchased(entry[i]) /\ entry[i].highest_bid_lamports = 0
    BY <1>1, StageOfEntry DEF BuyUnsold, StateOf, GetEntryStateAlone, RevealedState
  <2>2. entry[i].winning_bid_pubkey = Zeroes
    BY <1>1, <2>1 DEF Proceeds
  <2>3. IsPurchased(entry'[i])
    BY <1>3, <1>4 DEF IsPurchased
  <2>4. held[<<i, u>>] \in Nat
    BY <1>1 DEF Bids
  <2>5. /\ Wealth(u) \in Nat /\ Wealth(u)' \in Nat
        /\ Wealth(u)' + lamports[u] + held[<<i, u>>] = Wealth(u) + lamports'[u] + held'[<<i, u>>]
    BY <1>1, <1>2, WealthMoves
  <2>6. Wealth(u)' = Wealth(u) - entry'[i].purchase_price_lamports
    BY <1>2, <1>3, <1>4, <2>4, <2>5
  <2> QED BY <1>5, <2>1, <2>2, <2>3, <2>6 DEF SoldTo
<1>6. CASE v # u
  BY <1>2, <1>4, <1>6, WealthStays
<1> QED BY <1>5, <1>6

(***************************************************************************)
(* Without donations, nobody is poorer after any step but the buyer of an  *)
(* entry, by its price, and, if it had bids, the buyer is the winner.      *)
(***************************************************************************)
THEOREM OnlyWinnersPay ==
  ASSUME DonatedAmounts = {}
  PROVE  Spec => LosersLoseNothing
<1> DEFINE Lost(u) == \E i \in AuctionEntries : SoldTo(i, u)
<1>1. AuctionInv /\ AuctionInv' /\ [Next]_auctionVars
        => [\A u \in Users : Wealth(u)' < Wealth(u) => Lost(u)]_auctionVars
  <2> SUFFICES ASSUME AuctionInv, AuctionInv', Next, NEW v \in Users, Wealth(v)' < Wealth(v)
               PROVE  Lost(v)
    OBVIOUS
  <2>1. Wealth(v)' # Wealth(v)
    BY WealthNat DEF AuctionInv
  <2>2. ASSUME UNCHANGED <<held, lamports>> PROVE FALSE
    BY <2>1, <2>2, WealthStays
  <2>3. ASSUME NEW i \in AuctionEntries, NEW u \in Users, NEW minimum \in BidLimits \cup {0},
               NEW maximum \in BidLimits, Bid(i, u, minimum, maximum)
        PROVE  FALSE
    BY <2>1, <2>3, BidKeepsWealth
  <2>4. ASSUME NEW i \in AuctionEntries, NEW u \in Users, NEW b \in Bids, NEW reclaim \in BOOLEAN,
               ClaimLosing(i, u, b, reclaim)
        PROVE  FALSE
    BY <2>1, <2>4, ClaimLosingKeepsWealth
  <2>5. ASSUME NEW i \in AuctionEntries, NEW u \in Users, NEW owner \in Users,
               NEW reclaim \in BOOLEAN, ClaimWinning(i, u, owner, reclaim)
        PROVE  Lost(v)
    <3>1. IF v = u THEN SoldTo(i, u) ELSE Wealth(v)' = Wealth(v)
      BY <2>5, WinnerPays
    <3> QED BY <2>1, <3>1
  <2>6. ASSUME NEW i \in AuctionEntries, NEW u \in Users, NEW owner \in Users,
               BuyUnsold(i, u, owner)
        PROVE  Lost(v)
    <3>1. IF v = u THEN SoldTo(i, u) ELSE Wealth(v)' = Wealth(v)
      BY <2>6, BuyerPays
    <3> QED BY <2>1, <3>1
  <2> HIDE DEF Lost
  <2> QED BY <2>2, <2>3, <2>4, <2>5, <2>6 DEF Next, Reveal, DiscardMarker, Tick
<1> QED
  BY <1>1, AuctionInvariant, PTL DEF Spec, LosersLoseNothing, SoldTo
=============================================================================
