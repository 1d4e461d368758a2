CONSTANTS
  Users = {u1, u2}
  Admin = admin
  AuctionEntries = {0, 1}
  EntryTokenAccount = entryToken
  Unrevealed = unrevealed
  Zeroes = zeroes
  Duration = 1
  MinimumPrice = 1000
  BidLimits = {1000, 1030}
  DonatedAmounts = {600}
  InitialLamports <- FewLamports
  MaxU64 = 2147483647
  StartTime = 5
  LastReveal = 5
  MaxTime = 6
SPECIFICATION FairSpec
PROPERTIES
  HighestBidIsHeld
  BidsAreSettled
  
\* The clock stops at MaxTime.
CHECK_DEADLOCK FALSE
