CONSTANTS
  Users = {u1}
  Admin = admin
  AuctionEntries = {0, 1}
  EntryTokenAccount = entryToken
  Unrevealed = unrevealed
  Zeroes = zeroes
  Duration = 1
  MinimumPrice = 1000
  BidLimits = {1000}
  DonatedAmounts = {}
  InitialLamports <- Lamports
  MaxU64 = 2147483647
  StartTime = 5
  LastReveal = 5
  MaxTime = 6
SPECIFICATION Spec
PROPERTIES
  WinningBidIsKept
\* The clock stops at MaxTime.
CHECK_DEADLOCK FALSE
