CONSTANTS
  Users = {u1, u2}
  Admin = admin
  AuctionEntries = {0, 1}
  EntryTokenAccount = entryToken
  Unrevealed = unrevealed
  Zeroes = zeroes
  Duration = 1
  MinimumPrice = 21000
  BidLimits = {21000, 24100}
  DonatedAmounts = {}
  InitialLamports <- Lamports
  MaxU64 = 2147483647
  StartTime = 5
  LastReveal = 6
  MaxTime = 7
SPECIFICATION Spec
SYMMETRY UserSymmetry
INVARIANTS
  TypeOK
  LosingBidsAreLower
PROPERTIES
  LosersLoseNothing
  EnglishSpec
\* The clock stops at MaxTime.
CHECK_DEADLOCK FALSE
