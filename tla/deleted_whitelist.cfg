CONSTANTS
  Users = {u1, u2}
  Admin = admin
  Authority = authority
  Zeroes = zeroes
  NoBlock = noBlock
  NoWhitelist = noWhitelist
  NoMint = noMint
  EntryTokenAccount = entryToken
  MaxEntries = 2
  Configurations <- WhitelistConfigurations
  Bytes = {0}
  MetadataSize = 1
  Salts = {7}
  BidRentExempt = 1000
  MaxStartPrice = 10000
  MaxU64 = 2147483647
  MaxAccounts = 21
  MaxWhitelist = 2
  MaxWhitelistAdd = 28
  InitialLamports <- Lamports
  TransferAmounts = {}
  StartTime = 5
  SetupTime = 5
  MaxTime = 8
SPECIFICATION Spec
PROPERTIES
  WhitelistKeptThroughItsPhase
\* The clock stops at MaxTime.
CHECK_DEADLOCK FALSE
