CONSTANTS
  e1 = e1
  e2 = e2
  alice = alice
  bob = bob
  away = away
  shinobi = shinobi
  other = other
  mine = mine
  yours = yours
  Entries = {e1, e2}
  Signers = {alice, bob, away}
  Acting = {alice, bob}
  Holders = {alice, bob, away, authority}
  Voters <- Validators
  NoOne = noOne
  MinimumDelegation = 2
  MaxU64 = 32767
  LamportsPerSol = 1
  KiLimit = 30
  KiDivisor = 300
  KiFactor <- KiFactors
  Level1Ki = 2
  MaxLevel = 1
  Zeroes = zeroes
  StakeAccounts <- FewAccounts
  Master = master
  Authority = authority
  Shinobi = shinobi
  MasterMinimum = 5
  FullCommission = 8
  MaxRaise = 2
  LockupEpoch <- Lockups
  Beginnings <- AdminOrOwners
  InitialCommission = 2
  Commissions = {4, 6}
  SplitAmounts = {0}
  NewAuthorities = {away}
  NewAdmins = {away}
  Buyers = {bob}
  KiOwners = {bob}
  Recipients = {bob}
  Leaving = {e2}
  Rewards = {3}
  MaxEpoch = 3
SPECIFICATION FairSpec
INVARIANTS
  TypeOK
  StakedInCustody
  PrincipalKept
  
  CommissionRaisesSlowly
  RewardsAreChargeable
PROPERTIES
  KiOnlyForRewards
  CustodySpec
  RewardsAreCharged
  OwnersCanLeave
\* The clock stops at MaxEpoch.
CHECK_DEADLOCK FALSE
