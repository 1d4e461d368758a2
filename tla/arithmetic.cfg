CONSTANTS
  MaxU64 = 2147483647
  PricesSet = {1000001, 1500000, 1500999, 1507000, 1700999, 2100000999}
  Durations = {0, 1, 2, 3, 7, 10, 60}
  Half = 16
  LamportsPerSol = 1000000000
  KiLimit = 106666
  KiDivisor = 1066666
  KiFactor <- KiFactors
  Level1Ki = 1
  MaxLevel = 8
  KiStep = 39
SPECIFICATION ArithmeticSpec
INVARIANTS
  PriceInRange
  ProductOrFlag
  LargeHarvestsDiscouraged
PROPERTIES
  PriceDecays
\* The price is final once the duration is over, and the enumeration of the
\* operands ends.
CHECK_DEADLOCK FALSE
