CONSTANTS
  SmallBlind = 1
  BigBlind = 2
  House = house
  ann = ann
  bob = bob
  ReferrerOf <- AnnReferredBob
  RakeMode = "small_blind"
  RakePercentage = 0
  ReferralPercentage = 50
  Users = {ann, bob, cat}
  BuyIn = 3
  MaxPlayers = 3
  InitialWallet = 3
  Refills = {2}
  ManualStart = FALSE
  MaxLate = 0
  Restarts = FALSE
SPECIFICATION Spec
INVARIANTS
  TypeOK
  SeatMapOK
  SatOutIsOnTheClock
PROPERTIES
  NoMoneyCreated
  StakesAreFixed
  OnlyTwoThingsStopTheTable
CHECK_DEADLOCK FALSE
