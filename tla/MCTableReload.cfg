CONSTANTS
  SmallBlind = 1
  BigBlind = 2
  House = house
  ann = ann
  bob = bob
  ReferrerOf <- NoReferrers
  RakeMode = "percentage"
  RakePercentage = 0
  ReferralPercentage = 0
  Users = {ann, bob}
  BuyIn = 3
  MaxPlayers = 3
  InitialWallet = 4
  Refills = {}
  ManualStart = TRUE
  MaxLate = 1
  Restarts = TRUE
SYMMETRY AnyOrder
SPECIFICATION Spec
INVARIANTS
  SeatMapOK
PROPERTIES
  NoMoneyCreated
  OnlyTwoThingsStopTheTable
CHECK_DEADLOCK FALSE
