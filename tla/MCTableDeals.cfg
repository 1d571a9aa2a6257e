CONSTANTS
  SmallBlind = 1
  BigBlind = 2
  House = house
  ann = ann
  bob = bob
  ReferrerOf <- NoReferrers
  RakeMode = "small_blind"
  RakePercentage = 0
  ReferralPercentage = 0
  Users = {ann, bob}
  BuyIn = 3
  MaxPlayers = 3
  InitialWallet = 5
  Refills = {2}
  ManualStart = FALSE
  MaxLate = 0
  Restarts = FALSE
SYMMETRY AnyOrder
SPECIFICATION Spec
INVARIANTS
  TableDealsByItself
CHECK_DEADLOCK FALSE
