CONSTANTS
  SmallBlind = 1
  BigBlind = 2
  Tables <- MCTables
  Amounts = {0, 3}
  House = house
  ReferrerOf <- MCReferrerOf
  RakeMode = "percentage"
  RakePercentage = 30
  ReferralPercentage = 50
SPECIFICATION Spec
INVARIANTS
  TypeOK
  PotIsTheBets
  StackPlusBets
  NeverStuck
  TurnIsOwed
  NobodyWinsBeyondHisStake
  ChipsSurviveTheShowdown
  HistoryIsWhatTheStacksDid
PROPERTIES
  RoundClosesOnlyWhenSettled
  HandMovesOn
CHECK_DEADLOCK FALSE
