SPECIFICATION Spec
CONSTANTS
  Attempts = 3
  AttemptTimeout = 2
  Backoff = 1
  SessionIdleTTL = 5
  SessionRenewWindow = 3
  SessionAbsoluteTTL = 9
  TrendLength = 2
  MaxPageSize = 3
  DefaultPageSize = 2
  Decks <- MCDecks
  MaxDays = 5
  MaxVisits = 4
  HandRows <- MCHandRows
  MaxRows = 4
INVARIANTS
  TheBestFiveWin
  TheFirstVerdictCounts
  SessionsLiveWhileUsed
  TheHistoryAddsUp
CHECK_DEADLOCK FALSE
