SPECIFICATION LobbySpec
CONSTANTS
  ann = ann
  bob = bob
  cid = cid
  r1 = r1
  r2 = r2
  x = x
  y = y
  None = None
  Users <- Players
  Codes <- TwoCodes
  Requests <- TwoRequests
  MaxPlayers = 3
  BuyIn = 1
  Stake = 1
  InitialWallet = 1
  MaxCrashes = 1
SYMMETRY Interchangeable
CONSTRAINT TwoRoamOrThreeStay
INVARIANTS AtOneTable CrashCostsItsMoves
