SPECIFICATION Spec
CONSTANTS
  r1 = r1
  r2 = r2
  t1 = t1
  t2 = t2
  None = None
  Requests <- TwoRequests
  Phones = {"a"}
  OtpMaxAttempts = 2
  OtpMaxSendsPerWindow = 2
  MaxMinted = 2
  Tokens <- TwoTokens
SYMMETRY Interchangeable
INVARIANTS GuessesAreBounded SendsAreBounded AccountsAreTheirOwners SessionsKnowThePassword
