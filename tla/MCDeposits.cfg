CONSTANTS
  None = None
  sms = sms
  encoded = encoded
  aged = aged
  ft = ft
  gt = gt
  Users = {ann, bob}
  Urls <- MCUrls
  Transfers = {ft, gt}
  TransferOf <- MCTransferOf
  Accepted = {sms, encoded}
  AmountOf <- MCAmountOf
  ManualAmounts = {1}
  Submitters = {s1, s2}
  Admins = {admin}
  Sweepers = {worker}
  MaxQueueAttempts = 1
SPECIFICATION Spec
INVARIANTS
  TypeOK
PROPERTIES
  OnlyAStaleHandBreaksTheRule
