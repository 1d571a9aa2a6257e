SPECIFICATION Spec
CONSTANTS
  GP1 = GP1
  GP2 = GP2
  Refs <- TwoRefs
  Asked = {0, 1}
  MinGatewayDeposit = 1
  MaxGatewayDeposit = 2
  GatewayReconcileBatch = 1
  Wordings <- TheFirstIsOff
  Prompted <- TheSecond
  Blank = Blank
INVARIANT CreditedOnceAsPaid
PROPERTY SettledByReconciliation
