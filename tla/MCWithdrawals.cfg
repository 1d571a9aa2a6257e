CONSTANTS
  Users = {ann, bob}
  Requests = {r1, r2}
  Amounts = {1, 2}
  InitialWallet = 2
  MaxRows = 3
SYMMETRY AnyOrder
SPECIFICATION Spec
INVARIANTS
  TypeOK
  RefundedExactlyOnce
PROPERTIES
  PromiseKept
