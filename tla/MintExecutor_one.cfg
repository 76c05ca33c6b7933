\* One backend instance under a supply cap; a crash or a failed call at any point.
CONSTANTS
  o1 = o1
  o2 = o2
  i1 = i1
  i2 = i2
  Orders = {o1, o2}
  Instances = {i1}
  Deposit <- TwoDeposits
  LegacyOrders = {}
  DayLength = 2
  DailyMintLimit = 5
  MaxSupply = 6
  MintedBefore = 0
  RefundFloor = 1
  MintDeadline = 2
  Margin = 1
  MaxTime = 3
  MaxTxs = 3
  MaxNonce = 1
  MaxFaults = 1
SPECIFICATION Spec
INVARIANTS
  CapacityNotOvercommitted
  NeverRefusedForTheCap
  CapInv
CHECK_DEADLOCK FALSE
