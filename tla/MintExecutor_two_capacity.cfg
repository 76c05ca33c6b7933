\* Two instances: a mint confirmed by one between the reads of the other.
CONSTANTS
  o1 = o1
  o2 = o2
  i1 = i1
  i2 = i2
  Orders = {o1, o2}
  Instances = {i1, i2}
  Deposit <- TwoDeposits
  LegacyOrders = {}
  DayLength = 2
  DailyMintLimit = 5
  MaxSupply = 0
  MintedBefore = 0
  RefundFloor = 1
  MintDeadline = 2
  Margin = 1
  MaxTime = 3
  MaxTxs = 3
  MaxNonce = 0
  MaxFaults = 0
SPECIFICATION Spec
INVARIANTS
  CapacityNotOvercommitted
CHECK_DEADLOCK FALSE
