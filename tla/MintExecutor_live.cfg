\* No fault, a full day, an authorization that predates the split: every deposit is settled.
CONSTANTS
  o1 = o1
  o2 = o2
  i1 = i1
  i2 = i2
  Orders = {o1, o2}
  Instances = {i1}
  Deposit <- TwoDeposits
  LegacyOrders = {o2}
  DayLength = 2
  DailyMintLimit = 5
  MaxSupply = 0
  MintedBefore = 5
  RefundFloor = 1
  MintDeadline = 2
  Margin = 1
  MaxTime = 4
  MaxTxs = 3
  MaxNonce = 1
  MaxFaults = 0
SPECIFICATION FairSpec
PROPERTIES
  Settles
CHECK_DEADLOCK FALSE
