\* Each property is violated: TLC shows one at a time.
CONSTANTS
  o1 = o1
  o2 = o2
  i1 = i1
  i2 = i2
  Orders = {o1, o2}
  Instances = {i1}
  Deposit <- TwoDeposits
  LegacyOrders = {o1, o2}
  DayLength = 2
  DailyMintLimit = 5
  MaxSupply = 0
  MintedBefore = 0
  RefundFloor = 1
  MintDeadline = 2
  Margin = 1
  MaxTime = 2
  MaxTxs = 3
  MaxNonce = 0
  MaxFaults = 1
SPECIFICATION FairSpec
INVARIANTS
  FailedWasNotMinted
  MintedAsRecorded
PROPERTIES
  ReissuedOnlyUnminted
  ReceiptCompletes
CHECK_DEADLOCK FALSE
