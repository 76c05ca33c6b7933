\* The types hold; each other property is violated: TLC shows one at a time.
CONSTANTS
  w1 = w1
  w2 = w2
  f1 = f1
  c1 = c1
  c2 = c2
  i1 = i1
  i2 = i2
  Coins = {c1, c2}
  Payers = {w1, w2, f1}
  Orders = {}
  Payable = {}
  Refunds = {f1}
  OwnDeposit <- Own
  Instances = {i1}
  MaxTxs = 3
  MaxRefusals = 1
  MaxForgets = 1
  MaxCopies = 0
  MaxFaults = 1
  MaxAttempts = 2
  MaxResends = 1
  MaxRequeues = 1
  MaxRetries = 0
  MaxResets = 1
SPECIFICATION BridgeFairSpec
INVARIANTS
  BridgeTypeOK
  RefundedAtMostOnce
PROPERTIES
  BroadcastConfirms
CHECK_DEADLOCK FALSE
