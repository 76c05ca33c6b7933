\* Every withdrawal and every refund is settled.
CONSTANTS
  w1 = w1
  w2 = w2
  f1 = f1
  c1 = c1
  c2 = c2
  i1 = i1
  i2 = i2
  Coins = {c1, c2}
  Payers = {w1, w2, f1}
  Orders = {w1}
  Payable = {w1}
  Refunds = {f1}
  OwnDeposit <- Own
  Instances = {i1}
  MaxTxs = 4
  MaxRefusals = 1
  MaxForgets = 1
  MaxCopies = 1
  MaxFaults = 0
  MaxAttempts = 2
  MaxResends = 2
  MaxRequeues = 1
  MaxRetries = 0
  MaxResets = 1
SPECIFICATION BridgeFairSpec
PROPERTIES
  PayoutSettles
  RefundSettles
CHECK_DEADLOCK FALSE
