\* Two backends with a withdrawal and a refund over one pool.
CONSTANTS
  w1 = w1
  w2 = w2
  f1 = f1
  c1 = c1
  c2 = c2
  i1 = i1
  i2 = i2
  Coins = {c1, c2}
  Payers = {w1, w2, f1}
  Orders = {w1}
  Payable = {w1}
  Refunds = {f1}
  OwnDeposit <- Own
  Instances = {i1, i2}
  MaxTxs = 2
  MaxRefusals = 0
  MaxForgets = 1
  MaxCopies = 0
  MaxFaults = 1
  MaxAttempts = 2
  MaxResends = 1
  MaxRequeues = 1
  MaxRetries = 0
  MaxResets = 0
SPECIFICATION BridgeSpec
SYMMETRY InstanceSymmetry
INVARIANTS
  NoCoinForTwo
  OrderAgreesWithChain
CHECK_DEADLOCK FALSE
