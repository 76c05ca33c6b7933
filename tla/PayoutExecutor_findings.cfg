\* Each property is violated: TLC shows one at a time.
CONSTANTS
  w1 = w1
  w2 = w2
  c1 = c1
  c2 = c2
  i1 = i1
  i2 = i2
  Coins = {c1, c2}
  Payers = {w1, w2}
  Orders = {w1}
  Payable = {w1}
  Instances = {i1, i2}
  MaxTxs = 2
  MaxRefusals = 1
  MaxForgets = 0
  MaxCopies = 0
  MaxFaults = 1
  MaxAttempts = 2
  MaxResends = 2
  MaxRequeues = 1
SPECIFICATION FairSpec
INVARIANTS
  OnlyNewestSent
  PaidAtMostOnce
PROPERTIES
  ConfirmedCompletes
CHECK_DEADLOCK FALSE
