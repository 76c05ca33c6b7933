\* Each property is violated: TLC shows one at a time.
CONSTANTS
  a1 = a1
  a2 = a2
  b1 = b1
  c1 = c1
  c2 = c2
  v1 = v1
  v2 = v2
  WalletOf <- TwoWallets
  i1 = i1
  i2 = i2
  Spellings = {a1, a2}
  Malformed = {}
  Callers = {c1, c2}
  Watchers = {v1}
  DripEnabled = TRUE
  Preferences = {"opted_in", "opted_out"}
  MaxQuotes = 0
  MaxPayments = 2
  MaxErrors = 0
  Instances = {i1, i2}
  Funds = 2
  MaxRefills = 0
  MaxSpends = 1
  MaxFaults = 0
SPECIFICATION Spec
INVARIANTS
  OneDripEver
PROPERTIES
  OptOutStands
CHECK_DEADLOCK FALSE
