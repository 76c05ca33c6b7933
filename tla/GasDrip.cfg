\* One mint executor; one request at a time, in two spellings.
CONSTANTS
  a1 = a1
  a2 = a2
  b1 = b1
  c1 = c1
  c2 = c2
  v1 = v1
  v2 = v2
  WalletOf <- TwoWallets
  i1 = i1
  i2 = i2
  Spellings = {a1, a2}
  Malformed = {}
  Callers = {c1}
  Watchers = {v1}
  DripEnabled = TRUE
  Preferences = {"opted_in", "opted_out"}
  MaxQuotes = 0
  MaxPayments = 2
  MaxErrors = 1
  Instances = {i1}
  Funds = 1
  MaxRefills = 1
  MaxSpends = 1
  MaxFaults = 2
SPECIFICATION Spec
INVARIANTS
  OutcomeIsOnChain
  RepeatsNeedFaults
PROPERTIES
  OptOutStands
CHECK_DEADLOCK FALSE
