\* The types hold; each other property is violated: TLC shows one at a time.
CONSTANTS
  a1 = a1
  a2 = a2
  b1 = b1
  c1 = c1
  c2 = c2
  v1 = v1
  v2 = v2
  WalletOf <- TwoWallets
  Spellings = {a1, a2, b1}
  Malformed = {}
  Callers = {c1, c2}
  Watchers = {v1, v2}
  DripEnabled = TRUE
  Preferences = {"opted_in"}
  MaxQuotes = 1
  MaxPayments = 1
  MaxErrors = 0
SPECIFICATION DepositSpec
SYMMETRY Symmetry
INVARIANTS
  DepositTypeOK
  MintedForOnce
  HeldByErrors
  OneAddressPerWallet
CHECK_DEADLOCK FALSE
