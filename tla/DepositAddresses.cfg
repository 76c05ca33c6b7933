\* Two requests and two watchers at a time, with a database error, restarts and a malformed recipient.
CONSTANTS
  a1 = a1
  a2 = a2
  b1 = b1
  c1 = c1
  c2 = c2
  v1 = v1
  v2 = v2
  WalletOf <- TwoWallets
  Spellings = {a1, a2, b1}
  Malformed = {b1}
  Callers = {c1, c2}
  Watchers = {v1, v2}
  DripEnabled = TRUE
  Preferences = {"opted_in"}
  MaxQuotes = 1
  MaxPayments = 2
  MaxErrors = 1
SPECIFICATION DepositSpec
SYMMETRY Symmetry
INVARIANTS
  OneWalletOneCredit
  CursorCoversCredits
  HeldByErrorsOnly
  OneAddressPerSpelling
CHECK_DEADLOCK FALSE
