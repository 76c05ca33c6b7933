\* One watcher, with or without a cursor: forks, cached answers, errors and restarts, and a payment that throws.
CONSTANTS
  d1 = d1
  d2 = d2
  v1 = v1
  v2 = v2
  Payments = {d1, d2}
  Quoted = {}
  Unencodable = {d2}
  Watchers = {v1}
  MinConfirmations = 1
  FinalConfirmations = 2
  MaxBlocks = 4
  MaxForks = 3
  MaxStale = 1
  MaxErrors = 1
  MaxAborts = 1
SPECIFICATION FairSpec
INVARIANTS
  FinalizedIsPermanent
  CursorCoversPayments
  LostIsRolledBack
PROPERTIES
  EveryPaymentFinalizes
CHECK_DEADLOCK FALSE
