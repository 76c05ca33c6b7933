\* Each property is violated: TLC shows one at a time.
CONSTANTS
  d1 = d1
  d2 = d2
  v1 = v1
  v2 = v2
  Payments = {d1, d2}
  Quoted = {}
  Unencodable = {d2}
  Watchers = {v1}
  MinConfirmations = 2
  FinalConfirmations = 3
  MaxBlocks = 4
  MaxForks = 3
  MaxStale = 0
  MaxErrors = 1
  MaxAborts = 1
SPECIFICATION FairSpec
INVARIANTS
  NothingMissedSinceFirstStart
  KnowsAnAncestor
  RecordedWhereItLives
PROPERTIES
  FinalizesWhateverElseIsPaid
CHECK_DEADLOCK FALSE
