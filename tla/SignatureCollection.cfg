\* Three watchers; a reissue, a rotation and a fault.
CONSTANTS
  w1 = w1
  w2 = w2
  w3 = w3
  w4 = w4
  Watchers = {w1, w2, w3}
  Threshold = 2
  MaxReissues = 1
  MaxRotations = 1
  MaxFaults = 1
SPECIFICATION FairSpec
INVARIANTS
  NoSignerTwice
PROPERTIES
  PruneRemovesOnlyUseless
  EventuallySent
CHECK_DEADLOCK FALSE
