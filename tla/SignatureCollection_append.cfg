\* Two watchers append at once.
CONSTANTS
  w1 = w1
  w2 = w2
  w3 = w3
  w4 = w4
  Watchers = {w1, w2}
  Threshold = 2
  MaxReissues = 0
  MaxRotations = 0
  MaxFaults = 0
SPECIFICATION Spec
PROPERTIES
  AppendKeepsOthers
CHECK_DEADLOCK FALSE
