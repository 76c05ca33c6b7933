\* Two processes scan and recount at once: the invariants hold.
\* WatermarkOnlyForward is violated.
CONSTANTS
  i1 = i1
  i2 = i2
  Instances = {i1, i2}
  Depth = 1
  Chunk = 1
  Poison = {}
  HaltThreshold = 2
  MaxBlock = 3
  MaxBurns = 2
  MaxReorgs = 0
  MaxMisses = 0
  MaxDeletes = 0
  MaxFaults = 1
SPECIFICATION Spec
INVARIANTS
  TypeOK
  WatermarkCoversBurns
PROPERTIES
  WatermarkOnlyForward
