\* Each property is violated: TLC shows one at a time.
CONSTANTS
  i1 = i1
  i2 = i2
  Instances = {i1}
  Depth = 1
  Chunk = 1
  Poison = {}
  HaltThreshold = 2
  MaxBlock = 4
  MaxBurns = 2
  MaxReorgs = 0
  MaxMisses = 1
  MaxDeletes = 1
  MaxFaults = 1
SPECIFICATION FairSpec
PROPERTIES
  RecordedIsQueued
  RecountedIsAlerted
  MissingIsIngested
