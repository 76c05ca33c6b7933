\* One process, a burn that cannot be recorded, a reorganisation, a bad answer, a deleted row, faults.
CONSTANTS
  i1 = i1
  i2 = i2
  Instances = {i1}
  Depth = 2
  Chunk = 1
  Poison = {2}
  HaltThreshold = 2
  MaxBlock = 4
  MaxBurns = 2
  MaxReorgs = 1
  MaxMisses = 1
  MaxDeletes = 1
  MaxFaults = 1
SPECIFICATION FairSpec
INVARIANTS
  WatermarkCoversBurns
  RecordedIsOnChain
PROPERTIES
  EveryBurnRecorded
  PoisonIsReported
