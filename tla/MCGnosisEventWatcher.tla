------------------------- MODULE MCGnosisEventWatcher -------------------------
EXTENDS GnosisEventWatcher, TLC

CONSTANTS i1, i2

InstanceSymmetry == Permutations({i1, i2})
===============================================================================
