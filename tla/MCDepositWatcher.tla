--------------------------- MODULE MCDepositWatcher ---------------------------
EXTENDS DepositWatcher, TLC

CONSTANTS d1, d2, v1, v2

WatcherSymmetry == Permutations({v1, v2})
===============================================================================
