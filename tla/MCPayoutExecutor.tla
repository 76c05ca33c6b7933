--------------------------- MODULE MCPayoutExecutor ---------------------------
(* Finite instances of PayoutExecutor. *)
EXTENDS PayoutExecutor, TLC

CONSTANTS w1, w2, c1, c2, i1, i2

InstanceSymmetry == Permutations({i1, i2})
===============================================================================
