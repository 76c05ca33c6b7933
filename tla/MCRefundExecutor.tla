--------------------------- MODULE MCRefundExecutor ---------------------------
(* Finite instances of RefundExecutor. *)
EXTENDS RefundExecutor, TLC

CONSTANTS w1, w2, f1, c1, c2, i1, i2

Own == [r \in Refunds |-> c1]

InstanceSymmetry == Permutations({i1, i2})
===============================================================================
