---------------------------- MODULE MCMintExecutor ----------------------------
(* Finite instances of MintExecutor. *)
EXTENDS MintExecutorInvariants, TLC

CONSTANTS o1, o2, i1, i2

(* Deposits of 3 and 4 against a limit of 5: the second is split or, once  *)
(* the first is minted, partly refunded.                                   *)
TwoDeposits == (o1 :> 3) @@ (o2 :> 4)

InstanceSymmetry == Permutations({i1, i2})
===============================================================================
