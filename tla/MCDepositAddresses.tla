-------------------------- MODULE MCDepositAddresses --------------------------
EXTENDS DepositAddresses, TLC

CONSTANTS a1, a2, b1, c1, c2, v1, v2

(* a1 and a2 are two spellings of one wallet. *)
TwoWallets == a1 :> 1 @@ a2 :> 1 @@ b1 :> 2

Symmetry == Permutations({a1, a2}) \cup Permutations({c1, c2}) \cup Permutations({v1, v2})
===============================================================================
