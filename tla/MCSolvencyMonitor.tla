-------------------------- MODULE MCSolvencyMonitor --------------------------
EXTENDS SolvencyMonitor

CONSTANTS d1, d2, w1, w2

(* One deposit over the cap: what is left of it after a payout, and what   *)
(* is left of that after the refund, is dust in one order of events and a  *)
(* coin in the other.                                                      *)
SplitDeposit == [d \in {d1} |-> 3400]
SplitMinted == [d \in {d1} |-> 2400]
OneBurn == [w \in {w1} |-> 1800]
TwoBurns == [w \in {w1, w2} |-> IF w = w1 THEN 1800 ELSE 600]

(* selectUtxos against what its comment says it returns: over small pools, *)
(* no fewer coins would do, and it gives up only if no coins would.        *)
SmallCoins == {[of |-> n, sat |-> s] : n \in {1, 2}, s \in {150, 700}}
                \cup {[of |-> 1, sat |-> s] : s \in {340, 1900}}

FewestCoins(S, target) ==
  LET Enough == {Q \in (SUBSET S) \ {{}} : Covers(TotalSat(Q), Cardinality(Q), target)}
  IN  /\ (SelectUtxos(S, target) = {}) = (Enough = {})
      /\ SelectUtxos(S, target) \subseteq Enough
      /\ \A P \in SelectUtxos(S, target), Q \in Enough : Cardinality(P) <= Cardinality(Q)

ASSUME SelectionAssumption ==
  \A S \in SUBSET SmallCoins, target \in {547, 700, 1200, 1708, 1709, 2400} :
    FewestCoins(S, target)
===============================================================================
