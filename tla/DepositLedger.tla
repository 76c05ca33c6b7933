---------------------------- MODULE DepositLedger ----------------------------
(***************************************************************************)
(* What the mint executor promises a depositor, without its jobs, locks,   *)
(* rows and transactions: a deposit is divided once, in full, into a part  *)
(* to mint and a part to refund, and the first is minted at most once and  *)
(* in one piece.                                                           *)
(***************************************************************************)
EXTENDS Naturals

CONSTANTS Orders, Deposit

VARIABLES
  split,   \* split[o]: how o's deposit is divided
  minted   \* minted[o]: wBOB minted for it

Undecided == [mint |-> 0, refund |-> 0]

Init ==
  /\ split = [o \in Orders |-> Undecided]
  /\ minted = [o \in Orders |-> 0]

(* decideSplit. *)
Decide(o) ==
  /\ split[o] = Undecided
  /\ \E mint \in 0 .. Deposit[o] :
       split' = [split EXCEPT ![o] = [mint |-> mint, refund |-> Deposit[o] - mint]]
  /\ UNCHANGED minted

(* BridgeController.executeMint. *)
Mint(o) ==
  /\ split[o].mint > 0
  /\ minted[o] = 0
  /\ minted' = [minted EXCEPT ![o] = split[o].mint]
  /\ UNCHANGED split

Next == \E o \in Orders : Decide(o) \/ Mint(o)

Spec == Init /\ [][Next]_<<split, minted>>
===============================================================================
