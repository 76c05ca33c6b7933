----------------------------- MODULE BridgeWallet -----------------------------
(***************************************************************************)
(* What the payout and the refund executor share: the pool of coins        *)
(* (bridge_utxos) and each backend's place in the one loop that runs both  *)
(* (backend/src/executor/payout-executor.ts, poll).                        *)
(***************************************************************************)
EXTENDS DobbscoinNode

CONSTANTS
  Instances,   \* backend processes
  MaxFaults    \* bound: crashes and lost answers

ASSUME WalletAssumption == MaxFaults \in Nat

VARIABLES
  utxo,    \* utxo[c]: the bridge_utxos row, by is spent_payout_id or spent_refund_id
  proc,    \* proc[i]: what instance i is in the middle of
  faults   \* crashes and lost answers so far

Idle == [pc |-> "idle"]

WalletInit ==
  /\ NodeInit
  /\ utxo = [c \in Outputs |-> [status |-> IF c \in Coins THEN "available" ELSE "absent",
                                by |-> {}]]
  /\ proc = [i \in Instances |-> Idle]
  /\ faults = 0

-------------------------------------------------------------------------------
Available == {c \in Outputs : utxo[c].status = "available"}

HeldBy(p) == {c \in Outputs : utxo[c].by = {p} /\ utxo[c].status = "reserved"}

SpentBy(p) == {c \in Outputs : utxo[c].by = {p} /\ utxo[c].status = "spent"}

(* The pool with the coins in S reserved for p.                            *)
Reserve(S, p) ==
  [c \in Outputs |-> IF c \in S THEN [status |-> "reserved", by |-> {p}] ELSE utxo[c]]

(* ... with what p reserved released again.                                *)
Release(p) ==
  [c \in Outputs |-> IF c \in HeldBy(p) THEN [status |-> "available", by |-> {}] ELSE utxo[c]]

(* As Spend, of the coins in S alone.                                      *)
SpendListed(p, S, k) ==
  [c \in Outputs |->
     IF c \in S THEN [status |-> "spent", by |-> {p}]
     ELSE IF c = k /\ txs[k].change /\ utxo[k].status = "absent"
     THEN [status |-> "available", by |-> {}]
     ELSE utxo[c]]

(* ... with every coin of p, and those in S, spent, and the change of k in.*)
Spend(p, S, k) ==
  [c \in Outputs |->
     IF c \in S \/ utxo[c].by = {p} THEN [status |-> "spent", by |-> {p}]
     ELSE IF c = k /\ txs[k].change /\ utxo[k].status = "absent"
     THEN [status |-> "available", by |-> {}]
     ELSE utxo[c]]

WalletTypeOK ==
  /\ NodeTypeOK
  /\ utxo \in [Outputs -> [status : {"absent", "available", "reserved", "spent"},
                           by : SUBSET Payers]]
  /\ DOMAIN proc = Instances
  /\ faults \in Nat
===============================================================================
