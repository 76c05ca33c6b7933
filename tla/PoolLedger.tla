------------------------------ MODULE PoolLedger ------------------------------
(***************************************************************************)
(* The amounts behind the solvency of the bridge: how deposits, mints,     *)
(* burns, payouts and refunds move the coins of the pool, the fees on      *)
(* record and the supply of wBOB.  Each action is what one transaction of  *)
(* an executor does to them; how an executor gets there, with its crashes  *)
(* and its other processes, is in MintExecutor, PayoutExecutor and         *)
(* RefundExecutor.  A send and its record are one step here.               *)
(***************************************************************************)
EXTENDS PoolAccounting

CONSTANTS
  Deposits,      \* finalized deposits
  DepositSat,    \* DepositSat[d]: what d paid into the bridge
  MintedSat,     \* MintedSat[d]: the part of it the daily cap lets through
  Withdrawals,   \* burns of wBOB
  BurnSat,       \* BurnSat[w]: what w burns
  OutsideSat,    \* wBOB that is minted and burned outside the bridge
  MaxIncidents   \* bound: operator retries, and faults of a module that adds them

ASSUME LedgerAssumption ==
  /\ IsFiniteSet(Deposits) /\ IsFiniteSet(Withdrawals) /\ Deposits \cap Withdrawals = {}
  /\ DepositSat \in [Deposits -> Nat \ {0}]
  /\ MintedSat \in [Deposits -> Nat]
  /\ \A d \in Deposits : MintedSat[d] <= DepositSat[d]
  /\ BurnSat \in [Withdrawals -> Nat \ {0}]
  /\ OutsideSat \in Nat \ {0}
  /\ MaxIncidents \in Nat

Spenders == Deposits \cup Withdrawals  \* a deposit stands for its refund

VARIABLES
  deposit,     \* deposit[d]: bridge_orders.state of an inbound order
  refund,      \* refund[d]: deposit_refunds.status
  withdrawal,  \* withdrawal[w]: bridge_orders.state of an outbound order
  available,   \* bridge_utxos with status 'available'
  held,        \* held[x]: bridge_utxos reserved for x
  tx,          \* tx[x]: the amounts on record of the transaction signed for x
  sent,        \* those of x whose transaction is recorded as broadcast
  supply,      \* totalSupply of wBOB
  outside,     \* whether wBOB minted outside the bridge is in the supply
  incidents    \* operator retries and faults so far

fundsVars == <<deposit, refund, withdrawal, available, held, tx, sent, supply, outside>>
ledgerVars == <<fundsVars, incidents>>

NoTx == [pays |-> 0, change |-> 0, fee |-> 0, bridgeFee |-> 0]

LedgerInit ==
  /\ deposit = [d \in Deposits |-> "DEPOSIT_FINALIZED"]
  /\ refund = [d \in Deposits |-> "none"]
  /\ withdrawal = [w \in Withdrawals |-> "none"]
  /\ available = {}
  /\ held = [x \in Spenders |-> {}]
  /\ tx = [x \in Spenders |-> NoTx]
  /\ sent = {}
  /\ supply = 0
  /\ outside = FALSE
  /\ incidents = 0

Incident == incidents < MaxIncidents /\ incidents' = incidents + 1

DepositCoin(d) == [of |-> d, kind |-> "deposit", sat |-> DepositSat[d]]

Excess(d) == DepositSat[d] - MintedSat[d]

-------------------------------------------------------------------------------
(* What happens to x's coins when its transaction is signed, and sent.     *)

Reserve(x, inputs, t) ==
  /\ available' = available \ inputs
  /\ held' = [held EXCEPT ![x] = inputs]
  /\ tx' = [tx EXCEPT ![x] = t]

Spend(x) ==
  /\ available' = IF tx[x].change > 0
                  THEN available \cup {[of |-> x, kind |-> "change", sat |-> tx[x].change]}
                  ELSE available
  /\ held' = [held EXCEPT ![x] = {}]
  /\ sent' = sent \cup {x}

-------------------------------------------------------------------------------
(* Deposits: mint-executor.ts.                                             *)

(* createPendingAuths: the whole deposit enters the pool, at the split.    *)
CreateAuth(d) ==
  /\ deposit[d] = "DEPOSIT_FINALIZED"
  /\ deposit' = [deposit EXCEPT ![d] = IF MintedSat[d] > 0 THEN "MINT_AUTH_CREATED"
                                       ELSE "REFUNDED"]
  /\ available' = available \cup {DepositCoin(d)}
  /\ refund' = [refund EXCEPT ![d] = IF Excess(d) = 0 THEN "none"
                                     ELSE IF IsRefundTooSmall(Excess(d)) THEN "too_small"
                                     ELSE "queued"]
  /\ UNCHANGED <<withdrawal, held, tx, sent, supply, outside, incidents>>

(* executeMint is mined.                                                   *)
Mint(d) ==
  /\ deposit[d] = "MINT_AUTH_CREATED"
  /\ deposit' = [deposit EXCEPT ![d] = "MINT_SUBMITTED"]
  /\ supply' = supply + MintedSat[d]
  /\ UNCHANGED <<refund, withdrawal, available, held, tx, sent, outside, incidents>>

(* checkMintReceipts, both edges. *)
CompleteMint(d) ==
  /\ deposit[d] = "MINT_SUBMITTED"
  /\ deposit' = [deposit EXCEPT ![d] = "COMPLETED"]
  /\ UNCHANGED <<refund, withdrawal, available, held, tx, sent, supply, outside, incidents>>

-------------------------------------------------------------------------------
(* Refunds: refund-executor.ts.                                            *)

RefundInputs(d) == SelectForRefund(available, Excess(d), {DepositCoin(d)})

Sendable(d, inputs) == RefundSendable(TotalSat(inputs), Cardinality(inputs), Excess(d))

SignRefund(d) ==
  /\ refund[d] = "queued"
  /\ \E inputs \in RefundInputs(d) :
       /\ Sendable(d, inputs)
       /\ Reserve(d, inputs, RefundTx(TotalSat(inputs), Cardinality(inputs), Excess(d)))
  /\ refund' = [refund EXCEPT ![d] = "signed"]
  /\ UNCHANGED <<deposit, withdrawal, sent, supply, outside, incidents>>

(* Its sender cannot be determined, or dust would be left to pay.  Without *)
(* enough coins it waits.                                                  *)
ParkRefund(d) ==
  /\ refund[d] = "queued"
  /\ \E status \in {"needs_attention", "too_small"} :
       /\ status = "too_small" => \E inputs \in RefundInputs(d) : ~Sendable(d, inputs)
       /\ refund' = [refund EXCEPT ![d] = status]
  /\ UNCHANGED <<deposit, withdrawal, available, held, tx, sent, supply, outside, incidents>>

BroadcastRefund(d) ==
  /\ refund[d] = "signed"
  /\ Spend(d)
  /\ refund' = [refund EXCEPT ![d] = "broadcast"]
  /\ UNCHANGED <<deposit, withdrawal, tx, supply, outside, incidents>>

(* The node refused it: its inputs stay reserved. *)
RefuseRefund(d) ==
  /\ refund[d] = "signed"
  /\ refund' = [refund EXCEPT ![d] = "needs_attention"]
  /\ UNCHANGED <<deposit, withdrawal, available, held, tx, sent, supply, outside, incidents>>

(* An operator sets it back to signed. *)
RetryRefund(d) ==
  /\ refund[d] = "needs_attention" /\ held[d] # {}
  /\ Incident
  /\ refund' = [refund EXCEPT ![d] = "signed"]
  /\ UNCHANGED <<deposit, withdrawal, available, held, tx, sent, supply, outside>>

-------------------------------------------------------------------------------
(* Withdrawals: event-watcher.ts and payout-executor.ts.                   *)

Transition(w, from, to) ==
  /\ withdrawal[w] = from
  /\ withdrawal' = [withdrawal EXCEPT ![w] = to]

(* A burn, to its confirmation. *)
Burn(w) ==
  /\ supply >= BurnSat[w]
  /\ supply' = supply - BurnSat[w]
  /\ Transition(w, "none", "PAYOUT_QUEUED")
  /\ UNCHANGED <<deposit, refund, available, held, tx, sent, outside, incidents>>

(* _buildAndSignPayout. *)
SignPayout(w) ==
  /\ w \notin sent /\ held[w] = {}
  /\ BurnSat[w] > DUST_THRESHOLD_SAT
  /\ \E inputs \in SelectUtxos(available, BurnSat[w]) :
       Reserve(w, inputs, PayoutTx(TotalSat(inputs), Cardinality(inputs), BurnSat[w]))
  /\ Transition(w, "PAYOUT_QUEUED", "PAYOUT_SIGNED")
  /\ UNCHANGED <<deposit, refund, sent, supply, outside, incidents>>

(* The coins are still held for the transaction signed before.             *)
RetrySameTx(w) ==
  /\ w \notin sent /\ held[w] # {}
  /\ Transition(w, "PAYOUT_QUEUED", "PAYOUT_SIGNED")
  /\ UNCHANGED <<deposit, refund, available, held, tx, sent, supply, outside, incidents>>

(* _transitionOutbound to MANUAL_REVIEW: not payable, too few coins, paid  *)
(* already; the node refuses to say; the payout is forgotten.              *)
ParkPayout(w) ==
  /\ \E from \in {"PAYOUT_QUEUED", "PAYOUT_SIGNED", "PAYOUT_BROADCAST"} :
       Transition(w, from, "MANUAL_REVIEW")
  /\ UNCHANGED <<deposit, refund, available, held, tx, sent, supply, outside, incidents>>

ParkAndRelease(w) ==
  /\ Transition(w, "PAYOUT_SIGNED", "MANUAL_REVIEW")
  /\ available' = available \cup held[w]
  /\ held' = [held EXCEPT ![w] = {}]
  /\ UNCHANGED <<deposit, refund, tx, sent, supply, outside, incidents>>

(* _commitBroadcast. *)
BroadcastPayout(w) ==
  /\ Transition(w, "PAYOUT_SIGNED", "PAYOUT_BROADCAST")
  /\ Spend(w)
  /\ UNCHANGED <<deposit, refund, tx, supply, outside, incidents>>

(* confirmBroadcast, both edges. *)
CompletePayout(w) ==
  /\ Transition(w, "PAYOUT_BROADCAST", "COMPLETED")
  /\ UNCHANGED <<deposit, refund, available, held, tx, sent, supply, outside, incidents>>

(* An operator retries a parked order. *)
Requeue(w) ==
  /\ Incident
  /\ Transition(w, "MANUAL_REVIEW", "PAYOUT_QUEUED")
  /\ UNCHANGED <<deposit, refund, available, held, tx, sent, supply, outside>>

-------------------------------------------------------------------------------
(* wBOB that no deposit stands for is minted, and burned again.            *)

OutsideMint ==
  /\ ~outside
  /\ outside' = TRUE
  /\ supply' = supply + OutsideSat
  /\ UNCHANGED <<deposit, refund, withdrawal, available, held, tx, sent, incidents>>

OutsideBurn ==
  /\ outside /\ supply >= OutsideSat
  /\ outside' = FALSE
  /\ supply' = supply - OutsideSat
  /\ UNCHANGED <<deposit, refund, withdrawal, available, held, tx, sent, incidents>>

LedgerNext ==
  \/ \E d \in Deposits :
       \/ CreateAuth(d) \/ Mint(d) \/ CompleteMint(d)
       \/ SignRefund(d) \/ ParkRefund(d) \/ BroadcastRefund(d) \/ RefuseRefund(d)
       \/ RetryRefund(d)
  \/ \E w \in Withdrawals :
       \/ Burn(w) \/ SignPayout(w) \/ RetrySameTx(w) \/ ParkPayout(w) \/ ParkAndRelease(w)
       \/ BroadcastPayout(w) \/ CompletePayout(w) \/ Requeue(w)
  \/ OutsideMint \/ OutsideBurn

-------------------------------------------------------------------------------
PoolSat == TotalSat(available)

OwnSat == PoolSat + TotalSat(UNION {held[x] : x \in Spenders})

(* Sum of fee_sat of payouts with a txid and of bridge_fee_sat of refunds  *)
(* that are out.                                                           *)
FeesPaidSat == SumOver([x \in sent |-> tx[x].bridgeFee], sent)

Minted == {d \in Deposits : deposit[d] = "COMPLETED"}
PaidOut == {w \in Withdrawals : withdrawal[w] = "COMPLETED"}
InReview == {w \in Withdrawals : withdrawal[w] = "MANUAL_REVIEW"}
===============================================================================
