----------------------------- MODULE RefundExecutor -----------------------------
(***************************************************************************)
(* The refund executor (backend/src/executor/refund-executor.ts): what a   *)
(* deposit had over the daily cap goes back to its sender.  It runs in the *)
(* poll of the payout executor, after the payouts, over the same coins and *)
(* the same node, so a process is in the middle of one job of the two.     *)
(*                                                                         *)
(* The sender's address is abstracted to whether it is known, an alert to  *)
(* its mark in the row.  resolveSenders, announceSplits and the UPDATEs of *)
(* _park and confirmBroadcast repeat in their WHERE what was read, so each *)
(* is one step.                                                            *)
(***************************************************************************)
EXTENDS PayoutExecutor

CONSTANTS
  Refunds,     \* rows of deposit_refunds
  OwnDeposit,  \* OwnDeposit[r]: the deposit that r returns a part of
  MaxRetries,  \* bound: parked refunds an operator sets going again
  MaxResets    \* bound: signed refunds an operator sets back to 'queued'

ASSUME RefundAssumption ==
  /\ Refunds \subseteq Payers \ Orders
  /\ OwnDeposit \in [Refunds -> Coins]
  /\ {MaxRetries, MaxResets} \subseteq Nat

VARIABLES
  refund,   \* refund[r]: its row; tx is signed_hex and txid
  retries,  \* parked refunds set going again so far
  resets    \* signed refunds set back to 'queued' so far

refundVars == <<refund, retries, resets>>
bridgeVars == <<vars, refundVars>>

-------------------------------------------------------------------------------
BridgeInit ==
  /\ Init
  /\ refund = [r \in Refunds |-> [status |-> "queued", address |-> FALSE,
                                  alerted |-> FALSE, tx |-> 0]]
  /\ retries = 0 /\ resets = 0

(* An UPDATE guarded by the status it starts from. *)
Move(r, from, to) ==
  refund' = IF refund[r].status = from THEN [refund EXCEPT ![r].status = to] ELSE refund

(* The first input's previous output names the sender, or nobody does. *)
ResolveSender(i, r) ==
  /\ proc[i] = Idle
  /\ refund[r].status = "queued" /\ ~refund[r].address
  /\ \/ refund' = [refund EXCEPT ![r].address = TRUE]
     \/ Move(r, "queued", "needs_attention")
  /\ UNCHANGED <<vars, retries, resets>>

(* As AnnounceSplit, of the parked ones alone. *)
AnnounceParked(i, r) ==
  /\ proc[i] = Idle
  /\ ~refund[r].alerted
  /\ refund[r].status \in {"needs_attention", "too_small"}
  /\ refund' = [refund EXCEPT ![r].alerted = TRUE]
  /\ UNCHANGED <<vars, retries, resets>>

AnnounceSplit(i, r) ==
  /\ proc[i] = Idle
  /\ ~refund[r].alerted
  /\ refund[r].address \/ refund[r].status \in {"needs_attention", "too_small"}
  /\ refund' = [refund EXCEPT ![r].alerted = TRUE]
  /\ UNCHANGED <<vars, retries, resets>>

(* planRefund: the own deposit, which covers the excess, or else others.   *)
RefundInputs(r) ==
  IF OwnDeposit[r] \in Available THEN {{OwnDeposit[r]}} ELSE (SUBSET Available) \ {{}}

BuildRefund(i, r) ==
  /\ proc[i] = Idle
  /\ refund[r].status = "queued" /\ refund[r].address /\ refund[r].alerted
  /\ \E S \in RefundInputs(r) :
       Proceed(i, [pc |-> "refund_sign", refund |-> r, inputs |-> S])
  /\ UNCHANGED <<nodeVars, utxo, faults, payoutVars, fails, refundVars>>

(* It cannot be built, now or ever (too small, or any other error).        *)
ParkUnbuilt(i, r) ==
  /\ proc[i] = Idle
  /\ refund[r].status = "queued" /\ refund[r].address /\ refund[r].alerted
  /\ \E to \in {"too_small", "needs_attention"} : Move(r, "queued", to)
  /\ UNCHANGED <<vars, retries, resets>>

RefundSignable(p) ==
  /\ refund[p.refund].status = "queued"
  /\ p.inputs \subseteq Available

(* The transaction of _signOne: the row and every coin are still free. *)
SignRefund(i) ==
  /\ proc[i].pc = "refund_sign"
  /\ Len(txs) < MaxTxs
  /\ LET r == proc[i].refund
     IN  IF RefundSignable(proc[i])
         THEN /\ \E change \in BOOLEAN :
                   txs' = Append(txs, [payer |-> r, inputs |-> proc[i].inputs,
                                       change |-> change])
              /\ utxo' = Reserve(proc[i].inputs, r)
              /\ refund' = [refund EXCEPT ![r].status = "signed", ![r].tx = Len(txs) + 1]
         ELSE UNCHANGED <<txs, utxo, refund>>
  /\ Done(i)
  /\ UNCHANGED <<node, relayed, copied, inflight, refusals, forgets, faults,
                 payoutVars, fails, retries, resets>>

ReadSignedRefund(i, r) ==
  /\ proc[i] = Idle
  /\ refund[r].status = "signed"
  /\ Proceed(i, [pc |-> "refund_send", refund |-> r, tx |-> refund[r].tx])
  /\ UNCHANGED <<nodeVars, utxo, faults, payoutVars, fails, refundVars>>

(* Every refusal but "already in chain" parks the refund. *)
SendRefund(i) ==
  /\ proc[i].pc = "refund_send"
  /\ \/ /\ \E answer \in Answers(proc[i].tx) :
             /\ Answer(proc[i].tx, answer)
             /\ Proceed(i, [proc[i] EXCEPT !.pc = IF answer \in {"ok", "inchain"}
                                                  THEN "refund_record" ELSE "refund_park"])
        /\ UNCHANGED faults
     \/ /\ faults < MaxFaults
        /\ faults' = faults + 1
        /\ AnswerLost(proc[i].tx)
        /\ Done(i)
  /\ UNCHANGED <<utxo, payoutVars, fails, refundVars>>

(* As RecordRefund, leaving the coins reserved. *)
RecordRefundUnspent(i) ==
  /\ proc[i].pc = "refund_record"
  /\ refund' = [refund EXCEPT ![proc[i].refund].status = "broadcast",
                              ![proc[i].refund].tx = proc[i].tx]
  /\ Done(i)
  /\ UNCHANGED <<nodeVars, utxo, faults, payoutVars, fails, retries, resets>>

RecordRefund(i) ==
  /\ proc[i].pc = "refund_record"
  /\ LET r == proc[i].refund
     IN  IF refund[r].status = "signed"
         THEN /\ refund' = [refund EXCEPT ![r].status = "broadcast", ![r].tx = proc[i].tx]
              /\ utxo' = Spend(r, {}, proc[i].tx)
         ELSE UNCHANGED <<refund, utxo>>
  /\ Done(i)
  /\ UNCHANGED <<nodeVars, faults, payoutVars, fails, retries, resets>>

(* As ParkRefused, to be built anew. *)
ParkRefusedRequeued(i) ==
  /\ proc[i].pc = "refund_park"
  /\ Move(proc[i].refund, "signed", "queued")
  /\ Done(i)
  /\ UNCHANGED <<nodeVars, utxo, faults, payoutVars, fails, retries, resets>>

ParkRefused(i) ==
  /\ proc[i].pc = "refund_park"
  /\ Move(proc[i].refund, "signed", "needs_attention")
  /\ Done(i)
  /\ UNCHANGED <<nodeVars, utxo, faults, payoutVars, fails, retries, resets>>

ConfirmRefund(i, r) ==
  /\ proc[i] = Idle
  /\ refund[r].status = "broadcast"
  /\ node[refund[r].tx] = "deep"
  /\ Move(r, "broadcast", "confirmed")
  /\ UNCHANGED <<vars, retries, resets>>

-------------------------------------------------------------------------------
(* An operator: "reset status to 'signed' to retry", or sets the address   *)
(* of a refund that was never signed and queues it.                        *)
RetryRefund(r) ==
  /\ refund[r].status = "needs_attention"
  /\ retries < MaxRetries
  /\ retries' = retries + 1
  /\ refund' = [refund EXCEPT ![r].status = IF refund[r].tx # 0 THEN "signed" ELSE "queued",
                              ![r].address = TRUE]
  /\ UNCHANGED <<vars, resets>>

(* migration 012: "(... build or broadcast refused). Operator ... resets   *)
(* status to 'queued' by hand".                                            *)
ResetRefund(r) ==
  /\ refund[r].status = "needs_attention" /\ refund[r].tx # 0
  /\ resets < MaxResets
  /\ resets' = resets + 1
  /\ refund' = [refund EXCEPT ![r].status = "queued"]
  /\ UNCHANGED <<vars, retries>>

BeginRefund(i, r) ==
  \/ ResolveSender(i, r) \/ AnnounceSplit(i, r) \/ BuildRefund(i, r) \/ ParkUnbuilt(i, r)
  \/ ReadSignedRefund(i, r) \/ ConfirmRefund(i, r)

RefundWork(i) == SignRefund(i) \/ SendRefund(i) \/ RecordRefund(i) \/ ParkRefused(i)

BridgeNext ==
  \/ Next /\ UNCHANGED refundVars
  \/ \E i \in Instances : RefundWork(i) \/ \E r \in Refunds : BeginRefund(i, r)
  \/ \E r \in Refunds : RetryRefund(r) \/ ResetRefund(r)

BridgeSpec == BridgeInit /\ [][BridgeNext]_bridgeVars

(* As for payouts: every poll goes over every row in a state it handles. *)
BridgeFairSpec ==
  /\ BridgeSpec
  /\ \A i \in Instances :
       /\ WF_bridgeVars(Work(i) /\ UNCHANGED refundVars) /\ WF_bridgeVars(RefundWork(i))
       /\ \A o \in Orders : SF_bridgeVars(Begin(i, o) /\ UNCHANGED refundVars)
       /\ \A r \in Refunds :
            /\ SF_bridgeVars(BeginRefund(i, r) /\ refund[r].status # "queued")
            /\ SF_bridgeVars(ResolveSender(i, r) \/ AnnounceSplit(i, r))
            /\ SF_bridgeVars(BuildRefund(i, r) \/ ParkUnbuilt(i, r))
  /\ \A k \in TxIds :
       /\ WF_bridgeVars(k \in Signed /\ node[k] = "mempool" /\ Mine(k) /\ Network /\ UNCHANGED refundVars)
       /\ WF_bridgeVars(k \in Signed /\ Bury(k) /\ Network /\ UNCHANGED refundVars)

-------------------------------------------------------------------------------
(* Properties.                                                             *)

RefundStatus == {"queued", "signed", "broadcast", "confirmed", "needs_attention", "too_small"}

(* Every variable has its type, and a refund past 'queued' names one of    *)
(* its own transactions.                                                   *)
BridgeTypeOK ==
  /\ TypeOK
  /\ refund \in [Refunds -> [status : RefundStatus, address : BOOLEAN,
                             alerted : BOOLEAN, tx : 0 .. Len(txs)]]
  /\ \A r \in Refunds :
       refund[r].status \in {"signed", "broadcast", "confirmed"} => refund[r].tx \in SignedFor(r)
  /\ \A i \in Instances : proc[i].pc \in RefundSteps => proc[i].refund \in Refunds

(* refund-executor.ts:20: "the refund takes exactly excess_sat back out":  *)
(* one transaction at most ever pays it, whatever was lost or retried.     *)
RefundedAtMostOnce == \A r \in Refunds : Cardinality(Payments(r)) <= 1

(* What a refund row says agrees with the chain and the pool: one that was *)
(* broadcast is with the network and its inputs are spent, a confirmed one *)
(* is under as many blocks as it waits for.                                *)
RefundAgreesWithChain ==
  \A r \in Refunds :
    /\ refund[r].status \in {"broadcast", "confirmed"} =>
         refund[r].tx \in relayed /\ Inputs(refund[r].tx) \subseteq SpentBy(r)
    /\ refund[r].status = "confirmed" => node[refund[r].tx] = "deep"

(* payout-executor.ts:147: "payouts and refunds never pick bridge UTXOs at *)
(* the same time": no two transactions the network may hold, of different  *)
(* payers, spend one coin.                                                 *)
NoCoinForTwo ==
  \A j, k \in relayed \cup inflight :
    txs[j].payer # txs[k].payer => Inputs(j) \cap Inputs(k) = {}

(* refund-executor.ts:7-11: a refund whose deposit no one else spends and  *)
(* whose transaction the node keeps ends confirmed, too small or before a  *)
(* human.                                                                  *)
RefundSettles ==
  \A r \in Refunds :
    []( /\ utxo[OwnDeposit[r]].by \subseteq {r}
        /\ \A k \in SignedFor(r) : k \in relayed => Holds(k)) =>
      <>(refund[r].status \in {"confirmed", "too_small", "needs_attention"})

(* refund-executor.ts:11: "broadcast -- 3 confs --> confirmed", also after *)
(* the node forgot the transaction.                                        *)
BroadcastConfirms ==
  \A r \in Refunds : refund[r].status = "broadcast" ~> refund[r].status = "confirmed"
===============================================================================
