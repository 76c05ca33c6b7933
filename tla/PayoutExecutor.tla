---------------------------- MODULE PayoutExecutor ----------------------------
(***************************************************************************)
(* The payout executor (backend/src/executor/payout-executor.ts): from a   *)
(* queued withdrawal to a confirmed Dobbscoin payment, by one or several   *)
(* backend instances over one database, with the node, the network and an  *)
(* operator who re-queues parked orders.                                   *)
(*                                                                         *)
(* A step reaches from one await on the node or on another transaction to  *)
(* the next; what an instance has read and has yet to use is in proc[i].   *)
(* Amounts are left out: a selection is any set of available coins, and it *)
(* may always turn out to be insufficient.                                 *)
(***************************************************************************)
EXTENDS BridgeWallet

CONSTANTS
  Orders,        \* withdrawals that reached PAYOUT_QUEUED
  Payable,       \* those whose destination, amount and burn check out
  MaxAttempts,   \* MAX_SEND_ATTEMPTS
  MaxResends,    \* RESEND_FORGOTTEN_MAX_FAILURES
  MaxRequeues    \* bound: orders an operator sets back to PAYOUT_QUEUED

ASSUME PayoutAssumption ==
  /\ Orders \subseteq Payers
  /\ Payable \subseteq Orders
  /\ {MaxAttempts, MaxResends} \subseteq Nat \ {0}
  /\ MaxRequeues \in Nat

VARIABLES
  order,     \* order[o]: bridge_orders.state
  payout,    \* payout[o]: the payouts row, and whether RETRY_SAME_TX is audited
  attempts,  \* attempts[k]: audited sends of k: all, refused, since the last retry
  fails,     \* fails[i][o]: resendState of instance i, in memory
  requeues   \* operator retries so far

payoutVars == <<order, payout, attempts, requeues>>
vars == <<nodeVars, utxo, proc, faults, payoutVars, fails>>

-------------------------------------------------------------------------------
PayoutInit ==
  /\ order = [o \in Orders |-> "PAYOUT_QUEUED"]
  /\ payout = [o \in Orders |-> [row |-> FALSE, txid |-> 0, retried |-> FALSE]]
  /\ attempts = [k \in TxIds |-> [all |-> 0, refused |-> 0, recent |-> 0]]
  /\ fails = [i \in Instances |-> [o \in Orders |-> 0]]
  /\ requeues = 0

Init == WalletInit /\ PayoutInit

(* The transactions audited as PAYOUT_SIGNED for o. *)
SignedFor(o) == {k \in Signed : txs[k].payer = o}

Newest(o) == CHOOSE k \in SignedFor(o) : \A j \in SignedFor(o) : j <= k

(* _transitionOutbound: nothing happens unless the order is still there. *)
Transition(o, from, to) ==
  order' = IF order[o] = from THEN [order EXCEPT ![o] = to] ELSE order

Proceed(i, step) == proc' = [proc EXCEPT ![i] = step]

Done(i) == Proceed(i, Idle)

-------------------------------------------------------------------------------
(* processQueued.                                                          *)

ReadQueued(i, o) ==
  /\ proc[i] = Idle
  /\ order[o] = "PAYOUT_QUEUED"
  /\ Proceed(i, [pc |-> "queued", order |-> o, row |-> payout[o].row,
                 held |-> HeldBy(o) # {},
                 out |-> payout[o].txid # 0 \/ SpentBy(o) # {}])
  /\ UNCHANGED <<nodeVars, utxo, faults, payoutVars, fails>>

(* Not payable, or its transaction already went out. *)
ParkUnpayable(i) ==
  /\ proc[i].pc = "queued"
  /\ proc[i].order \notin Payable \/ (proc[i].row /\ proc[i].out)
  /\ Transition(proc[i].order, "PAYOUT_QUEUED", "MANUAL_REVIEW")
  /\ Done(i)
  /\ UNCHANGED <<nodeVars, utxo, faults, payout, attempts, requeues, fails>>

(* An operator retry whose inputs are still held: that transaction again.  *)
RetrySameTx(i) ==
  /\ proc[i].pc = "queued"
  /\ proc[i].order \in Payable
  /\ proc[i].row /\ ~proc[i].out /\ proc[i].held
  /\ LET o == proc[i].order
     IN  IF order[o] = "PAYOUT_QUEUED"
         THEN /\ order' = [order EXCEPT ![o] = "PAYOUT_SIGNED"]
              /\ payout' = [payout EXCEPT ![o].retried = TRUE]
              /\ attempts' = [k \in TxIds |-> IF k \in SignedFor(o)
                                              THEN [attempts[k] EXCEPT !.recent = 0]
                                              ELSE attempts[k]]
         ELSE UNCHANGED <<order, payout, attempts>>
  /\ Done(i)
  /\ UNCHANGED <<nodeVars, utxo, faults, requeues, fails>>

(* The check of older signatures and _alreadyPaidReason: no transaction    *)
(* ever signed for this withdrawal is known to the node, nor an input of   *)
(* one spent.                                                              *)
MayHavePaid(o) ==
  \E k \in SignedFor(o) : Holds(k) \/ (\E c \in Inputs(k) : ~IsUnspent(c))

CheckUnpaid(i) ==
  /\ proc[i].pc = "queued"
  /\ proc[i].order \in Payable
  /\ proc[i].row => ~proc[i].out /\ ~proc[i].held
  /\ IF MayHavePaid(proc[i].order)
     THEN /\ Transition(proc[i].order, "PAYOUT_QUEUED", "MANUAL_REVIEW")
          /\ Done(i)
     ELSE /\ Proceed(i, [pc |-> "select", order |-> proc[i].order, row |-> proc[i].row])
          /\ UNCHANGED order
  /\ UNCHANGED <<nodeVars, utxo, faults, payout, attempts, requeues, fails>>

(* _buildAndSignPayout up to its transaction: select among the available.  *)
SelectInputs(i) ==
  /\ proc[i].pc = "select"
  /\ \/ /\ \E S \in (SUBSET Available) \ {{}} :
             Proceed(i, [pc |-> "sign", order |-> proc[i].order, row |-> proc[i].row,
                         inputs |-> S])
        /\ UNCHANGED order
     \/ /\ Transition(proc[i].order, "PAYOUT_QUEUED", "MANUAL_REVIEW")
        /\ Done(i)
  /\ UNCHANGED <<nodeVars, utxo, faults, payout, attempts, requeues, fails>>

(* Its transaction.  A second payouts row, or one that is not free to be   *)
(* signed again, is an error and parks the order; a coin taken since it    *)
(* was selected rolls back and leaves the order queued.                    *)
RowConflict(o, row) ==
  IF row THEN (HeldBy(o) \cup SpentBy(o) # {}) \/ payout[o].txid # 0 ELSE payout[o].row

(* As Signable, whether or not the coins are still available.              *)
SignableUnguarded(p) == order[p.order] = "PAYOUT_QUEUED" /\ ~RowConflict(p.order, p.row)

Signable(p) ==
  /\ order[p.order] = "PAYOUT_QUEUED"
  /\ ~RowConflict(p.order, p.row)
  /\ p.inputs \subseteq Available

SignCommit(i) ==
  /\ proc[i].pc = "sign"
  /\ Len(txs) < MaxTxs
  /\ LET o == proc[i].order
     IN  IF Signable(proc[i])
         THEN /\ \E change \in BOOLEAN :
                   txs' = Append(txs, [payer |-> o, inputs |-> proc[i].inputs,
                                       change |-> change])
              /\ utxo' = Reserve(proc[i].inputs, o)
              /\ payout' = [payout EXCEPT ![o].row = TRUE]
              /\ order' = [order EXCEPT ![o] = "PAYOUT_SIGNED"]
         ELSE /\ IF RowConflict(o, proc[i].row)
                 THEN Transition(o, "PAYOUT_QUEUED", "MANUAL_REVIEW")
                 ELSE UNCHANGED order
              /\ UNCHANGED <<txs, utxo, payout>>
  /\ Done(i)
  /\ UNCHANGED <<node, relayed, copied, inflight, refusals, forgets, faults,
                 attempts, requeues, fails>>

-------------------------------------------------------------------------------
(* broadcastSigned.                                                        *)

ReadSigned(i, o) ==
  /\ proc[i] = Idle
  /\ order[o] = "PAYOUT_SIGNED"
  /\ payout[o].txid = 0
  /\ Proceed(i, [pc |-> "attempt", order |-> o, tx |-> Newest(o)])
  /\ UNCHANGED <<nodeVars, utxo, faults, payoutVars, fails>>

(* _recordBroadcastAttempt: audit the send, report the sends before it.    *)
RecordAttempt(i) ==
  /\ proc[i].pc = "attempt"
  /\ LET k == proc[i].tx
     IN  /\ Proceed(i, [pc |-> "send", order |-> proc[i].order, tx |-> k,
                        maybeOut |-> attempts[k].all # attempts[k].refused,
                        sinceRetry |-> attempts[k].recent,
                        retried |-> payout[proc[i].order].retried])
         /\ attempts' = [attempts EXCEPT ![k].all = @ + 1, ![k].recent = @ + 1]
  /\ UNCHANGED <<nodeVars, utxo, faults, order, payout, requeues, fails>>

Failed(p, error) ==
  [pc |-> "lookup", order |-> p.order, tx |-> p.tx, maybeOut |-> p.maybeOut,
   sinceRetry |-> p.sinceRetry, retried |-> p.retried, error |-> error]

Recording(p) == [pc |-> "record", order |-> p.order, tx |-> p.tx]

Send(i) ==
  /\ proc[i].pc = "send"
  /\ \/ /\ \E answer \in Answers(proc[i].tx) :
             /\ Answer(proc[i].tx, answer)
             /\ Proceed(i, IF answer \in {"ok", "inchain"} THEN Recording(proc[i])
                           ELSE Failed(proc[i], answer))
        /\ UNCHANGED faults
     \/ /\ faults < MaxFaults
        /\ faults' = faults + 1
        /\ AnswerLost(proc[i].tx)
        /\ Proceed(i, Failed(proc[i], "network"))
  /\ UNCHANGED <<utxo, payoutVars, fails>>

(* As MayRelease, trusting a refusal whatever came before it.              *)
ReleasedOnRefusal(p) == p.error = "refused"

(* The node refused it, and no earlier send can have got through.          *)
MayRelease(p) == p.error = "refused" /\ ~p.maybeOut /\ ~p.retried

(* isTransient, under MAX_SEND_ATTEMPTS.                                   *)
Retryable(p) == p.error \in {"network", "missing"} /\ p.sinceRetry + 1 < MaxAttempts

(* _nodeHas after a failed send: the node has it, has it not, or (fault)   *)
(* does not say; then steps 3 to 6 of the code.                            *)
LookUp(i) ==
  /\ proc[i].pc = "lookup"
  /\ LET p == proc[i]
     IN  \E has \in {"yes", "no", "unreachable"} :
           /\ has = "unreachable" => faults < MaxFaults
           /\ has # "unreachable" => (has = "yes") = Holds(p.tx)
           /\ faults' = faults + (IF has = "unreachable" THEN 1 ELSE 0)
           /\ Proceed(i, IF has = "yes" THEN Recording(p)
                         ELSE IF MayRelease(p)
                         THEN IF has = "no"
                              THEN [pc |-> "release", order |-> p.order, tx |-> p.tx]
                              ELSE Idle
                         ELSE IF Retryable(p) THEN Idle
                         ELSE [pc |-> "park", order |-> p.order, tx |-> p.tx])
           /\ attempts' = IF has # "yes" /\ p.error = "refused"
                          THEN [attempts EXCEPT ![p.tx].refused = @ + 1] ELSE attempts
  /\ UNCHANGED <<nodeVars, utxo, order, payout, requeues, fails>>

(* _commitBroadcast, also when the order moved meanwhile. *)
Commit(i) ==
  /\ proc[i].pc = "record"
  /\ LET o == proc[i].order
         k == proc[i].tx
     IN  /\ payout' = [payout EXCEPT ![o].txid = k]
         /\ utxo' = Spend(o, IF order[o] = "PAYOUT_SIGNED" THEN {} ELSE Inputs(k), k)
         /\ Transition(o, "PAYOUT_SIGNED", "PAYOUT_BROADCAST")
  /\ Done(i)
  /\ UNCHANGED <<nodeVars, faults, attempts, requeues, fails>>

ParkAndRelease(i) ==
  /\ proc[i].pc = "release"
  /\ utxo' = IF order[proc[i].order] = "PAYOUT_SIGNED" THEN Release(proc[i].order) ELSE utxo
  /\ Transition(proc[i].order, "PAYOUT_SIGNED", "MANUAL_REVIEW")
  /\ Done(i)
  /\ UNCHANGED <<nodeVars, faults, payout, attempts, requeues, fails>>

ParkHeld(i) ==
  /\ proc[i].pc = "park"
  /\ Transition(proc[i].order, "PAYOUT_SIGNED", "MANUAL_REVIEW")
  /\ Done(i)
  /\ UNCHANGED <<nodeVars, utxo, faults, payout, attempts, requeues, fails>>

-------------------------------------------------------------------------------
(* confirmBroadcast.                                                       *)

Confirm(i, o) ==
  /\ proc[i] = Idle
  /\ order[o] = "PAYOUT_BROADCAST"
  /\ payout[o].txid # 0 /\ node[payout[o].txid] = "deep"
  /\ order' = [order EXCEPT ![o] = "PAYOUT_CONFIRMED"]
  /\ fails' = [fails EXCEPT ![i][o] = 0]
  /\ Proceed(i, [pc |-> "complete", order |-> o])
  /\ UNCHANGED <<nodeVars, utxo, faults, payout, attempts, requeues>>

Complete(i) ==
  /\ proc[i].pc = "complete"
  /\ Transition(proc[i].order, "PAYOUT_CONFIRMED", "COMPLETED")
  /\ Done(i)
  /\ UNCHANGED <<nodeVars, utxo, faults, payout, attempts, requeues, fails>>

(* _resendForgotten.  Its ten minutes between re-sends are left out.       *)
FindForgotten(i, o) ==
  /\ proc[i] = Idle
  /\ order[o] = "PAYOUT_BROADCAST"
  /\ payout[o].txid # 0 /\ ~Holds(payout[o].txid)
  /\ Proceed(i, [pc |-> "resend", order |-> o, tx |-> payout[o].txid])
  /\ UNCHANGED <<nodeVars, utxo, faults, payoutVars, fails>>

(* As Failures, forgetting the earlier ones. *)
FailuresForgotten(i, o) == 1

(* Refused re-sends of o in a row, with this one. *)
Failures(i, o) == fails[i][o] + 1

Resend(i) ==
  /\ proc[i].pc = "resend"
  /\ LET o == proc[i].order
         last == Failures(i, o) >= MaxResends
     IN  \/ \E answer \in Answers(proc[i].tx) :
              /\ Answer(proc[i].tx, answer)
              /\ IF answer \in {"ok", "inchain"}
                 THEN /\ fails' = [fails EXCEPT ![i][o] = 0]
                      /\ UNCHANGED order
                 ELSE /\ fails' = [fails EXCEPT ![i][o] = IF last THEN 0 ELSE Failures(i, o)]
                      /\ IF last THEN Transition(o, "PAYOUT_BROADCAST", "MANUAL_REVIEW")
                         ELSE UNCHANGED order
              /\ UNCHANGED faults
         \/ /\ faults < MaxFaults
            /\ faults' = faults + 1
            /\ AnswerLost(proc[i].tx)
            /\ UNCHANGED <<order, fails>>
  /\ Done(i)
  /\ UNCHANGED <<utxo, payout, attempts, requeues>>

-------------------------------------------------------------------------------
(* An operator sets a parked order back to PAYOUT_QUEUED.                  *)
Requeue(o) ==
  /\ order[o] = "MANUAL_REVIEW"
  /\ requeues < MaxRequeues
  /\ order' = [order EXCEPT ![o] = "PAYOUT_QUEUED"]
  /\ requeues' = requeues + 1
  /\ UNCHANGED <<nodeVars, utxo, proc, faults, payout, attempts, fails>>

(* The process dies, or a database call throws and the poll goes on.       *)
Crash(i) ==
  /\ proc[i] # Idle
  /\ faults < MaxFaults
  /\ faults' = faults + 1
  /\ Done(i)
  /\ \/ UNCHANGED fails
     \/ fails' = [fails EXCEPT ![i] = [o \in Orders |-> 0]]
  /\ UNCHANGED <<nodeVars, utxo, payoutVars>>

Network == NodeNext /\ UNCHANGED <<utxo, proc, faults, payoutVars, fails>>

Work(i) ==
  \/ ParkUnpayable(i) \/ RetrySameTx(i) \/ CheckUnpaid(i) \/ SelectInputs(i) \/ SignCommit(i)
  \/ RecordAttempt(i) \/ Send(i) \/ LookUp(i)
  \/ Commit(i) \/ ParkAndRelease(i) \/ ParkHeld(i)
  \/ Complete(i) \/ Resend(i)

Begin(i, o) == ReadQueued(i, o) \/ ReadSigned(i, o) \/ Confirm(i, o) \/ FindForgotten(i, o)

Next ==
  \/ \E i \in Instances : Work(i) \/ Crash(i) \/ \E o \in Orders : Begin(i, o)
  \/ \E o \in Orders : Requeue(o)
  \/ Network

Spec == Init /\ [][Next]_vars

(* Each poll goes over every order in a state it handles: strong fairness, *)
(* as the loop may be busy with others whenever one becomes eligible.  A   *)
(* started job runs on, and blocks take in what our node's mempool holds.  *)
(* Nothing is assumed of faults, refusals, forgetting and the operator.    *)
Fairness ==
  /\ \A i \in Instances : WF_vars(Work(i)) /\ \A o \in Orders : SF_vars(Begin(i, o))
  /\ \A k \in TxIds : WF_vars(k \in Signed /\ node[k] = "mempool" /\ Mine(k) /\ Network)
  /\ \A k \in TxIds : WF_vars(k \in Signed /\ Bury(k) /\ Network)

FairSpec == Spec /\ Fairness

-------------------------------------------------------------------------------
(* Properties.                                                             *)

OrderStates == {"PAYOUT_QUEUED", "PAYOUT_SIGNED", "PAYOUT_BROADCAST",
                "PAYOUT_CONFIRMED", "COMPLETED", "MANUAL_REVIEW"}

Steps == {"queued", "select", "sign", "attempt", "send", "lookup",
          "record", "release", "park", "complete", "resend"}

(* Of the refund executor, which runs in the same loop.                    *)
RefundSteps == {"refund_sign", "refund_send", "refund_record", "refund_park"}

(* Every variable has its type, a job names a signed transaction of its    *)
(* order, and no more sends are refused than were made.                    *)
TypeOK ==
  /\ WalletTypeOK
  /\ order \in [Orders -> OrderStates]
  /\ payout \in [Orders -> [row : BOOLEAN, txid : 0 .. Len(txs), retried : BOOLEAN]]
  /\ attempts \in [TxIds -> [all : Nat, refused : Nat, recent : Nat]]
  /\ \A k \in TxIds : attempts[k].refused <= attempts[k].all
  /\ fails \in [Instances -> [Orders -> 0 .. MaxResends - 1]]
  /\ requeues \in Nat
  /\ \A i \in Instances :
       /\ proc[i].pc \in {"idle"} \cup Steps \cup RefundSteps
       /\ proc[i].pc \in Steps => proc[i].order \in Orders
       /\ proc[i].pc \in {"attempt", "send", "lookup", "record", "release", "park", "resend"} =>
            proc[i].tx \in SignedFor(proc[i].order)

(* A withdrawal is paid at most once, whatever was refused, lost, copied,  *)
(* forgotten, re-sent or re-queued (processQueued, broadcastSigned).       *)
PaidAtMostOnce == \A o \in Orders : Cardinality(Payments(o)) <= 1

(* A coin the pool offers is no input of a transaction that may be on the  *)
(* network: inputs are released only when their transaction never got out. *)
FreeCoinsAreFree ==
  \A k \in relayed \cup inflight : Inputs(k) \cap Available = {}

(* A withdrawal is signed a second time only if nothing signed for it      *)
(* before was ever given to the network.                                   *)
ResignedOnlyIfNeverOut ==
  [][\A k \in Signed' \ Signed : SignedFor(txs'[k].payer) \cap (relayed \cup inflight) = {}]_vars

(* What an order says agrees with the chain and with the pool: its payout  *)
(* is a transaction of its own that went out, its inputs are spent, and it *)
(* is complete only under as many blocks as it waits for.                  *)
OrderAgreesWithChain ==
  \A o \in Orders :
    LET k == payout[o].txid
    IN  /\ order[o] \in {"PAYOUT_BROADCAST", "PAYOUT_CONFIRMED", "COMPLETED"} =>
             /\ k # 0 /\ k \in SignedFor(o) /\ k \in relayed
             /\ Inputs(k) \subseteq SpentBy(o)
        /\ order[o] \in {"PAYOUT_CONFIRMED", "COMPLETED"} => node[k] = "deep"

(* payout-executor.ts:233: "broadcastSigned only ever sends the newest" of *)
(* the transactions signed for a payout.                                   *)
OnlyNewestSent ==
  \A i \in Instances : proc[i].pc = "send" => proc[i].tx = Newest(proc[i].order)

(* payout-executor.ts:13: a broadcast payout with its confirmations     *)
(* goes on to COMPLETED.                                                   *)
ConfirmedCompletes ==
  \A o \in Orders : order[o] = "PAYOUT_CONFIRMED" ~> order[o] = "COMPLETED"

Lifecycle == INSTANCE OrderStates WITH state <- order

(* outbound.ts: no order ever leaves the table of transitions, also where  *)
(* an instance acts on what it read before another moved the order.        *)
FollowsTransitions == Lifecycle!OutboundSpec

(* Every queued withdrawal is paid or put before a human.                  *)
PayoutSettles ==
  \A o \in Orders : order[o] = "PAYOUT_QUEUED" ~> order[o] \in {"COMPLETED", "MANUAL_REVIEW"}
===============================================================================
