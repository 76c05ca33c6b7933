------------------------ MODULE MintExecutorInvariants ------------------------
(***************************************************************************)
(* Inductive invariants of MintExecutor.  The safety properties do not     *)
(* speak of what is on its way: a transaction sent and not yet mined, a    *)
(* row read and not yet written.  These do, and imply them.                *)
(***************************************************************************)
EXTENDS MintExecutor

-------------------------------------------------------------------------------
(* What the split decides once is never decided again.                     *)

Decided(o) ==
  order[o] \in {"MINT_AUTH_CREATED", "MINT_SUBMITTED", "MINT_CONFIRMED", "COMPLETED", "FAILED"}

(* The row, the refund and the chain agree on how a deposit was split. *)
RowInv(o) ==
  /\ ~req[o].legacy
  /\ Decided(o) <=> req[o].amount > 0
  /\ order[o] = "DEPOSIT_FINALIZED" => refund[o].excess = 0
  /\ order[o] # "DEPOSIT_FINALIZED" => req[o].amount + refund[o].excess = Deposit[o]
  /\ refund[o].excess > 0 => o \in pooled
  /\ minted[o] \in {0, req[o].amount}
  /\ req[o].hash # 0 => txs[req[o].hash].order = o
  /\ order[o] \in {"MINT_CONFIRMED", "COMPLETED"} => minted[o] = req[o].amount

(* A transaction carries the amount of the row it was sent for. *)
TxInv(k) ==
  /\ Decided(txs[k].order)
  /\ txs[k].amount = req[txs[k].order].amount
  /\ txs[k].outcome = "minted" => minted[txs[k].order] = txs[k].amount

(* So does what an instance remembers. *)
JobInv(i) ==
  LET p == proc[i]
  IN  /\ p.pc # "resplit"
      /\ p.pc = "create" => order[p.order] = "DEPOSIT_FINALIZED"
      /\ p.pc = "regen" => ~p.legacy
      /\ p.pc \in {"simulate", "send"} => Decided(p.order) /\ p.amount = req[p.order].amount
      /\ p.pc = "record" => Decided(p.order) /\ txs[p.tx].order = p.order

(* The advisory lock admits one creator at a time. *)
OneCreator ==
  \A i, j \in Instances : proc[i].pc = "create" /\ proc[j].pc = "create" => i = j

(* With no row that predates the split, the amounts of a deposit are       *)
(* decided once and everything on its way carries them (createPendingAuths,*)
(* _regenerate, _submitOne).                                               *)
SplitInv ==
  /\ TypeOK
  /\ \A o \in Orders : RowInv(o)
  /\ \A k \in 1 .. Len(txs) : TxInv(k)
  /\ \A i \in Instances : JobInv(i)
  /\ OneCreator

-------------------------------------------------------------------------------
(* One instance: the capacity it decides from is still there at its commit.*)

(* No transaction of an order is on its way once its row says otherwise. *)
SentInv(o) ==
  /\ order[o] = "MINT_AUTH_CREATED" => req[o].hash = 0
  /\ order[o] = "MINT_SUBMITTED" =>
       \A k \in 1 .. Len(txs) : txs[k].order = o => k <= req[o].hash
  /\ order[o] \in {"MINT_CONFIRMED", "COMPLETED", "FAILED"} =>
       \A k \in 1 .. Len(txs) : txs[k].order = o => k <= mined

Committed == TotalOf(RequestAmount, Owed)

(* What an instance is about to decide from still bounds what is committed,*)
(* however far the chain has moved since it was read.                      *)
CapJobInv(i) ==
  LET p == proc[i]
  IN  /\ p.pc \in {"simulate", "send", "record"} => order[p.order] = "MINT_AUTH_CREATED"
      /\ p.pc = "record" => p.tx = Len(txs)
      /\ p.pc = "create" =>
           /\ MintedToday(CapState, now) + Committed
                <= MintedToday(p.cap, p.cap.time) + OutstandingReserved(p.cap.block, {})
           /\ chain.supply + Committed
                <= p.cap.supply + OutstandingReserved(p.cap.block, {})

(* A single instance never promises capacity the contract does not have,   *)
(* nor forgets a transaction that may still take some.                     *)
CapInv ==
  /\ SplitInv
  /\ \A o \in Orders : SentInv(o)
  /\ \A i \in Instances : CapJobInv(i)
  /\ CapacityNotOvercommitted
  /\ NeverRefusedForTheCap

-------------------------------------------------------------------------------
(* What the executor implements.                                           *)

SplitOf(o) == [mint |-> req[o].amount, refund |-> refund[o].excess]

Ledger == INSTANCE DepositLedger WITH split <- [o \in Orders |-> SplitOf(o)]

(* With no row that predates the split, DepositLedger: the mint request    *)
(* and the refund row divide a deposit once and for all, and the chain     *)
(* mints the first part once, whatever is reissued, sent again or lost.    *)
ImplementsLedger == Ledger!Spec

Lifecycle == INSTANCE OrderStates WITH state <- order

(* inbound.ts:26: no order ever leaves the table of transitions, and a     *)
(* step moves one order by one edge, also after a stale read.              *)
FollowsTransitions == Lifecycle!InboundSpec
===============================================================================
