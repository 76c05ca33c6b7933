----------------------------- MODULE BridgeProofs -----------------------------
(***************************************************************************)
(* One backend instance pays a withdrawal at most once, offers no coin that*)
(* may be spent, and records what the chain says: BridgeInv is an invariant*)
(* of payouts and refunds over one pool, with any number of coins,         *)
(* withdrawals, refunds, faults, copies, forgettings and operator retries. *)
(***************************************************************************)
EXTENDS RefundExecutor, FiniteSetTheorems, TLAPS

-------------------------------------------------------------------------------
(***************************************************************************)
(* The inductive invariant of payouts and refunds over one pool, with one  *)
(* backend instance.  The safety properties speak of what was paid and of  *)
(* what is free; this also speaks of what a job is about to do.            *)
(***************************************************************************)

(* The backend runs as one process. *)
OneInstance == \A i, j \in Instances : i = j

(* What the network holds, or may yet be handed. *)
Out == relayed \cup inflight

-------------------------------------------------------------------------------
(* The network.                                                            *)

NodeInv ==
  /\ \A k \in TxIds : Holds(k) => k \in relayed
  /\ copied \subseteq relayed

(* The coins of k belong to what it pays.                                  *)
Bound(k) ==
  \A c \in Inputs(k) : utxo[c].status \in {"reserved", "spent"} /\ utxo[c].by = {txs[k].payer}

(* A transaction that is out, and one of a refund, keeps its coins.        *)
CoinInv ==
  /\ \A c \in Outputs : utxo[c].status \in {"absent", "available"} => utxo[c].by = {}
  /\ \A k \in Signed : Inputs(k) # {}
  /\ \A k \in Out : Bound(k)
  /\ \A k \in Signed : txs[k].payer \in Refunds => Bound(k)

-------------------------------------------------------------------------------
(* Withdrawals.                                                            *)

(* What must be so of o in a state.                                        *)
StateFits(o, state) ==
  LET k == payout[o].txid
  IN  /\ state = "PAYOUT_SIGNED" => payout[o].row /\ k = 0 /\ Bound(Newest(o))
      /\ state \in {"PAYOUT_BROADCAST", "PAYOUT_CONFIRMED", "COMPLETED"} => k # 0
      /\ state \in {"PAYOUT_CONFIRMED", "COMPLETED"} => node[k] = "deep"

(* Of the transactions signed for o only the newest can be out; o holds    *)
(* coins only with its newest's, and a txid is on record once it is out.   *)
OrderInv(o) ==
  LET k == payout[o].txid
  IN  /\ payout[o].row <=> SignedFor(o) # {}
      /\ SignedFor(o) # {} => Newest(o) \in SignedFor(o)
      /\ \A j \in SignedFor(o) : j <= Newest(o) /\ (j \in Out => j = Newest(o))
      /\ \A c \in Outputs : utxo[c].by = {o} => payout[o].row /\ Bound(Newest(o))
      /\ k = 0 => SpentBy(o) = {}
      /\ k # 0 => k \in SignedFor(o) /\ k \in relayed /\ Inputs(k) \subseteq SpentBy(o)
      /\ StateFits(o, order[o])

(* What a job read is still so: nobody else moves its order.               *)
JobInv(i) ==
  LET p == proc[i]
      o == p.order
  IN  /\ p.pc \in {"queued", "select", "sign"} =>
           order[o] = "PAYOUT_QUEUED" /\ p.row = payout[o].row
      /\ p.pc = "queued" =>
           /\ p.held = (HeldBy(o) # {})
           /\ p.out = (payout[o].txid # 0 \/ SpentBy(o) # {})
      /\ p.pc \in {"sign", "refund_sign"} => p.inputs \in (SUBSET Outputs) \ {{}}
      /\ p.pc \in {"attempt", "send", "lookup", "record", "release", "park"} =>
           order[o] = "PAYOUT_SIGNED" /\ p.tx = Newest(o)
      /\ p.pc = "record" => p.tx \in relayed
      /\ p.pc = "release" => p.tx \notin Out
      /\ p.pc = "resend" => p.tx \in relayed

(* A send whose outcome is not counted yet, or is about to be counted as a *)
(* refusal.                                                                *)
Awaited(p, k) ==
  (p.pc = "send" \/ (p.pc = "lookup" /\ p.error = "refused")) /\ p.tx = k

(* The audit tells a transaction that may be out from one that cannot: it  *)
(* was sent more often than it was refused.                                *)
AuditInv ==
  /\ \A i \in Instances, k \in TxIds : Awaited(proc[i], k) =>
       /\ attempts[k].all > attempts[k].refused
       /\ proc[i].maybeOut = (attempts[k].all # attempts[k].refused + 1)
  /\ \A k \in Out : txs[k].payer \in Orders =>
       /\ attempts[k].all > attempts[k].refused
       /\ \A i \in Instances : Awaited(proc[i], k) => attempts[k].all > attempts[k].refused + 1

-------------------------------------------------------------------------------
(* Refunds.                                                                *)

RefundInv(r) ==
  /\ refund[r].tx # 0 => refund[r].tx \in SignedFor(r)
  /\ refund[r].status \in {"broadcast", "confirmed"} =>
       refund[r].tx \in relayed /\ Inputs(refund[r].tx) \subseteq SpentBy(r)
  /\ refund[r].status = "confirmed" => node[refund[r].tx] = "deep"

RefundJobInv(i) ==
  LET p == proc[i]
  IN  /\ p.pc \in {"refund_send", "refund_record", "refund_park"} => p.tx \in SignedFor(p.refund)
      /\ p.pc = "refund_record" => p.tx \in relayed

(* With one instance, the coins of everything that is out belong to what   *)
(* it pays, of a withdrawal only one transaction is ever out, and the      *)
(* audit knows which (payout-executor.ts, refund-executor.ts).             *)
BridgeInv ==
  /\ BridgeTypeOK
  /\ NodeInv
  /\ CoinInv
  /\ \A o \in Orders : OrderInv(o)
  /\ \A i \in Instances : JobInv(i) /\ RefundJobInv(i)
  /\ AuditInv
  /\ \A r \in Refunds : RefundInv(r)

-------------------------------------------------------------------------------
(* What one job and one row of deposit_refunds owe to the transactions     *)
(* signed, whatever other instances do.                                    *)
RefundJobOnce(i) ==
  LET p == proc[i]
  IN  /\ p.pc \in {"queued", "select", "sign"} => p.order \in Orders
      /\ p.pc \in RefundSteps => p.refund \in Refunds
      /\ p.pc \in {"refund_send", "refund_record"} => p.tx \in SignedFor(p.refund)

RefundRowOnce(r) ==
  /\ SignedFor(r) \subseteq {refund[r].tx}
  /\ refund[r].tx # 0 => refund[r].tx \in SignedFor(r)
  /\ refund[r].status = "queued" => refund[r].tx = 0
  /\ refund[r].status \in {"signed", "broadcast", "confirmed"} => refund[r].tx # 0

(* As long as nobody sets a signed refund back to 'queued', each has one   *)
(* transaction at most, the one in its row (refund-executor.ts).           *)
RefundOnceInv ==
  /\ txs \in Seq(Transactions) /\ copied \subseteq Signed
  /\ DOMAIN proc = Instances /\ \A i \in Instances : RefundJobOnce(i)
  /\ refund \in [Refunds -> [status : RefundStatus, address : BOOLEAN,
                             alerted : BOOLEAN, tx : Nat]]
  /\ \A r \in Refunds : RefundRowOnce(r)

-------------------------------------------------------------------------------
(* The network.                                                            *)

LEMMA SignedFacts ==
  ASSUME NodeTypeOK
  PROVE  /\ Len(txs) \in Nat /\ Signed \subseteq TxIds /\ Out \subseteq Signed
         /\ \A k \in Signed : txs[k] \in Transactions
<1>1. txs \in Seq(Transactions)
  BY DEF NodeTypeOK
<1> QED BY <1>1, NodeAssumption DEF NodeTypeOK, Signed, TxIds, Out

(* Only mempool transactions leave with those they build on. *)
LEMMA DescendantsWait ==
  ASSUME NodeTypeOK, NEW S \in SUBSET TxIds
  PROVE  \A k \in WithDescendants(S) : k \in S \/ node[k] = "mempool"
<1> DEFINE D == S \cup {k \in Signed : node[k] = "mempool"}
<1>1. D \in SUBSET TxIds /\ S \subseteq D
  BY SignedFacts
<1>2. \A k \in Signed : node[k] = "mempool" /\ Inputs(k) \cap D # {} => k \in D
  OBVIOUS
<1> QED BY <1>1, <1>2 DEF WithDescendants

(* What every step of the network keeps. *)
NodeStep ==
  /\ UNCHANGED txs
  /\ NodeTypeOK' /\ NodeInv'
  /\ relayed \subseteq relayed'
  /\ \A k \in TxIds : node[k] = "deep" => node'[k] = "deep"

LEMMA AnswerStep ==
  ASSUME NodeTypeOK, NodeInv, NEW k \in Signed, NEW answer, Answer(k, answer)
  PROVE  /\ NodeStep
         /\ Out' \subseteq Out \cup (IF answer = "ok" THEN {k} ELSE {})
         /\ answer \in {"ok", "inchain"} => k \in relayed'
<1>1. k \in TxIds /\ answer \in {"ok", "inchain", "missing", "refused", "conflict"}
  BY SignedFacts DEF Answer, Answers
<1>2. CASE answer = "ok"
  <2>1. Accept(k) /\ UNCHANGED <<txs, copied, inflight, forgets, refusals>>
    BY <1>2 DEF Answer, NodeTypeOK
  <2> QED BY <2>1, <1>1, <1>2 DEF Accept, NodeStep, NodeTypeOK, NodeInv, Out, Signed, Holds
<1>3. CASE answer # "ok"
  <2>1. UNCHANGED <<txs, node, relayed, copied, inflight, forgets>> /\ refusals' \in Nat
    BY <1>3 DEF Answer, NodeTypeOK
  <2>2. answer = "inchain" => k \in relayed
    BY <1>1 DEF Answer, Answers, OnChain, NodeInv, Holds
  <2> QED BY <2>1, <2>2, <1>3 DEF NodeStep, NodeTypeOK, NodeInv, Out, Signed, Holds
<1> QED BY <1>2, <1>3

LEMMA LostStep ==
  ASSUME NodeTypeOK, NodeInv, NEW k \in Signed, AnswerLost(k)
  PROVE  NodeStep /\ Out' \subseteq Out \cup {k}
BY DEF AnswerLost, NodeStep, NodeTypeOK, NodeInv, Out, Signed, Holds

LEMMA DroppedKeeps ==
  ASSUME NodeTypeOK, NodeInv, NEW S \in SUBSET TxIds, \A k \in S : node[k] # "deep"
  PROVE  /\ Dropped(WithDescendants(S)) \in [TxIds -> {"unknown", "mempool", "chain", "deep"}]
         /\ \A k \in TxIds : Dropped(WithDescendants(S))[k] \in {"unknown", node[k]}
         /\ \A k \in TxIds : node[k] = "deep" => Dropped(WithDescendants(S))[k] = "deep"
BY DescendantsWait DEF Dropped, NodeTypeOK

LEMMA NetworkStep ==
  ASSUME NodeTypeOK, NodeInv, NodeNext
  PROVE  NodeStep /\ Out' \subseteq Out
<1> PICK k \in Signed : Deliver(k) \/ Mine(k) \/ Bury(k) \/ Forget(k) \/ Copy(k)
  BY DEF NodeNext
<1>1. k \in TxIds /\ Rivals(k) \in SUBSET TxIds /\ \A j \in Rivals(k) : node[j] = "mempool"
  BY SignedFacts DEF Rivals
<1>2. CASE Deliver(k)
  <2>1. CASE Accept(k)
    BY <1>1, <1>2, <2>1 DEF Deliver, Accept, NodeStep, NodeTypeOK, NodeInv, Out, Signed, Holds
  <2>2. CASE UNCHANGED <<node, relayed>>
    BY <1>1, <1>2, <2>2 DEF Deliver, NodeStep, NodeTypeOK, NodeInv, Out, Signed, Holds
  <2> QED BY <1>2, <2>1, <2>2 DEF Deliver
<1>3. CASE Mine(k)
  <2>1. /\ \A j \in TxIds : Dropped(WithDescendants(Rivals(k)))[j] \in {"unknown", node[j]}
        /\ \A j \in TxIds : node[j] = "deep" => Dropped(WithDescendants(Rivals(k)))[j] = "deep"
        /\ Dropped(WithDescendants(Rivals(k))) \in [TxIds -> {"unknown", "mempool", "chain", "deep"}]
    BY <1>1, DroppedKeeps
  <2>2. k \in relayed /\ node[k] # "deep"
    BY <1>3 DEF Mine, Mineable, Settled, OnChain
  <2>3. /\ node' = [Dropped(WithDescendants(Rivals(k))) EXCEPT ![k] = "chain"]
        /\ UNCHANGED <<txs, relayed, copied, inflight, refusals, forgets>>
    BY <1>3 DEF Mine
  <2> QED BY <1>1, <2>1, <2>2, <2>3 DEF NodeStep, NodeTypeOK, NodeInv, Out, Signed, Holds
<1>4. CASE Bury(k)
  BY <1>1, <1>4 DEF Bury, NodeStep, NodeTypeOK, NodeInv, Out, Signed, Holds
<1>5. CASE Forget(k)
  <2> DEFINE S == {k}
  <2>1. /\ \A j \in TxIds : Dropped(WithDescendants(S))[j] \in {"unknown", node[j]}
        /\ \A j \in TxIds : node[j] = "deep" => Dropped(WithDescendants(S))[j] = "deep"
        /\ Dropped(WithDescendants(S)) \in [TxIds -> {"unknown", "mempool", "chain", "deep"}]
    <3>1. \A j \in S : node[j] # "deep"
      BY <1>5 DEF Forget
    <3> QED BY <1>1, <3>1, DroppedKeeps
  <2>2. /\ node' = Dropped(WithDescendants(S)) /\ forgets' \in Nat
        /\ UNCHANGED <<txs, relayed, copied, inflight, refusals>>
    BY <1>5 DEF Forget, NodeTypeOK
  <2> HIDE DEF S
  <2> QED BY <2>1, <2>2 DEF NodeStep, NodeTypeOK, NodeInv, Out, Signed, Holds
<1>6. CASE Copy(k)
  <2> DEFINE S == Rivals(k) \cup {k}
  <2>1. k \in relayed /\ \A j \in S : node[j] # "deep"
    BY <1>1, <1>6 DEF Copy, Mineable, Settled, OnChain
  <2>2. /\ \A j \in TxIds : Dropped(WithDescendants(S))[j] \in {"unknown", node[j]}
        /\ \A j \in TxIds : node[j] = "deep" => Dropped(WithDescendants(S))[j] = "deep"
        /\ Dropped(WithDescendants(S)) \in [TxIds -> {"unknown", "mempool", "chain", "deep"}]
    BY <1>1, <2>1, DroppedKeeps
  <2>3. /\ node' = Dropped(WithDescendants(S)) /\ copied' = copied \cup {k}
        /\ UNCHANGED <<txs, relayed, inflight, refusals, forgets>>
    BY <1>6 DEF Copy
  <2> HIDE DEF S
  <2> QED BY <2>1, <2>2, <2>3 DEF NodeStep, NodeTypeOK, NodeInv, Out, Signed, Holds
<1> QED BY <1>2, <1>3, <1>4, <1>5, <1>6

-------------------------------------------------------------------------------
(* Signing.                                                                *)

(* One more transaction, for p. *)
SignStep(p, S) ==
  \E change \in BOOLEAN : txs' = Append(txs, [payer |-> p, inputs |-> S, change |-> change])

LEMMA SignFacts ==
  ASSUME NodeTypeOK, NodeInv, Len(txs) < MaxTxs, NEW p \in Payers, NEW S \in SUBSET Outputs,
         SignStep(p, S), UNCHANGED <<node, relayed, copied, inflight, refusals, forgets>>
  PROVE  LET n == Len(txs) + 1
         IN  /\ NodeTypeOK' /\ NodeInv' /\ Out' = Out
             /\ n \in TxIds /\ n \notin Signed /\ Signed' = Signed \cup {n}
             /\ txs'[n].payer = p /\ txs'[n].inputs = S
             /\ \A k \in Signed : txs'[k] = txs[k]
<1>1. Len(txs) \in Nat /\ txs \in Seq(Transactions)
  BY DEF NodeTypeOK
<1>2. PICK change \in BOOLEAN : txs' = Append(txs, [payer |-> p, inputs |-> S, change |-> change])
  BY DEF SignStep
<1> DEFINE t == [payer |-> p, inputs |-> S, change |-> change]
<1>3. t \in Transactions
  BY DEF Transactions
<1>4. /\ txs' \in Seq(Transactions) /\ Len(txs') = Len(txs) + 1
      /\ txs'[Len(txs) + 1] = t /\ \A k \in 1 .. Len(txs) : txs'[k] = txs[k]
  <2> HIDE DEF t
  <2> QED BY <1>1, <1>2, <1>3 DEF t
<1>5. Len(txs) + 1 \in TxIds /\ Len(txs) + 1 <= MaxTxs
  BY <1>1, NodeAssumption DEF TxIds
<1>6. Signed' = Signed \cup {Len(txs) + 1} /\ Len(txs) + 1 \notin Signed
  BY <1>1, <1>4 DEF Signed
<1>7. NodeTypeOK'
  BY <1>4, <1>5, <1>6 DEF NodeTypeOK
<1>8. NodeInv' /\ Out' = Out
  BY DEF NodeInv, Out, Holds
<1> QED BY <1>4, <1>5, <1>6, <1>7, <1>8 DEF Signed

LEMMA NewestSame ==
  ASSUME NEW o, SignedFor(o)' = SignedFor(o)
  PROVE  Newest(o)' = Newest(o)
BY DEF Newest

LEMMA SignedForAfter ==
  ASSUME NodeTypeOK, NodeInv, Len(txs) < MaxTxs, NEW p \in Payers, NEW S \in SUBSET Outputs,
         SignStep(p, S), UNCHANGED <<node, relayed, copied, inflight, refusals, forgets>>
  PROVE  LET n == Len(txs) + 1
         IN  /\ SignedFor(p)' = SignedFor(p) \cup {n}
             /\ \A j \in SignedFor(p)' : j <= n
             /\ Newest(p)' = n
             /\ \A o : o # p => SignedFor(o)' = SignedFor(o) /\ Newest(o)' = Newest(o)
<1> DEFINE n == Len(txs) + 1
<1>1. /\ n \notin Signed /\ Signed' = Signed \cup {n} /\ txs'[n].payer = p
      /\ \A k \in Signed : txs'[k] = txs[k]
  BY SignFacts
<1>2. SignedFor(p)' = SignedFor(p) \cup {n}
  BY <1>1 DEF SignedFor
<1>3. \A o : o # p => SignedFor(o)' = SignedFor(o)
  BY <1>1 DEF SignedFor
<1>4. \A j \in SignedFor(p)' : j \in Nat /\ j <= n
  <2>1. Len(txs) \in Nat /\ SignedFor(p) \subseteq 1 .. Len(txs)
    BY SignedFacts DEF SignedFor, Signed
  <2> QED BY <1>2, <2>1
<1>5. Newest(p)' = n
  BY <1>2, <1>4 DEF Newest
<1> QED BY <1>2, <1>3, <1>4, <1>5, NewestSame

-------------------------------------------------------------------------------
(* The types, by what they speak of.                                       *)

PoolType ==
  utxo \in [Outputs -> [status : {"absent", "available", "reserved", "spent"}, by : SUBSET Payers]]

RowType ==
  /\ order \in [Orders -> OrderStates]
  /\ payout \in [Orders -> [row : BOOLEAN, txid : 0 .. Len(txs), retried : BOOLEAN]]
  /\ fails \in [Instances -> [Orders -> 0 .. MaxResends - 1]]
  /\ requeues \in Nat /\ faults \in Nat

AuditType ==
  /\ attempts \in [TxIds -> [all : Nat, refused : Nat, recent : Nat]]
  /\ \A k \in TxIds : attempts[k].refused <= attempts[k].all

Sending == {"attempt", "send", "lookup", "record", "release", "park", "resend"}

JobType(i) ==
  /\ proc[i].pc \in {"idle"} \cup Steps \cup RefundSteps
  /\ proc[i].pc \in Steps => proc[i].order \in Orders
  /\ proc[i].pc \in Sending => proc[i].tx \in SignedFor(proc[i].order)
  /\ proc[i].pc \in RefundSteps => proc[i].refund \in Refunds

RefundType ==
  /\ refund \in [Refunds -> [status : RefundStatus, address : BOOLEAN,
                             alerted : BOOLEAN, tx : 0 .. Len(txs)]]
  /\ \A r \in Refunds :
       refund[r].status \in {"signed", "broadcast", "confirmed"} => refund[r].tx \in SignedFor(r)

Types ==
  /\ NodeTypeOK /\ PoolType /\ RowType /\ AuditType /\ RefundType
  /\ DOMAIN proc = Instances /\ \A i \in Instances : JobType(i)

LEMMA TypeParts == (BridgeTypeOK <=> Types) /\ (BridgeTypeOK' <=> Types')
<1>1. BridgeTypeOK <=> Types
  BY DEF BridgeTypeOK, TypeOK, WalletTypeOK, PoolType, RowType, AuditType, RefundType, JobType, Sending, Types
<1>2. BridgeTypeOK' <=> Types'
  BY DEF BridgeTypeOK, TypeOK, WalletTypeOK, PoolType, RowType, AuditType, RefundType, JobType, Sending, Types
<1> QED BY <1>1, <1>2

(* What the parts of the invariant say of a job. *)
JobOK(i) == JobType(i) /\ JobInv(i) /\ RefundJobInv(i)

Rest ==
  /\ NodeTypeOK /\ NodeInv
  /\ PoolType /\ CoinInv
  /\ RowType /\ \A o \in Orders : OrderInv(o)
  /\ RefundType /\ \A r \in Refunds : RefundInv(r)

Parts ==
  /\ Rest
  /\ AuditType /\ AuditInv
  /\ DOMAIN proc = Instances /\ \A i \in Instances : JobOK(i)

LEMMA InvParts == (BridgeInv <=> Parts) /\ (BridgeInv' <=> Parts')
BY TypeParts DEF BridgeInv, Parts, Rest, JobOK, Types

LEMMA ProcAt ==
  ASSUME DOMAIN proc = Instances, OneInstance, NEW i \in Instances, NEW p,
         proc' = [proc EXCEPT ![i] = p]
  PROVE  DOMAIN proc' = Instances /\ proc'[i] = p /\ \A j \in Instances : j = i
BY DEF OneInstance

(* A single job moves: what is to be shown of the step. *)
LEMMA Assemble ==
  ASSUME BridgeInv, OneInstance, NEW i \in Instances, NEW p, proc' = [proc EXCEPT ![i] = p],
         Rest', AuditType', AuditInv', JobOK(i)'
  PROVE  BridgeInv'
<1>1. DOMAIN proc' = Instances /\ \A j \in Instances : j = i
  BY ProcAt, InvParts DEF Parts
<1>2. \A j \in Instances : JobOK(j)'
  BY <1>1
<1> QED BY <1>1, <1>2, InvParts DEF Parts

-------------------------------------------------------------------------------
(* What each part reads.                                                   *)

LEMMA SameSigned ==
  ASSUME UNCHANGED txs
  PROVE  /\ Signed' = Signed /\ \A k : Inputs(k)' = Inputs(k)
         /\ \A o : SignedFor(o)' = SignedFor(o) /\ Newest(o)' = Newest(o)
BY DEF Signed, Inputs, SignedFor, Newest

LEMMA SamePool ==
  ASSUME UNCHANGED <<txs, utxo>>
  PROVE  /\ \A k : Bound(k)' = Bound(k)
         /\ \A o : HeldBy(o)' = HeldBy(o) /\ SpentBy(o)' = SpentBy(o)
BY SameSigned DEF Bound, HeldBy, SpentBy

LEMMA CoinSame ==
  ASSUME CoinInv, NEW S, \A k \in S : Bound(k), Out' \subseteq Out \cup S,
         UNCHANGED <<txs, utxo>>
  PROVE  CoinInv'
BY SameSigned, SamePool DEF CoinInv

(* A row of payouts may say something else only of retries, an order may   *)
(* move to a state it is fit for.                                          *)
LEMMA OrderMoves ==
  ASSUME NodeTypeOK, NEW o \in Orders, OrderInv(o),
         NEW S, \A k \in S \cap SignedFor(o) : k = Newest(o),
         NodeStep, Out' \subseteq Out \cup S, UNCHANGED utxo, StateFits(o, order'[o]),
         payout'[o].row = payout[o].row, payout'[o].txid = payout[o].txid
  PROVE  OrderInv(o)'
<1> DEFINE k == payout[o].txid
<1>1. UNCHANGED txs /\ relayed \subseteq relayed' /\ \A j \in TxIds : node[j] = "deep" => node'[j] = "deep"
  BY DEF NodeStep
<1>2. SignedFor(o) \subseteq TxIds
  BY SignedFacts DEF SignedFor
<1>3. /\ SignedFor(o)' = SignedFor(o) /\ Newest(o)' = Newest(o) /\ SpentBy(o)' = SpentBy(o)
      /\ \A j : Bound(j)' = Bound(j)
  BY <1>1, SameSigned, SamePool
<1>4. \A j \in SignedFor(o) : j \in Out' => j = Newest(o)
  BY DEF OrderInv
<1>5. Bound(Newest(o))' = Bound(Newest(o))
  BY <1>1, <1>3 DEF Bound, Inputs
<1>6. k' = k
  OBVIOUS
<1>7. k # 0 => k \in TxIds
  BY <1>2 DEF OrderInv
<1>8. /\ payout'[o].row <=> SignedFor(o)' # {}
      /\ SignedFor(o)' # {} => Newest(o)' \in SignedFor(o)'
      /\ \A j \in SignedFor(o)' : j <= Newest(o)' /\ (j \in Out' => j = Newest(o)')
  BY <1>3, <1>4 DEF OrderInv
<1>9. \A c \in Outputs : utxo'[c].by = {o} => payout'[o].row /\ Bound(Newest(o))'
  BY <1>5 DEF OrderInv
<1>10. Inputs(k)' = Inputs(k)
  BY <1>1, <1>6 DEF Inputs
<1>11. /\ k = 0 => SpentBy(o)' = {}
       /\ k # 0 => k \in SignedFor(o)' /\ k \in relayed' /\ Inputs(k)' \subseteq SpentBy(o)'
  BY <1>1, <1>3, <1>10 DEF OrderInv
<1>12. StateFits(o, order[o])'
  BY <1>1, <1>5, <1>6, <1>7 DEF StateFits
<1>13. Inputs(k)' = txs'[k'].inputs /\ Inputs(k) = txs[k].inputs
  BY DEF Inputs
<1> QED BY <1>6, <1>8, <1>9, <1>11, <1>12, <1>13 DEF OrderInv

LEMMA RefundSame ==
  ASSUME NodeTypeOK, NEW r \in Refunds, RefundInv(r), NodeStep, UNCHANGED utxo,
         refund'[r].tx = refund[r].tx, refund'[r].status = refund[r].status
  PROVE  RefundInv(r)'
<1>1. UNCHANGED txs /\ relayed \subseteq relayed' /\ \A k \in TxIds : node[k] = "deep" => node'[k] = "deep"
  BY DEF NodeStep
<1>2. relayed \subseteq TxIds
  BY SignedFacts DEF Out
<1>3. SignedFor(r)' = SignedFor(r) /\ SpentBy(r)' = SpentBy(r)
  BY <1>1, SameSigned, SamePool
<1> QED BY <1>1, <1>2, <1>3 DEF RefundInv, Inputs

LEMMA SameNode ==
  ASSUME NodeTypeOK, NodeInv, UNCHANGED nodeVars
  PROVE  NodeStep /\ Out' = Out
BY DEF nodeVars, NodeStep, NodeTypeOK, NodeInv, Out, Signed, Holds

LEMMA RefundsSame ==
  ASSUME BridgeInv, NodeStep, UNCHANGED <<utxo, refund>>
  PROVE  RefundType' /\ \A r \in Refunds : RefundInv(r)'
<1>1. NodeTypeOK /\ RefundType /\ \A r \in Refunds : RefundInv(r)
  BY InvParts DEF Parts, Rest
<1>2. UNCHANGED txs
  BY DEF NodeStep
<1>3. RefundType'
  BY <1>1, <1>2, SameSigned DEF RefundType
<1> QED BY <1>1, <1>3, RefundSame

(* Coins stay as they are, and what goes out holds its own.                *)
LEMMA RestMoves ==
  ASSUME BridgeInv, NodeStep, NEW S \in SUBSET Signed, Out' \subseteq Out \cup S,
         \A k \in S : Bound(k) /\ (txs[k].payer \in Orders => k = Newest(txs[k].payer)),
         UNCHANGED utxo, RowType',
         \A o \in Orders : /\ StateFits(o, order'[o])
                           /\ payout'[o].row = payout[o].row /\ payout'[o].txid = payout[o].txid,
         RefundType', \A r \in Refunds : RefundInv(r)'
  PROVE  Rest'
<1>1. /\ NodeTypeOK /\ PoolType /\ CoinInv /\ \A o \in Orders : OrderInv(o)
  BY InvParts DEF Parts, Rest
<1>2. NodeTypeOK' /\ NodeInv' /\ UNCHANGED txs
  BY DEF NodeStep
<1>3. PoolType'
  BY <1>1 DEF PoolType
<1>4. CoinInv'
  BY <1>1, <1>2, CoinSame
<1>5. ASSUME NEW o \in Orders PROVE OrderInv(o)'
  <2>1. \A k \in S \cap SignedFor(o) : k = Newest(o)
    BY DEF SignedFor
  <2> QED BY <1>1, <2>1, OrderMoves
<1> QED BY <1>2, <1>3, <1>4, <1>5 DEF Rest

(* What a step leaves to show of a job that is over.                       *)
LEMMA IdleJob ==
  ASSUME NEW i \in Instances, proc'[i] = Idle
  PROVE  JobOK(i)'
BY DEF JobOK, JobType, JobInv, RefundJobInv, Idle, Steps, RefundSteps, Sending

(* The audit between sends.                                                *)
LEMMA AuditSame ==
  ASSUME BridgeInv, OneInstance, NEW i \in Instances, NEW p, proc' = [proc EXCEPT ![i] = p],
         p.pc # "send", p.pc = "lookup" => p.error # "refused",
         UNCHANGED <<txs, attempts>>, NEW S, Out' \subseteq Out \cup S,
         \A k \in S : txs[k].payer \in Orders => attempts[k].all > attempts[k].refused
  PROVE  AuditType' /\ AuditInv'
<1>1. AuditType /\ AuditInv /\ \A j \in Instances : proc'[j] = p
  BY InvParts, ProcAt DEF Parts
<1>2. AuditType'
  BY <1>1 DEF AuditType
<1>3. \A j \in Instances : \A k : ~Awaited(proc'[j], k)
  BY <1>1 DEF Awaited
<1> QED BY <1>1, <1>2, <1>3 DEF AuditInv

-------------------------------------------------------------------------------
(* Steps outside the jobs: the network, operators, bookkeeping.            *)

LEMMA JobSame ==
  ASSUME NEW i \in Instances, JobOK(i), RowType, NodeTypeOK, NodeStep, Out' \subseteq Out,
         UNCHANGED <<utxo, payout>>, proc'[i] = proc[i],
         \A o \in Orders : order[o] \in {"PAYOUT_QUEUED", "PAYOUT_SIGNED"} => order'[o] = order[o]
  PROVE  JobOK(i)'
<1> DEFINE p == proc[i]
           o == p.order
<1>1. UNCHANGED txs /\ relayed \subseteq relayed'
  BY DEF NodeStep
<1>2. /\ SignedFor(o)' = SignedFor(o) /\ Newest(o)' = Newest(o)
      /\ SpentBy(o)' = SpentBy(o) /\ HeldBy(o)' = HeldBy(o)
      /\ SignedFor(p.refund)' = SignedFor(p.refund)
  BY <1>1, SameSigned, SamePool
<1>3. o' = o /\ p' = p
  OBVIOUS
<1>4. JobType(i)'
  BY <1>2, <1>3 DEF JobOK, JobType
<1>5. JobInv(i)'
  <2>1. p.pc \in {"queued", "select", "sign", "attempt", "send", "lookup", "record", "release", "park"} =>
          /\ o \in Orders
          /\ order[o] \in {"PAYOUT_QUEUED", "PAYOUT_SIGNED"} => order'[o] = order[o]
    BY DEF JobOK, JobType, Steps
  <2>2. UNCHANGED payout /\ JobInv(i)
    BY DEF JobOK
  <2>3. (p.pc = "queued" =>
           /\ p.held = (HeldBy(o) # {})
           /\ p.out = (payout[o].txid # 0 \/ SpentBy(o) # {}))'
    BY <1>2, <1>3, <2>2 DEF JobInv
  <2>4. /\ (p.pc \in {"queued", "select", "sign"} =>
             order[o] = "PAYOUT_QUEUED" /\ p.row = payout[o].row)'
        /\ (p.pc \in {"attempt", "send", "lookup", "record", "release", "park"} =>
             order[o] = "PAYOUT_SIGNED" /\ p.tx = Newest(o))'
    <3>1. p.pc \in {"queued", "select", "sign"} => order'[o] = "PAYOUT_QUEUED" /\ p.row = payout'[o].row
      BY <2>1, <2>2 DEF JobInv
    <3>2. p.pc \in {"attempt", "send", "lookup", "record", "release", "park"} =>
            order'[o] = "PAYOUT_SIGNED" /\ p.tx = Newest(o)'
      BY <1>2, <2>1, <2>2 DEF JobInv
    <3> QED BY <1>3, <3>1, <3>2
  <2>5. /\ (p.pc \in {"sign", "refund_sign"} => p.inputs \in (SUBSET Outputs) \ {{}})'
        /\ (p.pc = "record" => p.tx \in relayed)'
        /\ (p.pc = "release" => p.tx \notin Out)'
        /\ (p.pc = "resend" => p.tx \in relayed)'
    BY <1>1, <1>3, <2>2 DEF JobInv, Outputs, TxIds
  <2> QED BY <2>3, <2>4, <2>5 DEF JobInv
<1>6. RefundJobInv(i)'
  BY <1>1, <1>2, <1>3 DEF JobOK, RefundJobInv
<1> QED BY <1>4, <1>5, <1>6 DEF JobOK

LEMMA OutsideStep ==
  ASSUME BridgeInv, NodeStep, Out' \subseteq Out, UNCHANGED <<utxo, proc, payout, attempts>>,
         \A o \in Orders : order[o] \in {"PAYOUT_QUEUED", "PAYOUT_SIGNED"} => order'[o] = order[o],
         RowType', \A o \in Orders : StateFits(o, order'[o]),
         RefundType', \A r \in Refunds : RefundInv(r)'
  PROVE  BridgeInv'
<1>1. Parts
  BY InvParts
<1>2. Rest'
  <2>1. {} \in SUBSET Signed /\ Out' \subseteq Out \cup {}
    OBVIOUS
  <2>2. \A k \in {} : Bound(k) /\ (txs[k].payer \in Orders => k = Newest(txs[k].payer))
    OBVIOUS
  <2> QED BY <2>1, <2>2, RestMoves
<1>3. \A i \in Instances : JobOK(i)'
  BY <1>1, JobSame DEF Parts, Rest
<1>4. UNCHANGED txs
  BY DEF NodeStep
<1>5. AuditType' /\ AuditInv'
  BY <1>1, <1>4 DEF Parts, AuditType, AuditInv, Awaited
<1> QED BY <1>1, <1>2, <1>3, <1>5, InvParts DEF Parts

LEMMA FitsNow ==
  ASSUME BridgeInv
  PROVE  \A o \in Orders : StateFits(o, order[o])
BY InvParts DEF Parts, Rest, OrderInv

LEMMA RowSame ==
  ASSUME BridgeInv, UNCHANGED <<txs, order, payout, fails, requeues>>, faults' \in Nat
  PROVE  RowType'
BY InvParts DEF Parts, Rest, RowType

LEMMA NetworkKeeps ==
  ASSUME BridgeInv, Network, UNCHANGED refundVars
  PROVE  BridgeInv'
<1>1. NodeTypeOK /\ NodeInv /\ RowType
  BY InvParts DEF Parts, Rest
<1>2. NodeStep /\ Out' \subseteq Out
  BY <1>1, NetworkStep DEF Network
<1>3. UNCHANGED <<txs, utxo, proc, faults, order, payout, attempts, requeues, fails, refund>>
  BY <1>2 DEF Network, payoutVars, refundVars, NodeStep
<1>4. RowType'
  BY <1>1, <1>3, RowSame DEF RowType
<1> QED BY <1>2, <1>3, <1>4, FitsNow, RefundsSame, OutsideStep

LEMMA RequeueKeeps ==
  ASSUME BridgeInv, NEW o \in Orders, Requeue(o), UNCHANGED refundVars
  PROVE  BridgeInv'
<1>1. NodeTypeOK /\ NodeInv /\ RowType
  BY InvParts DEF Parts, Rest
<1>2. NodeStep /\ Out' = Out
  BY <1>1, SameNode DEF Requeue
<1>3. /\ order' = [order EXCEPT ![o] = "PAYOUT_QUEUED"] /\ order[o] = "MANUAL_REVIEW"
      /\ UNCHANGED <<txs, utxo, proc, faults, payout, attempts, fails, refund>> /\ requeues' = requeues + 1
  BY DEF Requeue, refundVars, nodeVars
<1>4. RowType'
  BY <1>1, <1>3 DEF RowType, OrderStates
<1>5. \A q \in Orders : StateFits(q, order'[q])
  <2>1. StateFits(o, "PAYOUT_QUEUED")
    BY DEF StateFits
  <2> QED BY <1>1, <1>3, <2>1, FitsNow DEF RowType
<1>6. \A q \in Orders : order[q] \in {"PAYOUT_QUEUED", "PAYOUT_SIGNED"} => order'[q] = order[q]
  BY <1>1, <1>3 DEF RowType
<1> QED BY <1>2, <1>3, <1>4, <1>5, <1>6, RefundsSame, OutsideStep

(* A row of deposit_refunds moves, and no transaction with it.             *)
LEMMA RefundMoves ==
  ASSUME BridgeInv, UNCHANGED <<nodeVars, utxo>>, NEW r \in Refunds,
         refund' \in [Refunds -> [status : RefundStatus, address : BOOLEAN,
                                  alerted : BOOLEAN, tx : 0 .. Len(txs)]],
         \A q \in Refunds \ {r} : refund'[q] = refund[q],
         refund'[r].tx = refund[r].tx,
         refund'[r].status = "signed" => refund[r].tx # 0,
         refund'[r].status = "broadcast" => refund[r].status = "broadcast",
         refund'[r].status = "confirmed" =>
           refund[r].status \in {"broadcast", "confirmed"} /\ node[refund[r].tx] = "deep"
  PROVE  RefundType' /\ \A q \in Refunds : RefundInv(q)'
<1>1. NodeTypeOK /\ NodeInv /\ RefundType /\ \A q \in Refunds : RefundInv(q)
  BY InvParts DEF Parts, Rest
<1>2. NodeStep
  BY <1>1, SameNode
<1>3. UNCHANGED <<txs, node, relayed>>
  BY DEF nodeVars
<1>4. \A q \in Refunds : SignedFor(q)' = SignedFor(q) /\ SpentBy(q)' = SpentBy(q)
  BY <1>3, SameSigned, SamePool
<1>5. RefundType'
  <2>1. ASSUME NEW q \in Refunds, refund'[q].status \in {"signed", "broadcast", "confirmed"}
        PROVE  refund'[q].tx \in SignedFor(q)'
    BY <1>1, <1>4, <2>1 DEF RefundType, RefundInv
  <2> QED BY <1>3, <2>1 DEF RefundType
<1>6. ASSUME NEW q \in Refunds PROVE RefundInv(q)'
  <2>1. CASE q # r
    BY <1>1, <1>2, <2>1, RefundSame
  <2>2. CASE q = r
    BY <1>1, <1>3, <1>4, <2>2 DEF RefundInv, Inputs
  <2> QED BY <2>1, <2>2
<1> QED BY <1>5, <1>6

LEMMA BookkeepingKeeps ==
  ASSUME BridgeInv, NEW r \in Refunds, UNCHANGED vars,
         refund' \in [Refunds -> [status : RefundStatus, address : BOOLEAN,
                                  alerted : BOOLEAN, tx : 0 .. Len(txs)]],
         \A q \in Refunds \ {r} : refund'[q] = refund[q],
         refund'[r].tx = refund[r].tx,
         refund'[r].status = "signed" => refund[r].tx # 0,
         refund'[r].status = "broadcast" => refund[r].status = "broadcast",
         refund'[r].status = "confirmed" =>
           refund[r].status \in {"broadcast", "confirmed"} /\ node[refund[r].tx] = "deep"
  PROVE  BridgeInv'
<1>1. UNCHANGED <<nodeVars, utxo>> /\ UNCHANGED <<txs, proc, faults, order, payout, attempts, requeues, fails>>
  BY DEF vars, payoutVars, nodeVars
<1>2. NodeStep /\ Out' = Out
  BY <1>1, InvParts, SameNode DEF Parts, Rest
<1>3. RowType'
  BY <1>1, InvParts DEF Parts, Rest, RowType
<1>4. RefundType' /\ \A q \in Refunds : RefundInv(q)'
  BY <1>1, RefundMoves
<1> QED BY <1>1, <1>2, <1>3, <1>4, FitsNow, OutsideStep

LEMMA RefundRowKeeps ==
  ASSUME BridgeInv, NEW i \in Instances, NEW r \in Refunds,
         ResolveSender(i, r) \/ AnnounceSplit(i, r) \/ ParkUnbuilt(i, r) \/ ConfirmRefund(i, r)
  PROVE  BridgeInv'
<1>1. /\ refund \in [Refunds -> [status : RefundStatus, address : BOOLEAN,
                                 alerted : BOOLEAN, tx : 0 .. Len(txs)]]
      /\ RefundType
  BY InvParts DEF Parts, Rest, RefundType
<1>2. CASE ResolveSender(i, r)
  <2>1. CASE refund' = [refund EXCEPT ![r].address = TRUE]
    BY <1>1, <1>2, <2>1, BookkeepingKeeps DEF ResolveSender
  <2>2. CASE Move(r, "queued", "needs_attention")
    BY <1>1, <1>2, <2>2, BookkeepingKeeps DEF ResolveSender, Move, RefundStatus
  <2> QED BY <1>2, <2>1, <2>2 DEF ResolveSender
<1>3. CASE AnnounceSplit(i, r)
  <2>1. refund' = [refund EXCEPT ![r].alerted = TRUE] /\ UNCHANGED vars
    BY <1>3 DEF AnnounceSplit
  <2>2. RefundInv(r) /\ (refund[r].status = "signed" => refund[r].tx # 0)
    <3>1. 0 \notin SignedFor(r)
      BY DEF SignedFor, Signed
    <3> QED BY <1>1, <3>1, InvParts DEF Parts, Rest, RefundType
  <2> QED BY <1>1, <2>1, <2>2, BookkeepingKeeps DEF RefundInv
<1>4. CASE ParkUnbuilt(i, r)
  BY <1>1, <1>4, BookkeepingKeeps DEF ParkUnbuilt, Move, RefundStatus
<1>5. CASE ConfirmRefund(i, r)
  BY <1>1, <1>5, BookkeepingKeeps DEF ConfirmRefund, Move, RefundStatus
<1> QED BY <1>2, <1>3, <1>4, <1>5

LEMMA OperatorKeeps ==
  ASSUME BridgeInv, NEW r \in Refunds, RetryRefund(r) \/ ResetRefund(r)
  PROVE  BridgeInv'
<1>1. refund \in [Refunds -> [status : RefundStatus, address : BOOLEAN,
                              alerted : BOOLEAN, tx : 0 .. Len(txs)]]
  BY InvParts DEF Parts, Rest, RefundType
<1>2. CASE RetryRefund(r)
  BY <1>1, <1>2, BookkeepingKeeps DEF RetryRefund, RefundStatus
<1>3. CASE ResetRefund(r)
  BY <1>1, <1>3, BookkeepingKeeps DEF ResetRefund, RefundStatus
<1> QED BY <1>2, <1>3


-------------------------------------------------------------------------------
(* Steps of a job that leave the coins and the audit as they are.          *)

LEMMA QuietStep ==
  ASSUME BridgeInv, OneInstance, NEW i \in Instances, NEW p, proc' = [proc EXCEPT ![i] = p],
         p.pc \notin {"send", "lookup"}, UNCHANGED <<nodeVars, utxo, attempts>>, RowType',
         \A o \in Orders : /\ StateFits(o, order'[o])
                           /\ payout'[o].row = payout[o].row /\ payout'[o].txid = payout[o].txid,
         RefundType', \A r \in Refunds : RefundInv(r)', JobOK(i)'
  PROVE  BridgeInv'
<1>1. NodeStep /\ Out' = Out
  BY InvParts, SameNode DEF Parts, Rest
<1>2. UNCHANGED txs /\ {} \in SUBSET Signed /\ Out' \subseteq Out \cup {}
  BY <1>1 DEF nodeVars
<1>3. Rest'
  <2>1. \A k \in {} : Bound(k) /\ (txs[k].payer \in Orders => k = Newest(txs[k].payer))
    OBVIOUS
  <2> QED BY <1>1, <1>2, <2>1, RestMoves
<1>4. AuditType' /\ AuditInv'
  <2> DEFINE S == {}
  <2>1. Out' \subseteq Out \cup S
        /\ \A k \in S : txs[k].payer \in Orders => attempts[k].all > attempts[k].refused
    BY <1>2
  <2> HIDE DEF S
  <2>2. UNCHANGED <<txs, attempts>> /\ p.pc # "send" /\ p.pc # "lookup"
    BY <1>2
  <2> QED BY <2>1, <2>2, AuditSame
<1> QED BY <1>3, <1>4, Assemble

(* ... and the rows.                                                       *)
LEMMA ReadStep ==
  ASSUME BridgeInv, OneInstance, NEW i \in Instances, NEW p, proc' = [proc EXCEPT ![i] = p],
         p.pc \notin {"send", "lookup"},
         UNCHANGED <<nodeVars, utxo, attempts, order, payout, fails, requeues, faults, refund>>, JobOK(i)'
  PROVE  BridgeInv'
<1>1. NodeStep /\ Out' = Out /\ UNCHANGED txs
  BY InvParts, SameNode DEF Parts, Rest, nodeVars
<1>2. RowType'
  BY <1>1, InvParts DEF Parts, Rest, RowType
<1> QED BY <1>1, <1>2, FitsNow, RefundsSame, QuietStep

LEMMA TransitionFits ==
  ASSUME BridgeInv, NEW o \in Orders, NEW from, NEW to \in OrderStates, Transition(o, from, to),
         order[o] = from => StateFits(o, to),
         UNCHANGED <<txs, payout, fails, requeues>>, faults' \in Nat
  PROVE  RowType' /\ \A q \in Orders : StateFits(q, order'[q])
<1>1. RowType
  BY InvParts DEF Parts, Rest
<1>2. CASE order[o] = from
  BY <1>1, <1>2, FitsNow DEF Transition, RowType
<1>3. CASE order[o] # from
  BY <1>1, <1>3, FitsNow DEF Transition, RowType
<1> QED BY <1>2, <1>3

(* An order moves and the job is over.                                     *)
LEMMA MoveStep ==
  ASSUME BridgeInv, OneInstance, NEW i \in Instances, Done(i),
         NEW o \in Orders, NEW from, NEW to \in OrderStates, Transition(o, from, to),
         order[o] = from => StateFits(o, to),
         UNCHANGED <<nodeVars, utxo, attempts, payout, fails, requeues, faults, refund>>
  PROVE  BridgeInv'
<1>1. NodeStep /\ Out' = Out /\ UNCHANGED txs /\ faults' \in Nat
  BY InvParts, SameNode DEF Parts, Rest, nodeVars, RowType
<1>2. RowType' /\ \A q \in Orders : StateFits(q, order'[q])
  BY <1>1, TransitionFits
<1>3. proc' = [proc EXCEPT ![i] = Idle] /\ proc'[i] = Idle /\ Idle.pc \notin {"send", "lookup"}
  BY InvParts, ProcAt DEF Parts, Done, Proceed, Idle
<1> QED BY <1>1, <1>2, <1>3, IdleJob, RefundsSame, QuietStep

LEMMA JobOf ==
  ASSUME BridgeInv, NEW i \in Instances
  PROVE  JobType(i) /\ JobInv(i) /\ RefundJobInv(i)
BY InvParts DEF Parts, JobOK

LEMMA ParkFits == \A o : StateFits(o, "MANUAL_REVIEW") /\ StateFits(o, "PAYOUT_QUEUED")
BY DEF StateFits

LEMMA ParkKeeps ==
  ASSUME BridgeInv, OneInstance, NEW i \in Instances, UNCHANGED refundVars,
         ParkUnpayable(i) \/ ParkHeld(i) \/ Complete(i)
  PROVE  BridgeInv'
<1>1. proc[i].order \in Orders /\ UNCHANGED refund
  BY JobOf DEF JobType, Steps, ParkUnpayable, ParkHeld, Complete, refundVars
<1>2. CASE ParkUnpayable(i)
  BY <1>1, <1>2, ParkFits, MoveStep DEF ParkUnpayable, OrderStates
<1>3. CASE ParkHeld(i)
  BY <1>1, <1>3, ParkFits, MoveStep DEF ParkHeld, OrderStates
<1>4. CASE Complete(i)
  <2>1. order[proc[i].order] = "PAYOUT_CONFIRMED" => StateFits(proc[i].order, "COMPLETED")
    BY <1>1, FitsNow DEF StateFits
  <2> QED BY <1>1, <1>4, <2>1, MoveStep DEF Complete, OrderStates
<1> QED BY <1>2, <1>3, <1>4

LEMMA CrashKeeps ==
  ASSUME BridgeInv, OneInstance, NEW i \in Instances, Crash(i), UNCHANGED refundVars
  PROVE  BridgeInv'
<1>1. /\ UNCHANGED <<nodeVars, utxo, attempts, order, payout, requeues, refund>> /\ faults' = faults + 1
      /\ proc' = [proc EXCEPT ![i] = Idle] /\ Idle.pc \notin {"send", "lookup"}
  BY DEF Crash, Done, Proceed, payoutVars, refundVars, Idle
<1>2. RowType /\ NodeStep /\ UNCHANGED txs /\ proc'[i] = Idle
  BY <1>1, InvParts, SameNode, ProcAt DEF Parts, Rest, nodeVars
<1>3. fails' \in [Instances -> [Orders -> 0 .. MaxResends - 1]]
  <2>1. [q \in Orders |-> 0] \in [Orders -> 0 .. MaxResends - 1]
    BY PayoutAssumption
  <2> QED BY <1>2, <2>1 DEF Crash, RowType
<1>4. RowType'
  BY <1>1, <1>2, <1>3 DEF RowType
<1> QED BY <1>1, <1>2, <1>4, IdleJob, FitsNow, RefundsSame, QuietStep

(* Jobs that begin by reading.                                             *)

LEMMA ReadQueuedKeeps ==
  ASSUME BridgeInv, OneInstance, NEW i \in Instances, NEW o \in Orders, ReadQueued(i, o),
         UNCHANGED refundVars
  PROVE  BridgeInv'
<1> DEFINE p == [pc |-> "queued", order |-> o, row |-> payout[o].row, held |-> HeldBy(o) # {},
                 out |-> payout[o].txid # 0 \/ SpentBy(o) # {}]
<1>1. /\ UNCHANGED <<nodeVars, utxo, attempts, order, payout, fails, requeues, faults, refund>>
      /\ proc' = [proc EXCEPT ![i] = p] /\ order[o] = "PAYOUT_QUEUED"
  BY DEF ReadQueued, Proceed, payoutVars, refundVars
<1>2. proc'[i] = p /\ UNCHANGED txs
  BY <1>1, InvParts, ProcAt DEF Parts, nodeVars
<1>3. HeldBy(o)' = HeldBy(o) /\ SpentBy(o)' = SpentBy(o)
  BY <1>1, <1>2, SamePool
<1>4. JobOK(i)'
  BY <1>1, <1>2, <1>3 DEF JobOK, JobType, JobInv, RefundJobInv, Steps, RefundSteps, Sending
<1> HIDE DEF p
<1>5. p.pc = "queued"
  BY DEF p
<1> QED BY <1>1, <1>4, <1>5, ReadStep

LEMMA NewestSigned ==
  ASSUME BridgeInv, NEW o \in Orders, payout[o].row
  PROVE  Newest(o) \in SignedFor(o)
BY InvParts DEF Parts, Rest, OrderInv

LEMMA ReadSignedKeeps ==
  ASSUME BridgeInv, OneInstance, NEW i \in Instances, NEW o \in Orders, ReadSigned(i, o),
         UNCHANGED refundVars
  PROVE  BridgeInv'
<1> DEFINE p == [pc |-> "attempt", order |-> o, tx |-> Newest(o)]
<1>1. /\ UNCHANGED <<nodeVars, utxo, attempts, order, payout, fails, requeues, faults, refund>>
      /\ proc' = [proc EXCEPT ![i] = p] /\ order[o] = "PAYOUT_SIGNED"
  BY DEF ReadSigned, Proceed, payoutVars, refundVars
<1>2. proc'[i] = p /\ UNCHANGED txs
  BY <1>1, InvParts, ProcAt DEF Parts, nodeVars
<1>3. SignedFor(o)' = SignedFor(o) /\ Newest(o)' = Newest(o)
  BY <1>2, SameSigned
<1>4. Newest(o) \in SignedFor(o)
  BY <1>1, FitsNow, NewestSigned DEF StateFits
<1>5. JobOK(i)'
  BY <1>1, <1>2, <1>3, <1>4 DEF JobOK, JobType, JobInv, RefundJobInv, Steps, RefundSteps, Sending
<1> HIDE DEF p
<1>6. p.pc = "attempt"
  BY DEF p
<1> QED BY <1>1, <1>5, <1>6, ReadStep

LEMMA FindForgottenKeeps ==
  ASSUME BridgeInv, OneInstance, NEW i \in Instances, NEW o \in Orders, FindForgotten(i, o),
         UNCHANGED refundVars
  PROVE  BridgeInv'
<1> DEFINE p == [pc |-> "resend", order |-> o, tx |-> payout[o].txid]
<1>1. /\ UNCHANGED <<nodeVars, utxo, attempts, order, payout, fails, requeues, faults, refund>>
      /\ proc' = [proc EXCEPT ![i] = p] /\ payout[o].txid # 0
  BY DEF FindForgotten, Proceed, payoutVars, refundVars
<1>2. proc'[i] = p /\ UNCHANGED <<txs, relayed>>
  BY <1>1, InvParts, ProcAt DEF Parts, nodeVars
<1>3. SignedFor(o)' = SignedFor(o)
  BY <1>2, SameSigned
<1>4. payout[o].txid \in SignedFor(o) /\ payout[o].txid \in relayed
  BY <1>1, InvParts DEF Parts, Rest, OrderInv
<1>5. JobOK(i)'
  BY <1>1, <1>2, <1>3, <1>4 DEF JobOK, JobType, JobInv, RefundJobInv, Steps, RefundSteps, Sending
<1> HIDE DEF p
<1>6. p.pc = "resend"
  BY DEF p
<1> QED BY <1>1, <1>5, <1>6, ReadStep

LEMMA BuildRefundKeeps ==
  ASSUME BridgeInv, OneInstance, NEW i \in Instances, NEW r \in Refunds, BuildRefund(i, r)
  PROVE  BridgeInv'
<1>1. PICK S \in RefundInputs(r) : Proceed(i, [pc |-> "refund_sign", refund |-> r, inputs |-> S])
  BY DEF BuildRefund
<1>2. S \in (SUBSET Outputs) \ {{}}
  <2>1. Available \subseteq Outputs
    BY DEF Available
  <2>2. CASE OwnDeposit[r] \in Available
    <3>1. S = {OwnDeposit[r]}
      BY <1>1, <2>2 DEF RefundInputs
    <3>2. S \subseteq Outputs
      BY <2>1, <2>2, <3>1
    <3>3. S # {}
      BY <3>1
    <3> QED BY <3>2, <3>3
  <2>3. CASE OwnDeposit[r] \notin Available
    BY <1>1, <2>1, <2>3 DEF RefundInputs
  <2> QED BY <2>2, <2>3
<1> DEFINE p == [pc |-> "refund_sign", refund |-> r, inputs |-> S]
<1>3. /\ UNCHANGED <<nodeVars, utxo, attempts, order, payout, fails, requeues, faults, refund>>
      /\ proc' = [proc EXCEPT ![i] = p]
  BY <1>1 DEF BuildRefund, Proceed, payoutVars, refundVars
<1>4. proc'[i] = p
  BY <1>3, InvParts, ProcAt DEF Parts
<1>5. JobOK(i)'
  BY <1>2, <1>4 DEF JobOK, JobType, JobInv, RefundJobInv, Steps, RefundSteps, Sending, Outputs, TxIds
<1> HIDE DEF p
<1>6. p.pc = "refund_sign"
  BY DEF p
<1> QED BY <1>3, <1>5, <1>6, ReadStep

LEMMA ReadSignedRefundKeeps ==
  ASSUME BridgeInv, OneInstance, NEW i \in Instances, NEW r \in Refunds, ReadSignedRefund(i, r)
  PROVE  BridgeInv'
<1> DEFINE p == [pc |-> "refund_send", refund |-> r, tx |-> refund[r].tx]
<1>1. /\ UNCHANGED <<nodeVars, utxo, attempts, order, payout, fails, requeues, faults, refund>>
      /\ proc' = [proc EXCEPT ![i] = p] /\ refund[r].status = "signed"
  BY DEF ReadSignedRefund, Proceed, payoutVars, refundVars
<1>2. proc'[i] = p /\ UNCHANGED txs
  BY <1>1, InvParts, ProcAt DEF Parts, nodeVars
<1>3. refund[r].tx \in SignedFor(r) /\ SignedFor(r)' = SignedFor(r)
  BY <1>1, <1>2, InvParts, SameSigned DEF Parts, Rest, RefundType
<1>4. JobOK(i)'
  BY <1>2, <1>3 DEF JobOK, JobType, JobInv, RefundJobInv, Steps, RefundSteps, Sending
<1> HIDE DEF p
<1>5. p.pc = "refund_send"
  BY DEF p
<1> QED BY <1>1, <1>4, <1>5, ReadStep

LEMMA CheckUnpaidKeeps ==
  ASSUME BridgeInv, OneInstance, NEW i \in Instances, CheckUnpaid(i), UNCHANGED refundVars
  PROVE  BridgeInv'
<1> DEFINE p == [pc |-> "select", order |-> proc[i].order, row |-> proc[i].row]
<1>1. /\ UNCHANGED <<nodeVars, utxo, attempts, payout, fails, requeues, faults, refund>>
      /\ proc[i].pc = "queued" /\ proc[i].order \in Orders
  BY JobOf DEF CheckUnpaid, refundVars, JobType, Steps
<1>2. CASE MayHavePaid(proc[i].order)
  BY <1>1, <1>2, ParkFits, MoveStep DEF CheckUnpaid, OrderStates
<1>3. CASE ~MayHavePaid(proc[i].order)
  <2>1. proc' = [proc EXCEPT ![i] = p] /\ UNCHANGED order
    BY <1>3 DEF CheckUnpaid, Proceed
  <2>2. proc'[i] = p
    BY <2>1, InvParts, ProcAt DEF Parts
  <2>3. order[proc[i].order] = "PAYOUT_QUEUED" /\ proc[i].row = payout[proc[i].order].row
    BY <1>1, JobOf DEF JobInv
  <2>4. JobOK(i)'
    BY <1>1, <2>1, <2>2, <2>3 DEF JobOK, JobType, JobInv, RefundJobInv, Steps, RefundSteps, Sending
  <2> HIDE DEF p
  <2>5. p.pc = "select"
    BY DEF p
  <2> QED BY <1>1, <2>1, <2>4, <2>5, ReadStep
<1> QED BY <1>2, <1>3

LEMMA SelectInputsKeeps ==
  ASSUME BridgeInv, OneInstance, NEW i \in Instances, SelectInputs(i), UNCHANGED refundVars
  PROVE  BridgeInv'
<1>1. /\ UNCHANGED <<nodeVars, utxo, attempts, payout, fails, requeues, faults, refund>>
      /\ proc[i].pc = "select" /\ proc[i].order \in Orders
  BY JobOf DEF SelectInputs, refundVars, JobType, Steps
<1>2. CASE Transition(proc[i].order, "PAYOUT_QUEUED", "MANUAL_REVIEW") /\ Done(i)
  BY <1>1, <1>2, ParkFits, MoveStep DEF OrderStates
<1>3. ASSUME NEW S \in (SUBSET Available) \ {{}}, UNCHANGED order,
             Proceed(i, [pc |-> "sign", order |-> proc[i].order, row |-> proc[i].row, inputs |-> S])
      PROVE  BridgeInv'
  <2> DEFINE p == [pc |-> "sign", order |-> proc[i].order, row |-> proc[i].row, inputs |-> S]
  <2>1. proc' = [proc EXCEPT ![i] = p]
    BY <1>3 DEF Proceed
  <2>2. proc'[i] = p /\ S \in (SUBSET Outputs) \ {{}}
    BY <2>1, InvParts, ProcAt DEF Parts, Available
  <2>3. order[proc[i].order] = "PAYOUT_QUEUED" /\ proc[i].row = payout[proc[i].order].row
    BY <1>1, JobOf DEF JobInv
  <2>4. JobOK(i)'
    BY <1>1, <1>3, <2>1, <2>2, <2>3
       DEF JobOK, JobType, JobInv, RefundJobInv, Steps, RefundSteps, Sending, Outputs, TxIds
  <2> HIDE DEF p
  <2>5. p.pc = "sign"
    BY DEF p
  <2> QED BY <1>1, <1>3, <2>1, <2>4, <2>5, ReadStep
<1> QED BY <1>2, <1>3 DEF SelectInputs

LEMMA ConfirmKeeps ==
  ASSUME BridgeInv, OneInstance, NEW i \in Instances, NEW o \in Orders, Confirm(i, o),
         UNCHANGED refundVars
  PROVE  BridgeInv'
<1> DEFINE p == [pc |-> "complete", order |-> o]
<1>1. /\ UNCHANGED <<nodeVars, utxo, attempts, payout, requeues, faults, refund>>
      /\ proc' = [proc EXCEPT ![i] = p] /\ fails' = [fails EXCEPT ![i][o] = 0]
      /\ order' = [order EXCEPT ![o] = "PAYOUT_CONFIRMED"]
      /\ payout[o].txid # 0 /\ node[payout[o].txid] = "deep"
  BY DEF Confirm, Proceed, refundVars
<1>2. RowType /\ NodeStep /\ UNCHANGED txs /\ proc'[i] = p
  BY <1>1, InvParts, SameNode, ProcAt DEF Parts, Rest, nodeVars
<1>3. RowType'
  <2>1. 0 \in 0 .. MaxResends - 1
    BY PayoutAssumption
  <2>2. fails' \in [Instances -> [Orders -> 0 .. MaxResends - 1]]
    BY <1>1, <1>2, <2>1 DEF RowType
  <2> QED BY <1>1, <1>2, <2>2 DEF RowType, OrderStates
<1>4. \A q \in Orders : StateFits(q, order'[q])
  <2>1. StateFits(o, "PAYOUT_CONFIRMED")
    BY <1>1 DEF StateFits
  <2> QED BY <1>1, <1>2, <2>1, FitsNow DEF RowType
<1>5. JobOK(i)'
  BY <1>2 DEF JobOK, JobType, JobInv, RefundJobInv, Steps, RefundSteps, Sending
<1> HIDE DEF p
<1>6. p.pc = "complete"
  BY DEF p
<1> QED BY <1>1, <1>2, <1>3, <1>4, <1>5, <1>6, RefundsSame, QuietStep

-------------------------------------------------------------------------------
(* Retries and sends.                                                      *)

LEMMA RestSame ==
  ASSUME BridgeInv, UNCHANGED <<nodeVars, utxo, refund>>, RowType',
         \A o \in Orders : /\ StateFits(o, order'[o])
                           /\ payout'[o].row = payout[o].row /\ payout'[o].txid = payout[o].txid
  PROVE  Rest'
<1>1. NodeStep /\ Out' = Out
  BY InvParts, SameNode DEF Parts, Rest
<1>2. RefundType' /\ \A r \in Refunds : RefundInv(r)'
  BY <1>1, RefundsSame
<1> DEFINE S == {}
<1>3. /\ S \in SUBSET Signed /\ Out' \subseteq Out \cup S
      /\ \A k \in S : Bound(k) /\ (txs[k].payer \in Orders => k = Newest(txs[k].payer))
  BY <1>1
<1> HIDE DEF S
<1> QED BY <1>1, <1>2, <1>3, RestMoves

(* The audit when no send is counted any more.                             *)
LEMMA AuditAfter ==
  ASSUME BridgeInv, OneInstance, NEW i \in Instances, NEW p, proc' = [proc EXCEPT ![i] = p],
         p.pc # "send", p.pc = "lookup" => p.error # "refused",
         \A k \in Out : txs'[k] = txs[k], UNCHANGED <<relayed, inflight>>, AuditType',
         \A k \in Out : txs[k].payer \in Orders => attempts'[k].all > attempts'[k].refused
  PROVE  AuditInv'
<1>1. \A j \in Instances : proc'[j] = p
  BY InvParts, ProcAt DEF Parts
<1>2. \A j \in Instances : \A k : ~Awaited(proc'[j], k)
  BY <1>1 DEF Awaited
<1>3. Out' = Out
  BY DEF Out
<1> QED BY <1>2, <1>3 DEF AuditInv

LEMMA RetrySameTxKeeps ==
  ASSUME BridgeInv, OneInstance, NEW i \in Instances, RetrySameTx(i), UNCHANGED refundVars
  PROVE  BridgeInv'
<1> DEFINE o == proc[i].order
<1>1. /\ UNCHANGED <<nodeVars, utxo, faults, fails, requeues, refund>> /\ proc[i].pc = "queued"
      /\ ~proc[i].out /\ proc[i].held /\ Done(i) /\ o \in Orders
  BY JobOf DEF RetrySameTx, refundVars, JobType, Steps
<1>2. /\ order[o] = "PAYOUT_QUEUED" /\ HeldBy(o) # {} /\ payout[o].txid = 0
  BY <1>1, JobOf DEF JobInv
<1>3. /\ order' = [order EXCEPT ![o] = "PAYOUT_SIGNED"]
      /\ payout' = [payout EXCEPT ![o].retried = TRUE]
      /\ attempts' = [k \in TxIds |-> IF k \in SignedFor(o) THEN [attempts[k] EXCEPT !.recent = 0]
                                      ELSE attempts[k]]
  BY <1>2 DEF RetrySameTx
<1>4. RowType /\ AuditType /\ AuditInv /\ UNCHANGED <<txs, relayed, inflight>> /\ NodeTypeOK
  BY <1>1, InvParts DEF Parts, Rest, nodeVars
<1>5. RowType'
  BY <1>1, <1>3, <1>4 DEF RowType, OrderStates
<1>6. StateFits(o, "PAYOUT_SIGNED")
  <2>1. PICK c \in Outputs : utxo[c].by = {o}
    BY <1>2 DEF HeldBy
  <2>2. payout[o].row /\ Bound(Newest(o))
    BY <1>1, <2>1, InvParts DEF Parts, Rest, OrderInv
  <2> QED BY <1>2, <2>2 DEF StateFits
<1>7. \A q \in Orders : /\ StateFits(q, order'[q])
                        /\ payout'[q].row = payout[q].row /\ payout'[q].txid = payout[q].txid
  BY <1>1, <1>3, <1>4, <1>6, FitsNow DEF RowType
<1>8. Rest'
  BY <1>1, <1>5, <1>7, RestSame
<1>9. proc' = [proc EXCEPT ![i] = Idle] /\ proc'[i] = Idle /\ Idle.pc = "idle"
  BY <1>1, InvParts, ProcAt DEF Parts, Done, Proceed, Idle
<1>10. \A k \in TxIds : attempts'[k].all = attempts[k].all /\ attempts'[k].refused = attempts[k].refused
  BY <1>3, <1>4 DEF AuditType
<1>11. AuditType'
  BY <1>3, <1>4 DEF AuditType
<1>12. AuditInv'
  <2>1. Out \subseteq TxIds
    BY <1>4, SignedFacts
  <2> QED BY <1>4, <1>9, <1>10, <1>11, <2>1, AuditAfter DEF AuditInv
<1> QED BY <1>8, <1>9, <1>11, <1>12, IdleJob, Assemble

LEMMA RecordAttemptKeeps ==
  ASSUME BridgeInv, OneInstance, NEW i \in Instances, RecordAttempt(i), UNCHANGED refundVars
  PROVE  BridgeInv'
<1> DEFINE o == proc[i].order
           k == proc[i].tx
           p == [pc |-> "send", order |-> o, tx |-> k,
                 maybeOut |-> attempts[k].all # attempts[k].refused,
                 sinceRetry |-> attempts[k].recent, retried |-> payout[o].retried]
<1>1. /\ UNCHANGED <<nodeVars, utxo, faults, order, payout, requeues, fails, refund>>
      /\ proc[i].pc = "attempt" /\ proc' = [proc EXCEPT ![i] = p]
      /\ attempts' = [attempts EXCEPT ![k].all = @ + 1, ![k].recent = @ + 1]
  BY DEF RecordAttempt, Proceed, refundVars
<1>2. /\ o \in Orders /\ k \in SignedFor(o) /\ order[o] = "PAYOUT_SIGNED" /\ k = Newest(o)
  BY <1>1, JobOf DEF JobType, Steps, Sending, JobInv
<1>3. /\ RowType /\ AuditType /\ AuditInv /\ UNCHANGED <<txs, relayed, inflight>> /\ NodeTypeOK
      /\ proc'[i] = p /\ \A j \in Instances : j = i
  BY <1>1, InvParts, ProcAt DEF Parts, Rest, nodeVars
<1>4. k \in TxIds /\ Out \subseteq TxIds /\ Out' = Out
  BY <1>2, <1>3, SignedFacts DEF SignedFor, Out
<1>5. Rest'
  <2>1. RowType'
    BY <1>1, <1>3 DEF RowType
  <2> QED BY <1>1, <2>1, FitsNow, RestSame
<1>6. /\ \A j \in TxIds \ {k} : attempts'[j] = attempts[j]
      /\ attempts'[k].all = attempts[k].all + 1 /\ attempts'[k].refused = attempts[k].refused
      /\ AuditType'
  <2>1. PICK a \in [all : Nat, refused : Nat, recent : Nat] : a = attempts[k] /\ a.refused <= a.all
    BY <1>3, <1>4 DEF AuditType
  <2>2. PICK b : b = [all |-> a.all + 1, refused |-> a.refused, recent |-> a.recent + 1]
    OBVIOUS
  <2>5. b \in [all : Nat, refused : Nat, recent : Nat]
    BY <2>2
  <2>3. attempts' = [attempts EXCEPT ![k] = b]
    <3>1. PICK c : c = [a EXCEPT !.all = a.all + 1]
      OBVIOUS
    <3>2. c = [all |-> a.all + 1, refused |-> a.refused, recent |-> a.recent]
      BY <2>1, <3>1
    <3>3. b = [c EXCEPT !.recent = a.recent + 1]
      BY <2>2, <3>2
    <3>4. attempts' = [[attempts EXCEPT ![k] = c] EXCEPT ![k] = b]
      BY <1>1, <1>3, <1>4, <2>1, <3>1, <3>2, <3>3 DEF AuditType
    <3> QED BY <1>3, <1>4, <3>4 DEF AuditType
  <2>4. b.all = a.all + 1 /\ b.refused = a.refused /\ b.refused <= b.all
    BY <2>1, <2>2
  <2> QED BY <1>3, <1>4, <2>1, <2>3, <2>4, <2>5 DEF AuditType
<1>7. AuditInv'
  <2>1. /\ attempts[k].all \in Nat /\ attempts[k].refused \in Nat /\ attempts[k].refused <= attempts[k].all
        /\ k \in Out => attempts[k].all > attempts[k].refused
    BY <1>2, <1>3, <1>4 DEF AuditType, AuditInv, SignedFor
  <2>2. \A j \in Instances : \A l : Awaited(proc'[j], l) => l = k
    BY <1>3 DEF Awaited
  <2>3. \A j \in Instances : proc'[j].maybeOut = (attempts[k].all # attempts[k].refused)
    BY <1>3
  <2>4. \A j \in Instances : proc'[j].maybeOut = (attempts'[k].all # attempts'[k].refused + 1)
    BY <1>6, <2>1, <2>3
  <2>5. \A j \in Out \ {k} : txs[j].payer \in Orders => attempts'[j].all > attempts'[j].refused
    BY <1>3, <1>4, <1>6 DEF AuditInv
  <2>6. attempts'[k].all > attempts'[k].refused
        /\ (k \in Out => attempts'[k].all > attempts'[k].refused + 1)
    BY <1>6, <2>1
  <2> QED BY <1>3, <1>4, <2>2, <2>4, <2>5, <2>6 DEF AuditInv
<1>8. JobOK(i)'
  <2>1. SignedFor(o)' = SignedFor(o) /\ Newest(o)' = Newest(o)
    BY <1>3, SameSigned
  <2> QED BY <1>1, <1>2, <1>3, <2>1 DEF JobOK, JobType, JobInv, RefundJobInv, Steps, RefundSteps, Sending
<1> HIDE DEF p
<1> QED BY <1>1, <1>5, <1>6, <1>7, <1>8, Assemble

(* The audit while a send or a lookup is under way: nothing is counted.    *)
LEMMA AuditGoesOn ==
  ASSUME BridgeInv, OneInstance, NEW i \in Instances, NEW p, proc' = [proc EXCEPT ![i] = p],
         \A k \in TxIds : Awaited(p, k) => Awaited(proc[i], k) /\ p.maybeOut = proc[i].maybeOut,
         UNCHANGED <<txs, attempts>>, Out' \subseteq Out
  PROVE  AuditType' /\ AuditInv'
<1>1. AuditType /\ AuditInv /\ \A j \in Instances : proc'[j] = p /\ j = i
  BY InvParts, ProcAt DEF Parts
<1>2. AuditType'
  BY <1>1 DEF AuditType
<1>3. ASSUME NEW j \in Instances, NEW k \in TxIds
      PROVE  Awaited(proc'[j], k) => Awaited(proc[j], k) /\ proc'[j].maybeOut = proc[j].maybeOut
  BY <1>1
<1>4. Out \subseteq TxIds
  BY InvParts, SignedFacts DEF Parts, Rest
<1> QED BY <1>1, <1>2, <1>3, <1>4 DEF AuditInv

LEMMA SendKeeps ==
  ASSUME BridgeInv, OneInstance, NEW i \in Instances, Send(i), UNCHANGED refundVars
  PROVE  BridgeInv'
<1> DEFINE o == proc[i].order
           k == proc[i].tx
<1>1. /\ proc[i].pc = "send" /\ UNCHANGED <<utxo, order, payout, attempts, requeues, fails, refund>>
      /\ o \in Orders /\ k \in SignedFor(o) /\ order[o] = "PAYOUT_SIGNED" /\ k = Newest(o)
  BY JobOf DEF Send, JobType, Steps, Sending, JobInv, payoutVars, refundVars
<1>2. k \in Signed /\ txs[k].payer = o /\ k \in TxIds /\ NodeTypeOK /\ NodeInv /\ RowType
  BY <1>1, InvParts, SignedFacts DEF SignedFor, Parts, Rest
<1>3. Bound(k) /\ attempts[k].all > attempts[k].refused
  BY <1>1, <1>2, FitsNow, InvParts DEF StateFits, Parts, AuditInv, Awaited
<1>4. ASSUME NodeStep, Out' \subseteq Out \cup {k}, faults' \in Nat, NEW p,
             proc' = [proc EXCEPT ![i] = p], JobOK(i)', AuditType', AuditInv'
      PROVE  BridgeInv'
  <2>1. RowType'
    BY <1>1, <1>2, <1>4 DEF RowType, NodeStep
  <2>2. RefundType' /\ \A r \in Refunds : RefundInv(r)'
    BY <1>1, <1>4, RefundsSame
  <2> DEFINE S == {k}
  <2>3. /\ S \in SUBSET Signed /\ Out' \subseteq Out \cup S
        /\ \A j \in S : Bound(j) /\ (txs[j].payer \in Orders => j = Newest(txs[j].payer))
    BY <1>1, <1>2, <1>3, <1>4
  <2> HIDE DEF S
  <2>4. Rest'
    BY <1>1, <1>4, <2>1, <2>2, <2>3, FitsNow, RestMoves
  <2> QED BY <1>4, <2>4, Assemble
<1>5. ASSUME NEW answer, Answer(k, answer), UNCHANGED faults, answer \in {"ok", "inchain"},
             Proceed(i, Recording(proc[i]))
      PROVE  BridgeInv'
  <2> DEFINE p == Recording(proc[i])
  <2>1. NodeStep /\ Out' \subseteq Out \cup {k} /\ k \in relayed' /\ UNCHANGED txs
    BY <1>2, <1>5, AnswerStep DEF NodeStep
  <2>2. proc' = [proc EXCEPT ![i] = p] /\ proc'[i] = p /\ p.pc = "record"
    BY <1>5, InvParts, ProcAt DEF Parts, Proceed, Recording
  <2>3. SignedFor(o)' = SignedFor(o) /\ Newest(o)' = Newest(o)
    BY <2>1, <2>2, SameSigned DEF Recording
  <2>4. JobOK(i)'
    BY <1>1, <2>1, <2>2, <2>3 DEF Recording, JobOK, JobType, JobInv, RefundJobInv, Steps, RefundSteps, Sending
  <2> HIDE DEF p
  <2>5. AuditType' /\ AuditInv'
    <3> DEFINE S == {k}
    <3>1. Out' \subseteq Out \cup S
          /\ \A j \in S : txs[j].payer \in Orders => attempts[j].all > attempts[j].refused
      BY <1>3, <2>1
    <3> HIDE DEF S
    <3> QED BY <1>1, <2>1, <2>2, <3>1, AuditSame
  <2> QED BY <1>2, <1>4, <1>5, <2>1, <2>2, <2>4, <2>5 DEF RowType
<1>6. ASSUME NEW error \in {"network", "refused", "missing", "conflict"}, faults' \in Nat,
             NodeStep, Out' \subseteq Out \cup {k}, error = "refused" => Out' \subseteq Out,
             Proceed(i, Failed(proc[i], error))
      PROVE  BridgeInv'
  <2> DEFINE p == Failed(proc[i], error)
  <2>1. UNCHANGED txs
    BY <1>6 DEF NodeStep
  <2>2. proc' = [proc EXCEPT ![i] = p] /\ proc'[i] = p /\ p.pc = "lookup"
    BY <1>6, InvParts, ProcAt DEF Parts, Proceed, Failed
  <2>3. SignedFor(o)' = SignedFor(o) /\ Newest(o)' = Newest(o)
    BY <2>1, <2>2, SameSigned DEF Failed
  <2>4. JobOK(i)'
    BY <1>1, <2>1, <2>2, <2>3 DEF Failed, JobOK, JobType, JobInv, RefundJobInv, Steps, RefundSteps, Sending
  <2>5. /\ p.error = error
        /\ \A j \in TxIds : Awaited(p, j) => Awaited(proc[i], j) /\ p.maybeOut = proc[i].maybeOut
    BY <1>1 DEF Failed, Awaited
  <2> HIDE DEF p
  <2>6. CASE error = "refused"
    <3>1. AuditType' /\ AuditInv'
      BY <1>1, <1>6, <2>1, <2>2, <2>5, <2>6, AuditGoesOn
    <3> QED BY <1>4, <1>6, <2>2, <2>4, <3>1
  <2>7. CASE error # "refused"
    <3> DEFINE S == {k}
    <3>1. Out' \subseteq Out \cup S
          /\ \A j \in S : txs[j].payer \in Orders => attempts[j].all > attempts[j].refused
      BY <1>3, <1>6
    <3> HIDE DEF S
    <3>2. AuditType' /\ AuditInv'
      BY <1>1, <2>1, <2>2, <2>5, <2>7, <3>1, AuditSame
    <3> QED BY <1>4, <1>6, <2>2, <2>4, <3>2
  <2> QED BY <2>6, <2>7
<1>7. ASSUME NEW answer \in Answers(k), Answer(k, answer), UNCHANGED faults,
             Proceed(i, IF answer \in {"ok", "inchain"} THEN Recording(proc[i])
                        ELSE Failed(proc[i], answer))
      PROVE  BridgeInv'
  <2>1. CASE answer \in {"ok", "inchain"}
    BY <1>5, <1>7, <2>1
  <2>2. CASE answer \notin {"ok", "inchain"}
    <3>1. answer \in {"refused", "missing", "conflict"}
      BY <2>2 DEF Answers
    <3>2. NodeStep /\ Out' \subseteq Out
      BY <1>2, <1>7, <2>2, AnswerStep
    <3>3. faults' \in Nat
      BY <1>2, <1>7 DEF RowType
    <3> QED BY <1>6, <1>7, <2>2, <3>1, <3>2, <3>3
  <2> QED BY <2>1, <2>2
<1>8. ASSUME faults' = faults + 1, AnswerLost(k), Proceed(i, Failed(proc[i], "network"))
      PROVE  BridgeInv'
  <2>1. NodeStep /\ Out' \subseteq Out \cup {k} /\ faults' \in Nat
    BY <1>2, <1>8, LostStep DEF RowType
  <2> QED BY <1>6, <1>8, <2>1
<1> QED BY <1>7, <1>8 DEF Send

LEMMA LookUpKeeps ==
  ASSUME BridgeInv, OneInstance, NEW i \in Instances, LookUp(i), UNCHANGED refundVars
  PROVE  BridgeInv'
<1> DEFINE o == proc[i].order
           k == proc[i].tx
<1>1. /\ proc[i].pc = "lookup" /\ UNCHANGED <<nodeVars, utxo, order, payout, requeues, fails, refund>>
      /\ o \in Orders /\ k \in SignedFor(o) /\ order[o] = "PAYOUT_SIGNED" /\ k = Newest(o)
  BY JobOf DEF LookUp, JobType, Steps, Sending, JobInv, refundVars
<1>2. /\ k \in Signed /\ txs[k].payer = o /\ k \in TxIds /\ NodeTypeOK /\ NodeInv /\ RowType
      /\ AuditType /\ AuditInv /\ UNCHANGED <<txs, relayed, inflight>> /\ Out \subseteq TxIds /\ Out' = Out
  BY <1>1, InvParts, SignedFacts DEF SignedFor, Parts, Rest, nodeVars, Out
<1>3. PICK has \in {"yes", "no", "unreachable"} :
        /\ has # "unreachable" => (has = "yes") = Holds(k)
        /\ faults' = faults + (IF has = "unreachable" THEN 1 ELSE 0)
        /\ Proceed(i, IF has = "yes" THEN Recording(proc[i])
                      ELSE IF MayRelease(proc[i])
                      THEN IF has = "no" THEN [pc |-> "release", order |-> o, tx |-> k] ELSE Idle
                      ELSE IF Retryable(proc[i]) THEN Idle
                      ELSE [pc |-> "park", order |-> o, tx |-> k])
        /\ attempts' = IF has # "yes" /\ proc[i].error = "refused"
                       THEN [attempts EXCEPT ![k].refused = @ + 1] ELSE attempts
  BY DEF LookUp
<1>4. faults' \in Nat
  BY <1>2, <1>3 DEF RowType
<1>5. Rest'
  <2>1. RowType'
    BY <1>1, <1>2, <1>4 DEF RowType
  <2> QED BY <1>1, <2>1, FitsNow, RestSame
<1>6. AuditType' /\ \A j \in Out : txs[j].payer \in Orders => attempts'[j].all > attempts'[j].refused
  <2>1. CASE attempts' = attempts
    BY <1>2, <2>1 DEF AuditType, AuditInv
  <2>2. CASE proc[i].error = "refused" /\ attempts' = [attempts EXCEPT ![k].refused = @ + 1]
    <3>1. Awaited(proc[i], k)
      BY <1>1, <2>2 DEF Awaited
    <3>2. /\ attempts[k].all > attempts[k].refused
          /\ k \in Out => attempts[k].all > attempts[k].refused + 1
      BY <1>1, <1>2, <3>1 DEF AuditInv
    <3>3. attempts[k].all \in Nat /\ attempts[k].refused \in Nat
      BY <1>2 DEF AuditType
    <3>4. /\ \A j \in TxIds \ {k} : attempts'[j] = attempts[j]
          /\ attempts'[k].all = attempts[k].all /\ attempts'[k].refused = attempts[k].refused + 1
          /\ attempts' \in [TxIds -> [all : Nat, refused : Nat, recent : Nat]]
      BY <1>2, <2>2 DEF AuditType
    <3>5. AuditType'
      BY <1>2, <3>2, <3>3, <3>4 DEF AuditType
    <3> QED BY <1>2, <3>2, <3>3, <3>4, <3>5 DEF AuditInv
  <2> QED BY <1>3, <2>1, <2>2
<1>7. ASSUME NEW p, Proceed(i, p), p.pc \notin {"send", "lookup"}, JobOK(i)'
      PROVE  BridgeInv'
  <2>1. proc' = [proc EXCEPT ![i] = p]
    BY <1>7 DEF Proceed
  <2>2. AuditInv'
    BY <1>2, <1>6, <1>7, <2>1, AuditAfter
  <2> QED BY <1>5, <1>6, <1>7, <2>1, <2>2, Assemble
<1>8. ASSUME NEW p, Proceed(i, p), p.order = o, p.tx = k, p.pc \in {"record", "release", "park"},
             p.pc = "record" => k \in relayed, p.pc = "release" => k \notin Out
      PROVE  BridgeInv'
  <2>1. proc'[i] = p
    BY <1>8, InvParts, ProcAt DEF Parts, Proceed
  <2>2. SignedFor(o)' = SignedFor(o) /\ Newest(o)' = Newest(o)
    BY <1>2, <1>8, <2>1, SameSigned
  <2>3. JobType(i)'
    BY <1>1, <1>8, <2>1, <2>2 DEF JobType, Steps, RefundSteps, Sending
  <2>4. JobInv(i)'
    BY <1>1, <1>2, <1>8, <2>1, <2>2 DEF JobInv
  <2>5. RefundJobInv(i)'
    BY <1>8, <2>1 DEF RefundJobInv
  <2> QED BY <1>7, <1>8, <2>3, <2>4, <2>5 DEF JobOK
<1>9. CASE Proceed(i, Idle)
  <2>1. proc'[i] = Idle /\ Idle.pc = "idle"
    BY <1>9, InvParts, ProcAt DEF Parts, Proceed, Idle
  <2> QED BY <1>7, <1>9, <2>1, IdleJob
<1>10. CASE has = "yes"
  <2>1. k \in relayed
    BY <1>2, <1>3, <1>10 DEF NodeInv
  <2>2. Proceed(i, Recording(proc[i]))
    BY <1>3, <1>10
  <2> QED BY <1>8, <2>1, <2>2 DEF Recording
<1>11. CASE has = "no" /\ MayRelease(proc[i])
  <2>1. Awaited(proc[i], k) /\ ~proc[i].maybeOut
    BY <1>1, <1>11 DEF Awaited, MayRelease
  <2>2. k \notin Out
    <3>1. proc[i].maybeOut = (attempts[k].all # attempts[k].refused + 1)
      BY <1>2, <2>1 DEF AuditInv
    <3>2. attempts[k].all = attempts[k].refused + 1
      BY <2>1, <3>1
    <3>3. k \in Out => attempts[k].all > attempts[k].refused + 1
      BY <1>1, <1>2, <2>1 DEF AuditInv
    <3>4. attempts[k].all \in Nat
      BY <1>2 DEF AuditType
    <3> QED BY <3>2, <3>3, <3>4
  <2>3. Proceed(i, [pc |-> "release", order |-> o, tx |-> k])
    BY <1>3, <1>11
  <2> QED BY <1>8, <2>2, <2>3
<1>12. CASE Proceed(i, [pc |-> "park", order |-> o, tx |-> k])
  BY <1>8, <1>12
<1> QED BY <1>3, <1>9, <1>10, <1>11, <1>12

LEMMA SendRefundKeeps ==
  ASSUME BridgeInv, OneInstance, NEW i \in Instances, SendRefund(i)
  PROVE  BridgeInv'
<1> DEFINE r == proc[i].refund
           k == proc[i].tx
<1>1. /\ proc[i].pc = "refund_send" /\ UNCHANGED <<utxo, order, payout, attempts, requeues, fails, refund>>
      /\ r \in Refunds /\ k \in SignedFor(r)
  BY JobOf DEF SendRefund, JobType, RefundSteps, RefundJobInv, payoutVars, refundVars
<1>2. /\ k \in Signed /\ txs[k].payer = r /\ r \notin Orders /\ NodeTypeOK /\ NodeInv /\ RowType
  BY <1>1, InvParts, RefundAssumption DEF SignedFor, Parts, Rest
<1>3. Bound(k)
  BY <1>1, <1>2, InvParts DEF Parts, Rest, CoinInv
<1>4. ASSUME NodeStep, Out' \subseteq Out \cup {k}, faults' \in Nat, NEW p,
             proc' = [proc EXCEPT ![i] = p], p.pc \notin {"send", "lookup"}, JobOK(i)'
      PROVE  BridgeInv'
  <2>1. RowType' /\ UNCHANGED txs
    BY <1>1, <1>2, <1>4 DEF RowType, NodeStep
  <2>2. RefundType' /\ \A q \in Refunds : RefundInv(q)'
    BY <1>1, <1>4, RefundsSame
  <2> DEFINE S == {k}
  <2>3. /\ S \in SUBSET Signed /\ Out' \subseteq Out \cup S
        /\ \A j \in S : Bound(j) /\ (txs[j].payer \in Orders => j = Newest(txs[j].payer))
        /\ \A j \in S : txs[j].payer \in Orders => attempts[j].all > attempts[j].refused
    BY <1>1, <1>2, <1>3, <1>4
  <2> HIDE DEF S
  <2>4. Rest'
    BY <1>1, <1>4, <2>1, <2>2, <2>3, FitsNow, RestMoves
  <2>5. AuditType' /\ AuditInv'
    BY <1>1, <1>4, <2>1, <2>3, AuditSame
  <2> QED BY <1>4, <2>4, <2>5, Assemble
<1>5. ASSUME NEW answer, Answer(k, answer), UNCHANGED faults,
             NEW pc \in {"refund_record", "refund_park"}, pc = "refund_record" => answer \in {"ok", "inchain"},
             Proceed(i, [proc[i] EXCEPT !.pc = pc])
      PROVE  BridgeInv'
  <2> DEFINE p == [proc[i] EXCEPT !.pc = pc]
  <2>1. NodeStep /\ Out' \subseteq Out \cup {k} /\ UNCHANGED txs /\ (pc = "refund_record" => k \in relayed')
    BY <1>2, <1>5, AnswerStep DEF NodeStep
  <2>2. proc' = [proc EXCEPT ![i] = p] /\ proc'[i] = p
    BY <1>5, InvParts, ProcAt DEF Parts, Proceed
  <2>3. p.pc = pc /\ p.refund = r /\ p.tx = k
    OBVIOUS
  <2> HIDE DEF p
  <2>4. SignedFor(r)' = SignedFor(r)
    BY <2>1, <2>2, <2>3, SameSigned
  <2>5. JobOK(i)'
    BY <1>1, <1>5, <2>1, <2>2, <2>3, <2>4
       DEF JobOK, JobType, JobInv, RefundJobInv, Steps, RefundSteps, Sending
  <2> QED BY <1>2, <1>4, <1>5, <2>1, <2>2, <2>3, <2>5 DEF RowType
<1>6. ASSUME faults' = faults + 1, AnswerLost(k), Done(i)
      PROVE  BridgeInv'
  <2>1. NodeStep /\ Out' \subseteq Out \cup {k} /\ faults' \in Nat
    BY <1>2, <1>6, LostStep DEF RowType
  <2>2. proc' = [proc EXCEPT ![i] = Idle] /\ proc'[i] = Idle /\ Idle.pc = "idle"
    BY <1>6, InvParts, ProcAt DEF Parts, Done, Proceed, Idle
  <2> QED BY <1>4, <2>1, <2>2, IdleJob
<1> QED BY <1>5, <1>6 DEF SendRefund

LEMMA ResendKeeps ==
  ASSUME BridgeInv, OneInstance, NEW i \in Instances, Resend(i), UNCHANGED refundVars
  PROVE  BridgeInv'
<1> DEFINE o == proc[i].order
           k == proc[i].tx
<1>1. /\ proc[i].pc = "resend" /\ UNCHANGED <<utxo, payout, attempts, requeues, refund>>
      /\ o \in Orders /\ k \in Signed /\ k \in relayed /\ Done(i)
  BY JobOf DEF Resend, JobType, Steps, Sending, JobInv, SignedFor, refundVars
<1>2. NodeTypeOK /\ NodeInv /\ RowType
  BY InvParts DEF Parts, Rest
<1>3. /\ Answer(k, "ok") \/ (\E answer : Answer(k, answer)) \/ AnswerLost(k)
      /\ faults' \in {faults, faults + 1}
      /\ UNCHANGED order \/ Transition(o, "PAYOUT_BROADCAST", "MANUAL_REVIEW")
  BY DEF Resend
<1>4. NodeStep /\ Out' \subseteq Out /\ UNCHANGED txs
  <2>1. ASSUME NEW answer, Answer(k, answer) PROVE NodeStep /\ Out' \subseteq Out
    BY <1>1, <1>2, <2>1, AnswerStep DEF Out
  <2>2. ASSUME AnswerLost(k) PROVE NodeStep /\ Out' \subseteq Out
    BY <1>1, <1>2, <2>2, LostStep DEF Out
  <2> QED BY <1>3, <2>1, <2>2 DEF NodeStep
<1>5. fails' \in [Instances -> [Orders -> 0 .. MaxResends - 1]]
  <2>1. 0 \in 0 .. MaxResends - 1 /\ MaxResends \in Nat
    BY PayoutAssumption
  <2>2. ~(Failures(i, o) >= MaxResends) => Failures(i, o) \in 0 .. MaxResends - 1
    BY <1>1, <1>2, <2>1 DEF RowType, Failures
  <2>3. \/ UNCHANGED fails \/ fails' = [fails EXCEPT ![i][o] = 0]
        \/ ~(Failures(i, o) >= MaxResends) /\ fails' = [fails EXCEPT ![i][o] = Failures(i, o)]
    BY DEF Resend
  <2>4. ASSUME NEW n \in 0 .. MaxResends - 1, fails' = [fails EXCEPT ![i][o] = n]
        PROVE  fails' \in [Instances -> [Orders -> 0 .. MaxResends - 1]]
    BY <1>2, <2>4 DEF RowType
  <2>5. CASE UNCHANGED fails
    BY <1>2, <2>5 DEF RowType
  <2> QED BY <2>1, <2>2, <2>3, <2>4, <2>5
<1>6. RowType' /\ \A q \in Orders : StateFits(q, order'[q])
  <2>1. faults' \in Nat
    BY <1>2, <1>3 DEF RowType
  <2>2. order' \in [Orders -> OrderStates]
    BY <1>2, <1>3 DEF Transition, RowType, OrderStates
  <2>3. RowType'
    BY <1>1, <1>2, <1>4, <1>5, <2>1, <2>2 DEF RowType
  <2>4. \A q \in Orders : order'[q] \in {order[q], "MANUAL_REVIEW"}
    BY <1>2, <1>3 DEF Transition, RowType
  <2> QED BY <2>3, <2>4, FitsNow, ParkFits
<1>7. RefundType' /\ \A q \in Refunds : RefundInv(q)'
  BY <1>1, <1>4, RefundsSame
<1>8. proc' = [proc EXCEPT ![i] = Idle] /\ proc'[i] = Idle /\ Idle.pc = "idle"
  BY <1>1, InvParts, ProcAt DEF Parts, Done, Proceed, Idle
<1> DEFINE S == {}
<1>9. /\ S \in SUBSET Signed /\ Out' \subseteq Out \cup S
      /\ \A j \in S : Bound(j) /\ (txs[j].payer \in Orders => j = Newest(txs[j].payer))
      /\ \A j \in S : txs[j].payer \in Orders => attempts[j].all > attempts[j].refused
  BY <1>4
<1> HIDE DEF S
<1>10. Rest'
  BY <1>1, <1>4, <1>6, <1>7, <1>9, RestMoves
<1>11. AuditType' /\ AuditInv'
  BY <1>1, <1>4, <1>8, <1>9, AuditSame
<1> QED BY <1>8, <1>10, <1>11, IdleJob, Assemble

-------------------------------------------------------------------------------
(* Steps that move coins, all of one payer.                                *)

(* The coins of the others stay as they are, and what is signed is signed. *)
PoolStep(p) ==
  /\ NodeTypeOK' /\ NodeInv' /\ PoolType'
  /\ \A c \in Outputs : utxo'[c].status \in {"absent", "available"} => utxo'[c].by = {}
  /\ \A q \in Payers \ {p} : \A c \in Outputs :
       utxo[c].by = {q} \/ utxo'[c].by = {q} => utxo'[c] = utxo[c]
  /\ \A k \in Signed : k \in Signed' /\ txs'[k] = txs[k]
  /\ \A k \in Signed' \ Signed : txs'[k].payer = p
  /\ UNCHANGED <<node, relayed, copied, inflight>>

(* Signed transactions spend outputs. *)
LEMMA InputsAreOutputs ==
  ASSUME NodeTypeOK, NEW k \in Signed
  PROVE  txs[k].inputs \subseteq Outputs /\ txs[k].payer \in Payers
BY SignedFacts DEF Transactions

LEMMA PoolOther ==
  ASSUME NodeTypeOK, NEW p, PoolStep(p), NEW q \in Payers, q # p
  PROVE  /\ SignedFor(q)' = SignedFor(q) /\ Newest(q)' = Newest(q)
         /\ HeldBy(q)' = HeldBy(q) /\ SpentBy(q)' = SpentBy(q)
         /\ \A k \in SignedFor(q) : Bound(k)' = Bound(k) /\ Inputs(k)' = Inputs(k)
<1>1. SignedFor(q)' = SignedFor(q)
  BY DEF SignedFor, PoolStep
<1>2. HeldBy(q)' = HeldBy(q) /\ SpentBy(q)' = SpentBy(q)
  BY DEF HeldBy, SpentBy, PoolStep
<1>3. ASSUME NEW k \in SignedFor(q) PROVE Bound(k)' = Bound(k) /\ Inputs(k)' = Inputs(k)
  <2>1. k \in Signed /\ txs[k].payer = q /\ txs'[k] = txs[k] /\ txs[k].inputs \subseteq Outputs
    BY InputsAreOutputs DEF SignedFor, PoolStep
  <2>2. ASSUME NEW c \in Outputs
        PROVE  /\ utxo[c].by = {q} => utxo'[c] = utxo[c]
               /\ utxo'[c].by = {q} => utxo'[c] = utxo[c]
    BY DEF PoolStep
  <2> QED BY <2>1, <2>2 DEF Bound, Inputs
<1> QED BY <1>1, <1>2, <1>3, NewestSame

LEMMA OrderUntouched ==
  ASSUME NodeTypeOK, NEW p, PoolStep(p), NEW o \in Orders, o # p, OrderInv(o),
         order'[o] = order[o], payout'[o] = payout[o]
  PROVE  OrderInv(o)'
<1> DEFINE k == payout[o].txid
<1>1. /\ SignedFor(o)' = SignedFor(o) /\ Newest(o)' = Newest(o) /\ SpentBy(o)' = SpentBy(o)
      /\ \A j \in SignedFor(o) : Bound(j)' = Bound(j) /\ Inputs(j)' = Inputs(j)
      /\ UNCHANGED <<node, relayed, inflight>> /\ Out' = Out
  BY PoolOther, PayoutAssumption DEF PoolStep, Out
<1>2. k' = k
  OBVIOUS
<1>3. payout[o].row => Newest(o) \in SignedFor(o) /\ Bound(Newest(o))' = Bound(Newest(o))
  <2>1. payout[o].row => Newest(o) \in SignedFor(o)
    BY DEF OrderInv
  <2> QED BY <1>1, <2>1 DEF Bound, Inputs
<1>4. \A c \in Outputs : utxo'[c].by = {o} => utxo[c].by = {o}
  BY PayoutAssumption DEF PoolStep
<1>5. /\ payout'[o].row <=> SignedFor(o)' # {}
      /\ SignedFor(o)' # {} => Newest(o)' \in SignedFor(o)'
      /\ \A j \in SignedFor(o)' : j <= Newest(o)' /\ (j \in Out' => j = Newest(o)')
  BY <1>1 DEF OrderInv
<1>6. \A c \in Outputs : utxo'[c].by = {o} => payout'[o].row /\ Bound(Newest(o))'
  BY <1>3, <1>4 DEF OrderInv
<1>7. k # 0 => Inputs(k)' = Inputs(k)
  BY <1>1, <1>2 DEF OrderInv, Inputs
<1>8. /\ k = 0 => SpentBy(o)' = {}
      /\ k # 0 => k \in SignedFor(o)' /\ k \in relayed' /\ Inputs(k)' \subseteq SpentBy(o)'
  BY <1>1, <1>7 DEF OrderInv
<1>9. StateFits(o, order[o])'
  BY <1>1, <1>2, <1>3 DEF StateFits, OrderInv
<1>10. Inputs(k)' = txs'[k'].inputs
  BY DEF Inputs
<1> QED BY <1>2, <1>5, <1>6, <1>8, <1>9, <1>10 DEF OrderInv

LEMMA RefundUntouched ==
  ASSUME NodeTypeOK, NEW p, PoolStep(p), NEW r \in Refunds, r # p, RefundInv(r), refund'[r] = refund[r],
         refund[r].status \in {"signed", "broadcast", "confirmed"} => refund[r].tx \in SignedFor(r)
  PROVE  RefundInv(r)'
<1>1. /\ SignedFor(r)' = SignedFor(r) /\ SpentBy(r)' = SpentBy(r)
      /\ \A k \in SignedFor(r) : Inputs(k)' = Inputs(k)
      /\ UNCHANGED <<node, relayed>>
  BY PoolOther, RefundAssumption DEF PoolStep
<1> QED BY <1>1 DEF RefundInv, Inputs

LEMMA CoinStep ==
  ASSUME NodeTypeOK, CoinInv, NEW p, PoolStep(p),
         \A k \in Signed' : txs'[k].payer = p =>
           Inputs(k)' # {} /\ (k \in Out \/ p \in Refunds => Bound(k)')
  PROVE  CoinInv'
<1>1. Out' = Out /\ Out \subseteq Signed
  BY SignedFacts DEF PoolStep, Out
<1>2. ASSUME NEW k \in Signed', txs'[k].payer # p
      PROVE  k \in Signed /\ txs'[k] = txs[k] /\ Inputs(k)' = Inputs(k) /\ Bound(k)' = Bound(k)
  <2>1. k \in Signed /\ txs'[k] = txs[k]
    BY <1>2 DEF PoolStep
  <2>2. k \in SignedFor(txs[k].payer) /\ txs[k].payer \in Payers /\ txs[k].payer # p
    BY <1>2, <2>1, InputsAreOutputs DEF SignedFor
  <2> QED BY <2>1, <2>2, PoolOther
<1>3. \A k \in Signed' : Inputs(k)' # {}
  BY <1>2 DEF CoinInv
<1>4. ASSUME NEW k \in Out' PROVE Bound(k)'
  <2>1. k \in Out /\ k \in Signed /\ k \in Signed'
    BY <1>1 DEF PoolStep
  <2>2. Bound(k)
    BY <2>1 DEF CoinInv
  <2> QED BY <1>2, <2>1, <2>2
<1>5. ASSUME NEW k \in Signed', txs'[k].payer \in Refunds PROVE Bound(k)'
  <2>1. CASE txs'[k].payer = p
    BY <1>5, <2>1
  <2>2. CASE txs'[k].payer # p
    BY <1>2, <1>5, <2>2 DEF CoinInv
  <2> QED BY <2>1, <2>2
<1> QED BY <1>3, <1>4, <1>5 DEF CoinInv, PoolStep

LEMMA PoolRest ==
  ASSUME BridgeInv, NEW p \in Payers, PoolStep(p), RowType', RefundType',
         \A o \in Orders \ {p} : order'[o] = order[o] /\ payout'[o] = payout[o],
         \A r \in Refunds \ {p} : refund'[r] = refund[r],
         p \in Orders => OrderInv(p)', p \in Refunds => RefundInv(p)',
         \A k \in Signed' : txs'[k].payer = p =>
           Inputs(k)' # {} /\ (k \in Out \/ p \in Refunds => Bound(k)')
  PROVE  Rest'
<1>1. /\ NodeTypeOK /\ CoinInv /\ \A o \in Orders : OrderInv(o)
      /\ RefundType /\ \A r \in Refunds : RefundInv(r)
  BY InvParts DEF Parts, Rest
<1>2. CoinInv'
  BY <1>1, CoinStep
<1>3. \A o \in Orders : OrderInv(o)'
  BY <1>1, OrderUntouched
<1>4. ASSUME NEW r \in Refunds PROVE RefundInv(r)'
  <2>1. CASE r = p
    BY <2>1
  <2>2. CASE r # p
    BY <1>1, <2>2, RefundUntouched DEF RefundType
  <2> QED BY <2>1, <2>2
<1> QED BY <1>2, <1>3, <1>4 DEF Rest, PoolStep

(* Coins, of nobody while they are absent or offered, and p's.             *)
LEMMA CoinFacts ==
  ASSUME BridgeInv
  PROVE  \A c \in Outputs : /\ utxo[c].status \in {"absent", "available", "reserved", "spent"}
                            /\ utxo[c] \in [status : {"absent", "available", "reserved", "spent"},
                                           by : SUBSET Payers]
                            /\ utxo[c].status \in {"absent", "available"} => utxo[c].by = {}
BY InvParts DEF Parts, Rest, PoolType, CoinInv

LEMMA SameTxs ==
  ASSUME BridgeInv, UNCHANGED nodeVars
  PROVE  /\ NodeTypeOK' /\ NodeInv'
         /\ \A k \in Signed : k \in Signed' /\ txs'[k] = txs[k]
         /\ Signed' = Signed /\ Out' = Out
         /\ UNCHANGED <<txs, node, relayed, copied, inflight>>
<1>1. NodeStep /\ Out' = Out
  BY InvParts, SameNode DEF Parts, Rest
<1> QED BY <1>1 DEF NodeStep, Signed, nodeVars

LEMMA SpendStep ==
  ASSUME BridgeInv, NEW p \in Payers, NEW k, utxo' = Spend(p, {}, k), UNCHANGED nodeVars
  PROVE  /\ PoolStep(p)
         /\ \A c \in Outputs : /\ utxo'[c].by = utxo[c].by
                               /\ utxo[c].by = {p} => utxo'[c].status = "spent"
<1>1. ASSUME NEW c \in Outputs
      PROVE  \/ utxo[c].by = {p} /\ utxo'[c] = [status |-> "spent", by |-> {p}]
             \/ utxo[c].by = {} /\ utxo'[c] = [status |-> "available", by |-> {}]
             \/ utxo[c].by # {p} /\ utxo'[c] = utxo[c]
  <2>1. CASE utxo[c].by = {p}
    BY <2>1 DEF Spend
  <2>2. CASE utxo[c].by # {p} /\ c = k /\ txs[k].change /\ utxo[k].status = "absent"
    BY <2>2, CoinFacts DEF Spend
  <2>3. CASE utxo[c].by # {p} /\ ~(c = k /\ txs[k].change /\ utxo[k].status = "absent")
    BY <2>3 DEF Spend
  <2> QED BY <2>1, <2>2, <2>3
<1>2. utxo' = [c \in Outputs |-> utxo'[c]]
  BY DEF Spend
<1>3. \A c \in Outputs : utxo'[c] \in
          [status : {"absent", "available", "reserved", "spent"}, by : SUBSET Payers]
  <2>1. {p} \in SUBSET Payers
    OBVIOUS
  <2> QED BY <1>1, <2>1, CoinFacts
<1>4. PoolType'
  BY <1>2, <1>3 DEF PoolType, Outputs, TxIds
<1>5. ASSUME NEW q \in Payers \ {p}, NEW c \in Outputs, utxo[c].by = {q} \/ utxo'[c].by = {q}
      PROVE  utxo'[c] = utxo[c]
  <2>1. {q} # {} /\ {q} # {p}
    OBVIOUS
  <2> QED BY <1>1, <1>5, <2>1
<1>6. \A c \in Outputs : utxo'[c].status \in {"absent", "available"} => utxo'[c].by = {}
  BY <1>1, CoinFacts
<1>7. PoolStep(p)
  BY <1>4, <1>5, <1>6, SameTxs DEF PoolStep
<1>8. ASSUME NEW c \in Outputs
      PROVE  utxo'[c].by = utxo[c].by /\ (utxo[c].by = {p} => utxo'[c].status = "spent")
  <2>1. CASE utxo[c].by = {p} /\ utxo'[c] = [status |-> "spent", by |-> {p}]
    BY <2>1
  <2>2. CASE utxo[c].by = {} /\ utxo'[c] = [status |-> "available", by |-> {}]
    BY <2>2
  <2>3. CASE utxo[c].by # {p} /\ utxo'[c] = utxo[c]
    BY <2>3
  <2> QED BY <1>1, <2>1, <2>2, <2>3
<1> QED BY <1>7, <1>8

LEMMA ReleaseStep ==
  ASSUME BridgeInv, NEW p \in Payers, utxo' = Release(p), UNCHANGED nodeVars
  PROVE  /\ PoolStep(p)
         /\ \A c \in Outputs : utxo'[c].by = {p} => c \in SpentBy(p)
<1>1. ASSUME NEW c \in Outputs
      PROVE  \/ c \in HeldBy(p) /\ utxo'[c] = [status |-> "available", by |-> {}]
             \/ c \notin HeldBy(p) /\ utxo'[c] = utxo[c]
  BY DEF Release
<1>2. utxo' = [c \in Outputs |-> utxo'[c]]
  BY DEF Release
<1>3. \A c \in Outputs : utxo'[c] \in
          [status : {"absent", "available", "reserved", "spent"}, by : SUBSET Payers]
  BY <1>1, CoinFacts
<1>4. PoolType'
  BY <1>2, <1>3 DEF PoolType, Outputs, TxIds
<1>5. ASSUME NEW c \in Outputs, utxo'[c].by = {p}
      PROVE  c \in SpentBy(p)
  <2>1. {p} # {}
    OBVIOUS
  <2> QED BY <1>1, <1>5, <2>1, CoinFacts DEF HeldBy, SpentBy
<1>6. ASSUME NEW q \in Payers \ {p}, NEW c \in Outputs, utxo[c].by = {q} \/ utxo'[c].by = {q}
      PROVE  utxo'[c] = utxo[c]
  <2>1. {q} # {} /\ {q} # {p}
    OBVIOUS
  <2> QED BY <1>1, <1>6, <2>1 DEF HeldBy
<1>7. \A c \in Outputs : utxo'[c].status \in {"absent", "available"} => utxo'[c].by = {}
  BY <1>1, CoinFacts
<1>8. PoolStep(p)
  BY <1>4, <1>6, <1>7, SameTxs DEF PoolStep
<1> QED BY <1>5, <1>8

LEMMA CommitKeeps ==
  ASSUME BridgeInv, OneInstance, NEW i \in Instances, Commit(i), UNCHANGED refundVars
  PROVE  BridgeInv'
<1> DEFINE o == proc[i].order
           k == proc[i].tx
<1>1. /\ proc[i].pc = "record" /\ UNCHANGED <<nodeVars, faults, attempts, requeues, fails, refund>>
      /\ o \in Orders /\ k \in SignedFor(o) /\ order[o] = "PAYOUT_SIGNED" /\ k = Newest(o)
      /\ k \in relayed /\ Done(i)
  BY JobOf DEF Commit, JobType, Steps, Sending, JobInv, refundVars
<1>2. /\ payout' = [payout EXCEPT ![o].txid = k] /\ utxo' = Spend(o, {}, k)
      /\ order' = [order EXCEPT ![o] = "PAYOUT_BROADCAST"]
  BY <1>1 DEF Commit, Transition
<1>3. NodeTypeOK /\ CoinInv /\ RowType /\ OrderInv(o) /\ RefundType /\ AuditType /\ AuditInv
      /\ o \in Payers /\ o \notin Refunds
  BY <1>1, InvParts, PayoutAssumption, RefundAssumption DEF Parts, Rest
<1>4. /\ PoolStep(o)
      /\ \A c \in Outputs : utxo'[c].by = utxo[c].by
      /\ \A c \in Outputs : utxo[c].by = {o} => utxo'[c].status = "spent"
      /\ Signed' = Signed /\ Out' = Out /\ UNCHANGED <<txs, node, relayed, copied, inflight>>
  BY <1>1, <1>2, <1>3, SpendStep, SameTxs
<1>5. /\ payout[o].row /\ payout[o].txid = 0 /\ Bound(k) /\ k \in Signed /\ txs[k].payer = o
      /\ txs[k].inputs \subseteq Outputs /\ k # 0
  BY <1>1, <1>3, FitsNow, InputsAreOutputs DEF StateFits, SignedFor, Signed
<1>6. /\ SignedFor(o)' = SignedFor(o) \/ o # o'
      /\ \A q : SignedFor(q)' = SignedFor(q) /\ Newest(q)' = Newest(q)
  BY <1>4, SameSigned
<1>7. RowType'
  <2>1. k \in 0 .. Len(txs)
    BY <1>5 DEF Signed
  <2> QED BY <1>1, <1>2, <1>3, <1>4, <2>1 DEF RowType, OrderStates
<1>8. RefundType'
  BY <1>1, <1>3, <1>4, <1>6 DEF RefundType
<1>9. ASSUME NEW j \in Signed, Bound(j), txs[j].payer = o PROVE Bound(j)'
  <2>1. \A c \in txs[j].inputs : c \in Outputs /\ utxo[c].by = {o}
    BY <1>3, <1>9, InputsAreOutputs DEF Bound, Inputs
  <2> QED BY <1>4, <1>9, <2>1 DEF Bound, Inputs
<1>10. ASSUME NEW q, q = o PROVE OrderInv(q)'
  <2>1. payout'[q].txid = k /\ payout'[q].row /\ order'[q] = "PAYOUT_BROADCAST"
    BY <1>1, <1>2, <1>3, <1>5, <1>10 DEF RowType
  <2>2. Bound(Newest(q))'
    BY <1>1, <1>5, <1>6, <1>9, <1>10 DEF Bound, Inputs
  <2>3. /\ SignedFor(q)' # {} /\ Newest(q)' \in SignedFor(q)'
        /\ \A j \in SignedFor(q)' : j <= Newest(q)' /\ (j \in Out' => j = Newest(q)')
    BY <1>1, <1>3, <1>4, <1>6, <1>10 DEF OrderInv
  <2>4. k \in SignedFor(q)' /\ k \in relayed' /\ txs'[k].inputs \subseteq SpentBy(q)'
    <3>1. \A c \in txs[k].inputs : c \in Outputs /\ utxo[c].by = {o}
      BY <1>5 DEF Bound, Inputs
    <3> QED BY <1>1, <1>4, <1>6, <1>10, <3>1 DEF SpentBy
  <2>5. StateFits(q, order[q])'
    BY <1>5, <2>1 DEF StateFits
  <2> QED BY <1>5, <2>1, <2>2, <2>3, <2>4, <2>5 DEF OrderInv, Inputs
<1>11. ASSUME NEW j \in Signed', txs'[j].payer = o
       PROVE  Inputs(j)' # {} /\ (j \in Out => Bound(j)')
  <2>1. j \in Signed /\ txs[j].payer = o
    BY <1>4, <1>11
  <2> QED BY <1>3, <1>4, <1>9, <2>1 DEF CoinInv, Inputs
<1>12. \A q \in Orders \ {o} : order'[q] = order[q] /\ payout'[q] = payout[q]
  BY <1>2, <1>3 DEF RowType
<1>13. Rest'
  <2> HIDE DEF o
  <2> QED BY <1>1, <1>3, <1>4, <1>7, <1>8, <1>10, <1>11, <1>12, PoolRest
<1>14. proc' = [proc EXCEPT ![i] = Idle] /\ proc'[i] = Idle /\ Idle.pc = "idle"
  BY <1>1, InvParts, ProcAt DEF Parts, Done, Proceed, Idle
<1>15. AuditType' /\ AuditInv'
  <2>1. AuditType' /\ \A j \in Out : txs[j].payer \in Orders => attempts'[j].all > attempts'[j].refused
    BY <1>1, <1>3 DEF AuditType, AuditInv
  <2> QED BY <1>4, <1>14, <2>1, AuditAfter
<1> QED BY <1>13, <1>14, <1>15, IdleJob, Assemble

LEMMA ParkAndReleaseKeeps ==
  ASSUME BridgeInv, OneInstance, NEW i \in Instances, ParkAndRelease(i), UNCHANGED refundVars
  PROVE  BridgeInv'
<1> DEFINE o == proc[i].order
           k == proc[i].tx
<1>1. /\ proc[i].pc = "release" /\ UNCHANGED <<nodeVars, faults, payout, attempts, requeues, fails, refund>>
      /\ o \in Orders /\ k \in SignedFor(o) /\ order[o] = "PAYOUT_SIGNED" /\ k = Newest(o)
      /\ k \notin Out /\ Done(i)
  BY JobOf DEF ParkAndRelease, JobType, Steps, Sending, JobInv, refundVars
<1>2. utxo' = Release(o) /\ order' = [order EXCEPT ![o] = "MANUAL_REVIEW"]
  BY <1>1 DEF ParkAndRelease, Transition
<1>3. NodeTypeOK /\ CoinInv /\ RowType /\ OrderInv(o) /\ RefundType /\ AuditType /\ AuditInv
      /\ o \in Payers /\ o \notin Refunds
  BY <1>1, InvParts, PayoutAssumption, RefundAssumption DEF Parts, Rest
<1>4. /\ payout[o].row /\ payout[o].txid = 0 /\ SpentBy(o) = {} /\ \A j \in SignedFor(o) : j \notin Out
  BY <1>1, <1>3, FitsNow DEF StateFits, OrderInv
<1>5. /\ PoolStep(o) /\ \A c \in Outputs : utxo'[c].by # {o}
      /\ Signed' = Signed /\ Out' = Out /\ UNCHANGED <<txs, node, relayed, copied, inflight>>
  BY <1>1, <1>2, <1>3, <1>4, ReleaseStep, SameTxs
<1>6. \A q : SignedFor(q)' = SignedFor(q) /\ Newest(q)' = Newest(q)
  BY <1>5, SameSigned
<1>7. RowType'
  BY <1>1, <1>2, <1>3, <1>5 DEF RowType, OrderStates
<1>8. RefundType'
  BY <1>1, <1>3, <1>5, <1>6 DEF RefundType
<1>9. ASSUME NEW q, q = o PROVE OrderInv(q)'
  <2>1. payout'[q].txid = 0 /\ payout'[q].row /\ order'[q] = "MANUAL_REVIEW"
    BY <1>1, <1>2, <1>3, <1>4, <1>9 DEF RowType
  <2>2. /\ SignedFor(q)' # {} /\ Newest(q)' \in SignedFor(q)'
        /\ \A j \in SignedFor(q)' : j <= Newest(q)' /\ (j \in Out' => j = Newest(q)')
    BY <1>1, <1>3, <1>5, <1>6, <1>9 DEF OrderInv
  <2>3. SpentBy(q)' = {} /\ \A c \in Outputs : utxo'[c].by # {q}
    BY <1>5, <1>9 DEF SpentBy
  <2>4. StateFits(q, order[q])'
    BY <2>1 DEF StateFits
  <2> QED BY <2>1, <2>2, <2>3, <2>4 DEF OrderInv
<1>10. ASSUME NEW j \in Signed', txs'[j].payer = o
       PROVE  Inputs(j)' # {} /\ j \notin Out
  BY <1>3, <1>4, <1>5, <1>10 DEF CoinInv, Inputs, SignedFor
<1>11. \A q \in Orders \ {o} : order'[q] = order[q] /\ payout'[q] = payout[q]
  BY <1>1, <1>2, <1>3 DEF RowType
<1>12. Rest'
  <2> HIDE DEF o
  <2> QED BY <1>1, <1>3, <1>5, <1>7, <1>8, <1>9, <1>10, <1>11, PoolRest
<1>13. proc' = [proc EXCEPT ![i] = Idle] /\ proc'[i] = Idle /\ Idle.pc = "idle"
  BY <1>1, InvParts, ProcAt DEF Parts, Done, Proceed, Idle
<1>14. AuditType' /\ AuditInv'
  <2>1. AuditType' /\ \A j \in Out : txs[j].payer \in Orders => attempts'[j].all > attempts'[j].refused
    BY <1>1, <1>3 DEF AuditType, AuditInv
  <2> QED BY <1>5, <1>13, <2>1, AuditAfter
<1> QED BY <1>12, <1>13, <1>14, IdleJob, Assemble

LEMMA RecordRefundKeeps ==
  ASSUME BridgeInv, OneInstance, NEW i \in Instances, RecordRefund(i)
  PROVE  BridgeInv'
<1> DEFINE r == proc[i].refund
           k == proc[i].tx
<1>1. /\ proc[i].pc = "refund_record" /\ Done(i)
      /\ UNCHANGED <<nodeVars, faults, order, payout, attempts, requeues, fails>>
      /\ r \in Refunds /\ k \in SignedFor(r) /\ k \in relayed
  BY JobOf DEF RecordRefund, JobType, RefundSteps, RefundJobInv, payoutVars
<1>2. NodeTypeOK /\ CoinInv /\ RowType /\ RefundType /\ AuditType /\ AuditInv
      /\ r \in Payers /\ r \notin Orders
  BY <1>1, InvParts, RefundAssumption DEF Parts, Rest
<1>3. /\ proc' = [proc EXCEPT ![i] = Idle] /\ proc'[i] = Idle /\ Idle.pc = "idle"
      /\ Signed' = Signed /\ Out' = Out /\ UNCHANGED <<txs, node, relayed, copied, inflight>>
  BY <1>1, InvParts, ProcAt, SameTxs DEF Parts, Done, Proceed, Idle
<1>4. AuditType' /\ AuditInv'
  <2>1. AuditType' /\ \A j \in Out : txs[j].payer \in Orders => attempts'[j].all > attempts'[j].refused
    BY <1>1, <1>2 DEF AuditType, AuditInv
  <2> QED BY <1>3, <2>1, AuditAfter
<1>5. RowType'
  BY <1>1, <1>2, <1>3 DEF RowType
<1>6. CASE refund[r].status # "signed"
  <2>1. UNCHANGED <<refund, utxo>>
    BY <1>6 DEF RecordRefund
  <2> QED BY <1>1, <1>3, <1>4, <1>5, <2>1, FitsNow, RestSame, IdleJob, Assemble
<1>7. CASE refund[r].status = "signed"
  <2>1. /\ refund' = [refund EXCEPT ![r].status = "broadcast", ![r].tx = k]
        /\ utxo' = Spend(r, {}, k)
    BY <1>7 DEF RecordRefund
  <2>2. /\ PoolStep(r)
        /\ \A c \in Outputs : utxo'[c].by = utxo[c].by
        /\ \A c \in Outputs : utxo[c].by = {r} => utxo'[c].status = "spent"
    BY <1>1, <1>2, <2>1, SpendStep
  <2>3. \A q : SignedFor(q)' = SignedFor(q)
    BY <1>3, SameSigned
  <2>4. k \in Signed /\ k \in 0 .. Len(txs)
    BY <1>1 DEF SignedFor, Signed
  <2>5. RefundType'
    BY <1>1, <1>2, <1>3, <2>1, <2>3, <2>4 DEF RefundType, RefundStatus
  <2>6. ASSUME NEW j \in Signed, txs[j].payer = r
        PROVE  \A c \in txs[j].inputs : c \in Outputs /\ utxo[c].by = {r}
    BY <1>1, <1>2, <2>6, InputsAreOutputs DEF CoinInv, Bound, Inputs
  <2>7. ASSUME NEW q, q = r PROVE RefundInv(q)'
    <3>1. refund'[q].tx = k /\ refund'[q].status = "broadcast"
      BY <1>1, <1>2, <2>1, <2>7 DEF RefundType
    <3>2. k \in SignedFor(q)' /\ k \in relayed' /\ txs'[k].inputs \subseteq SpentBy(q)'
      BY <1>1, <1>3, <2>2, <2>3, <2>4, <2>6, <2>7 DEF SpentBy, SignedFor
    <3> QED BY <3>1, <3>2 DEF RefundInv, Inputs
  <2>8. ASSUME NEW j \in Signed', txs'[j].payer = r
        PROVE  Inputs(j)' # {} /\ Bound(j)'
    <3>1. j \in Signed /\ txs[j].payer = r /\ txs'[j] = txs[j]
      BY <1>3, <2>8
    <3> QED BY <1>2, <2>2, <2>6, <3>1 DEF CoinInv, Inputs, Bound
  <2>9. \A q \in Refunds \ {r} : refund'[q] = refund[q]
    BY <1>2, <2>1 DEF RefundType
  <2>10. Rest'
    <3> HIDE DEF r
    <3> QED BY <1>1, <1>2, <1>5, <2>2, <2>5, <2>7, <2>8, <2>9, PoolRest
  <2> QED BY <1>3, <1>4, <2>10, IdleJob, Assemble
<1> QED BY <1>6, <1>7

LEMMA ParkRefusedKeeps ==
  ASSUME BridgeInv, OneInstance, NEW i \in Instances, ParkRefused(i)
  PROVE  BridgeInv'
<1> DEFINE r == proc[i].refund
<1>1. /\ proc[i].pc = "refund_park" /\ Done(i) /\ Move(r, "signed", "needs_attention")
      /\ UNCHANGED <<nodeVars, utxo, faults, order, payout, attempts, requeues, fails>> /\ r \in Refunds
  BY JobOf DEF ParkRefused, JobType, RefundSteps, payoutVars
<1>2. RefundType /\ RowType /\ UNCHANGED txs /\ \A q \in Refunds : RefundInv(q)
  BY <1>1, InvParts DEF Parts, Rest, nodeVars
<1>3. RefundType' /\ \A q \in Refunds : RefundInv(q)'
  <2>1. CASE refund[r].status = "signed"
    <3>1. refund' = [refund EXCEPT ![r].status = "needs_attention"]
      BY <1>1, <2>1 DEF Move
    <3> HIDE DEF r
    <3>2. /\ refund' \in [Refunds -> [status : RefundStatus, address : BOOLEAN,
                                     alerted : BOOLEAN, tx : 0 .. Len(txs)]]
          /\ \A q \in Refunds \ {r} : refund'[q] = refund[q]
          /\ refund'[r].tx = refund[r].tx /\ refund'[r].status = "needs_attention"
      BY <1>1, <1>2, <3>1 DEF RefundType, RefundStatus
    <3> QED BY <1>1, <3>2, RefundMoves
  <2>2. CASE refund[r].status # "signed"
    <3>1. UNCHANGED refund
      BY <1>1, <2>2 DEF Move
    <3> QED BY <1>1, <3>1, InvParts, SameNode, RefundsSame DEF Parts, Rest
  <2> QED BY <2>1, <2>2
<1>4. RowType'
  BY <1>1, <1>2 DEF RowType
<1>5. proc' = [proc EXCEPT ![i] = Idle] /\ proc'[i] = Idle /\ Idle.pc = "idle"
  BY <1>1, InvParts, ProcAt DEF Parts, Done, Proceed, Idle
<1> QED BY <1>1, <1>3, <1>4, <1>5, FitsNow, IdleJob, QuietStep

(* Signing takes coins nobody has. *)
LEMMA ReserveStep ==
  ASSUME BridgeInv, Len(txs) < MaxTxs, NEW p \in Payers, NEW S \in SUBSET Outputs, S \subseteq Available,
         SignStep(p, S), utxo' = Reserve(S, p),
         UNCHANGED <<node, relayed, copied, inflight, refusals, forgets>>
  PROVE  /\ PoolStep(p) /\ Out' = Out
         /\ \A c \in S : utxo'[c].status = "reserved" /\ utxo'[c].by = {p}
         /\ \A c \in Outputs \ S : utxo'[c] = utxo[c]
<1>1. ASSUME NEW c \in Outputs
      PROVE  \/ c \in S /\ utxo'[c] = [status |-> "reserved", by |-> {p}] /\ utxo[c].by = {}
             \/ c \notin S /\ utxo'[c] = utxo[c]
  BY CoinFacts DEF Reserve, Available
<1>2. utxo' = [c \in Outputs |-> utxo'[c]]
  BY DEF Reserve
<1>3. \A c \in Outputs : utxo'[c] \in
          [status : {"absent", "available", "reserved", "spent"}, by : SUBSET Payers]
  <2>1. {p} \in SUBSET Payers
    OBVIOUS
  <2> QED BY <1>1, <2>1, CoinFacts
<1>4. PoolType'
  BY <1>2, <1>3 DEF PoolType, Outputs, TxIds
<1>5. ASSUME NEW q \in Payers \ {p}, NEW c \in Outputs, utxo[c].by = {q} \/ utxo'[c].by = {q}
      PROVE  utxo'[c] = utxo[c]
  <2>1. {q} # {} /\ {q} # {p}
    OBVIOUS
  <2>2. CASE utxo'[c] = [status |-> "reserved", by |-> {p}] /\ utxo[c].by = {}
    BY <1>5, <2>1, <2>2
  <2>3. CASE utxo'[c] = utxo[c]
    BY <2>3
  <2> QED BY <1>1, <2>2, <2>3
<1>6. \A c \in Outputs : utxo'[c].status \in {"absent", "available"} => utxo'[c].by = {}
  BY <1>1, CoinFacts
<1>7. /\ NodeTypeOK' /\ NodeInv' /\ Out' = Out
      /\ \A k \in Signed : k \in Signed' /\ txs'[k] = txs[k]
      /\ \A k \in Signed' \ Signed : txs'[k].payer = p
  BY InvParts, SignFacts DEF Parts, Rest
<1>8. PoolStep(p)
  BY <1>4, <1>5, <1>6, <1>7 DEF PoolStep
<1>9. ASSUME NEW c \in S PROVE utxo'[c].status = "reserved" /\ utxo'[c].by = {p}
  <2>1. utxo'[c] = [status |-> "reserved", by |-> {p}]
    BY <1>1
  <2> QED BY <2>1
<1> QED BY <1>1, <1>7, <1>8, <1>9

(* A withdrawal that may be signed has no coins, so nothing of it is out.  *)
LEMMA SignableHasNothing ==
  ASSUME BridgeInv, NEW o \in Orders, NEW row, row = payout[o].row, ~RowConflict(o, row)
  PROVE  /\ payout[o].txid = 0 /\ \A c \in Outputs : utxo[c].by # {o}
         /\ \A j \in SignedFor(o) : j \notin Out
<1>1. OrderInv(o) /\ CoinInv /\ NodeTypeOK
  BY InvParts DEF Parts, Rest
<1>2. ASSUME NEW c \in Outputs, utxo[c].by = {o} PROVE row /\ c \in HeldBy(o) \cup SpentBy(o)
  <2>1. {o} # {}
    OBVIOUS
  <2> QED BY <1>1, <1>2, <2>1, CoinFacts DEF OrderInv, HeldBy, SpentBy
<1>3. \A c \in Outputs : utxo[c].by # {o}
  BY <1>2 DEF RowConflict
<1>4. payout[o].txid = 0
  <2>1. CASE row
    BY <2>1 DEF RowConflict
  <2>2. CASE ~row
    BY <1>1, <2>2 DEF OrderInv
  <2> QED BY <2>1, <2>2
<1>5. ASSUME NEW j \in SignedFor(o), j \in Out PROVE FALSE
  <2>1. j \in Signed /\ txs[j].payer = o /\ txs[j].inputs \subseteq Outputs
    BY InputsAreOutputs, <1>1 DEF SignedFor
  <2>2. PICK c \in txs[j].inputs : TRUE
    BY <1>1, <2>1 DEF CoinInv, Inputs
  <2>3. utxo[c].by = {o}
    BY <1>1, <1>5, <2>1, <2>2 DEF CoinInv, Bound, Inputs
  <2> QED BY <1>3, <2>1, <2>2, <2>3
<1> QED BY <1>3, <1>4, <1>5

LEMMA SignCommitKeeps ==
  ASSUME BridgeInv, OneInstance, NEW i \in Instances, SignCommit(i), UNCHANGED refundVars
  PROVE  BridgeInv'
<1> DEFINE o == proc[i].order
           S == proc[i].inputs
           n == Len(txs) + 1
<1>1. /\ proc[i].pc = "sign" /\ Len(txs) < MaxTxs /\ Done(i)
      /\ UNCHANGED <<node, relayed, copied, inflight, refusals, forgets, faults, attempts,
                     requeues, fails, refund>>
      /\ o \in Orders /\ order[o] = "PAYOUT_QUEUED" /\ proc[i].row = payout[o].row
      /\ S \in SUBSET Outputs /\ S # {}
  BY JobOf DEF SignCommit, JobType, Steps, JobInv, refundVars
<1>2. NodeTypeOK /\ NodeInv /\ CoinInv /\ RowType /\ OrderInv(o) /\ RefundType /\ AuditType /\ AuditInv
      /\ o \in Payers /\ o \notin Refunds /\ Out \subseteq Signed
  BY <1>1, InvParts, PayoutAssumption, RefundAssumption, SignedFacts DEF Parts, Rest
<1>3. proc' = [proc EXCEPT ![i] = Idle] /\ proc'[i] = Idle /\ Idle.pc = "idle"
  BY <1>1, InvParts, ProcAt DEF Parts, Done, Proceed, Idle
<1>4. CASE ~Signable(proc[i])
  <2>1. UNCHANGED <<txs, utxo, payout>>
    BY <1>4 DEF SignCommit
  <2>2. UNCHANGED order \/ Transition(o, "PAYOUT_QUEUED", "MANUAL_REVIEW")
    BY <1>4 DEF SignCommit
  <2>3. UNCHANGED nodeVars
    BY <1>1, <2>1 DEF nodeVars
  <2>4. CASE UNCHANGED order
    BY <1>1, <1>3, <2>1, <2>3, <2>4, IdleJob, ReadStep
  <2>5. CASE Transition(o, "PAYOUT_QUEUED", "MANUAL_REVIEW")
    BY <1>1, <2>1, <2>3, <2>5, ParkFits, MoveStep DEF OrderStates
  <2> QED BY <2>2, <2>4, <2>5
<1>5. CASE Signable(proc[i])
  <2>1. /\ SignStep(o, S) /\ utxo' = Reserve(S, o) /\ S \subseteq Available
        /\ payout' = [payout EXCEPT ![o].row = TRUE] /\ order' = [order EXCEPT ![o] = "PAYOUT_SIGNED"]
    BY <1>5 DEF SignCommit, Signable, SignStep
  <2>2. /\ payout[o].txid = 0 /\ \A c \in Outputs : utxo[c].by # {o}
        /\ \A j \in SignedFor(o) : j \notin Out
    BY <1>1, <1>5, SignableHasNothing DEF Signable
  <2>3. /\ PoolStep(o) /\ Out' = Out
        /\ \A c \in S : utxo'[c].status = "reserved" /\ utxo'[c].by = {o}
        /\ \A c \in Outputs \ S : utxo'[c] = utxo[c]
    BY <1>1, <1>2, <2>1, ReserveStep
  <2>4. /\ n \in TxIds /\ n \notin Signed /\ Signed' = Signed \cup {n}
        /\ txs'[n].payer = o /\ txs'[n].inputs = S /\ \A k \in Signed : txs'[k] = txs[k]
    BY <1>1, <1>2, <2>1, SignFacts
  <2>5. ASSUME NEW q, q = o
        PROVE  /\ SignedFor(q)' = SignedFor(q) \cup {n} /\ Newest(q)' = n
               /\ \A j \in SignedFor(q)' : j <= n
    BY <1>1, <1>2, <2>1, <2>5, SignedForAfter
  <2>6. \A q : q # o => SignedFor(q)' = SignedFor(q)
    <3> HIDE DEF o, S
    <3> QED BY <1>1, <1>2, <2>1, SignedForAfter
  <2>7. Len(txs') = Len(txs) + 1 /\ Len(txs) \in Nat
    BY <1>2, <2>1 DEF SignStep, NodeTypeOK
  <2>8. RowType'
    <3>1. 0 .. Len(txs) \subseteq 0 .. Len(txs')
      BY <2>7
    <3>2. payout' \in [Orders -> [row : BOOLEAN, txid : 0 .. Len(txs'), retried : BOOLEAN]]
      BY <1>2, <2>1, <3>1 DEF RowType
    <3> QED BY <1>1, <1>2, <2>1, <3>2 DEF RowType, OrderStates
  <2>9. RefundType'
    <3>1. refund' \in [Refunds -> [status : RefundStatus, address : BOOLEAN,
                                   alerted : BOOLEAN, tx : 0 .. Len(txs')]]
      BY <1>1, <1>2, <2>7 DEF RefundType
    <3>2. \A r \in Refunds : SignedFor(r)' = SignedFor(r)
      BY <1>2, <2>6
    <3> QED BY <1>1, <1>2, <3>1, <3>2 DEF RefundType
  <2>10. ASSUME NEW k, k = n PROVE Bound(k)' /\ Inputs(k)' = S
    BY <2>3, <2>4, <2>10 DEF Bound, Inputs
  <2>11. ASSUME NEW q, q = o PROVE OrderInv(q)'
    <3>1. payout'[q].txid = 0 /\ payout'[q].row /\ order'[q] = "PAYOUT_SIGNED"
      BY <1>1, <1>2, <2>1, <2>2, <2>11 DEF RowType
    <3>2. /\ SignedFor(q)' # {} /\ Newest(q)' \in SignedFor(q)'
          /\ \A j \in SignedFor(q)' : j <= Newest(q)' /\ (j \in Out' => j = Newest(q)')
      BY <2>2, <2>3, <2>5, <2>11
    <3>3. Bound(Newest(q))'
      BY <2>5, <2>10, <2>11 DEF Bound, Inputs
    <3>4. SpentBy(q)' = {}
      BY <2>2, <2>3, <2>11 DEF SpentBy
    <3>5. StateFits(q, order[q])'
      BY <3>1, <3>3 DEF StateFits
    <3> QED BY <3>1, <3>2, <3>3, <3>4, <3>5 DEF OrderInv
  <2>12. ASSUME NEW k \in Signed', txs'[k].payer = o
         PROVE  Inputs(k)' # {} /\ k \notin Out
    <3>1. CASE k = n
      BY <1>1, <1>2, <2>4, <2>10, <3>1
    <3>2. CASE k # n
      BY <1>2, <2>2, <2>4, <2>12, <3>2 DEF CoinInv, Inputs, SignedFor
    <3> QED BY <3>1, <3>2
  <2>13. \A q \in Orders \ {o} : order'[q] = order[q] /\ payout'[q] = payout[q]
    BY <1>2, <2>1 DEF RowType
  <2>14. Rest'
    <3> HIDE DEF o, S, n
    <3> QED BY <1>1, <1>2, <2>3, <2>8, <2>9, <2>11, <2>12, <2>13, PoolRest
  <2>15. AuditType' /\ AuditInv'
    <3>1. AuditType' /\ \A j \in Out : txs[j].payer \in Orders => attempts'[j].all > attempts'[j].refused
      BY <1>1, <1>2 DEF AuditType, AuditInv
    <3>2. \A k \in Out : txs'[k] = txs[k]
      BY <1>2, <2>4
    <3> QED BY <1>1, <1>3, <3>1, <3>2, AuditAfter
  <2> QED BY <1>3, <2>14, <2>15, IdleJob, Assemble
<1> QED BY <1>4, <1>5

LEMMA SignRefundKeeps ==
  ASSUME BridgeInv, OneInstance, NEW i \in Instances, SignRefund(i)
  PROVE  BridgeInv'
<1> DEFINE r == proc[i].refund
           S == proc[i].inputs
           n == Len(txs) + 1
<1>1. /\ proc[i].pc = "refund_sign" /\ Len(txs) < MaxTxs /\ Done(i)
      /\ UNCHANGED <<node, relayed, copied, inflight, refusals, forgets, faults, order, payout,
                     attempts, requeues, fails>>
      /\ r \in Refunds /\ S \in SUBSET Outputs /\ S # {}
  BY JobOf DEF SignRefund, JobType, RefundSteps, JobInv, payoutVars
<1>2. NodeTypeOK /\ NodeInv /\ CoinInv /\ RowType /\ RefundType /\ AuditType /\ AuditInv
      /\ r \in Payers /\ r \notin Orders /\ Out \subseteq Signed
  BY <1>1, InvParts, RefundAssumption, SignedFacts DEF Parts, Rest
<1>3. proc' = [proc EXCEPT ![i] = Idle] /\ proc'[i] = Idle /\ Idle.pc = "idle"
  BY <1>1, InvParts, ProcAt DEF Parts, Done, Proceed, Idle
<1>4. CASE ~RefundSignable(proc[i])
  <2>1. UNCHANGED <<txs, utxo, refund>>
    BY <1>4 DEF SignRefund
  <2>2. UNCHANGED nodeVars
    BY <1>1, <2>1 DEF nodeVars
  <2> QED BY <1>1, <1>3, <2>1, <2>2, IdleJob, ReadStep
<1>5. CASE RefundSignable(proc[i])
  <2>1. /\ SignStep(r, S) /\ utxo' = Reserve(S, r) /\ S \subseteq Available
        /\ refund' = [refund EXCEPT ![r].status = "signed", ![r].tx = n]
    BY <1>5 DEF SignRefund, RefundSignable, SignStep
  <2>2. /\ PoolStep(r) /\ Out' = Out
        /\ \A c \in S : utxo'[c].status = "reserved" /\ utxo'[c].by = {r}
        /\ \A c \in Outputs \ S : utxo'[c] = utxo[c]
    BY <1>1, <1>2, <2>1, ReserveStep
  <2>3. /\ n \in TxIds /\ n \notin Signed /\ Signed' = Signed \cup {n}
        /\ txs'[n].payer = r /\ txs'[n].inputs = S /\ \A k \in Signed : txs'[k] = txs[k]
    BY <1>1, <1>2, <2>1, SignFacts
  <2>4. Len(txs') = Len(txs) + 1 /\ Len(txs) \in Nat
    BY <1>2, <2>1 DEF SignStep, NodeTypeOK
  <2>5. RowType'
    BY <1>1, <1>2, <2>4 DEF RowType
  <2>6. ASSUME NEW q, q = r PROVE n \in SignedFor(q)'
    BY <2>3, <2>6 DEF SignedFor
  <2>7. \A q : q # r => SignedFor(q)' = SignedFor(q)
    <3> HIDE DEF r, S
    <3> QED BY <1>1, <1>2, <2>1, SignedForAfter
  <2>8. RefundType'
    <3>1. refund' \in [Refunds -> [status : RefundStatus, address : BOOLEAN,
                                   alerted : BOOLEAN, tx : 0 .. Len(txs')]]
      BY <1>1, <1>2, <2>1, <2>4 DEF RefundType, RefundStatus
    <3> HIDE DEF r, n
    <3>2. ASSUME NEW q \in Refunds, refund'[q].status \in {"signed", "broadcast", "confirmed"}
          PROVE  refund'[q].tx \in SignedFor(q)'
      BY <1>1, <1>2, <2>1, <2>6, <2>7, <3>2 DEF RefundType
    <3> QED BY <3>1, <3>2 DEF RefundType
  <2>9. ASSUME NEW q, q = r PROVE RefundInv(q)'
    <3>1. refund'[q].tx = n /\ refund'[q].status = "signed"
      BY <1>1, <1>2, <2>1, <2>9 DEF RefundType
    <3> QED BY <2>6, <2>9, <3>1 DEF RefundInv
  <2>10. ASSUME NEW k \in Signed', txs'[k].payer = r
         PROVE  Inputs(k)' # {} /\ Bound(k)'
    <3>1. CASE k = n
      BY <1>1, <2>2, <2>3, <3>1 DEF Inputs, Bound
    <3>2. CASE k # n
      <4>1. k \in Signed /\ txs'[k] = txs[k] /\ txs[k].payer = r /\ txs[k].inputs \subseteq Outputs
        BY <1>2, <2>3, <2>10, <3>2, InputsAreOutputs
      <4>2. Inputs(k) # {} /\ Bound(k)
        BY <1>1, <1>2, <4>1 DEF CoinInv
      <4>3. \A c \in txs[k].inputs : c \notin S /\ utxo'[c] = utxo[c]
        BY <2>1, <2>2, <4>1, <4>2 DEF Bound, Inputs, Available
      <4> QED BY <4>1, <4>2, <4>3 DEF Bound, Inputs
    <3> QED BY <3>1, <3>2
  <2>11. \A q \in Refunds \ {r} : refund'[q] = refund[q]
    BY <1>2, <2>1 DEF RefundType
  <2>12. Rest'
    <3> HIDE DEF r, S, n
    <3> QED BY <1>1, <1>2, <2>2, <2>5, <2>8, <2>9, <2>10, <2>11, PoolRest
  <2>13. AuditType' /\ AuditInv'
    <3>1. AuditType' /\ \A j \in Out : txs[j].payer \in Orders => attempts'[j].all > attempts'[j].refused
      BY <1>1, <1>2 DEF AuditType, AuditInv
    <3>2. \A k \in Out : txs'[k] = txs[k]
      BY <1>2, <2>3
    <3> QED BY <1>1, <1>3, <3>1, <3>2, AuditAfter
  <2> QED BY <1>3, <2>12, <2>13, IdleJob, Assemble
<1> QED BY <1>4, <1>5

-------------------------------------------------------------------------------
LEMMA BridgeInvInit == BridgeInit => BridgeInv
<1> SUFFICES ASSUME BridgeInit PROVE Parts
  BY InvParts
<1>1. /\ txs = << >> /\ node = [k \in TxIds |-> "unknown"] /\ relayed = {} /\ copied = {}
      /\ inflight = {} /\ refusals = 0 /\ forgets = 0
      /\ utxo = [c \in Outputs |-> [status |-> IF c \in Coins THEN "available" ELSE "absent", by |-> {}]]
      /\ proc = [i \in Instances |-> Idle] /\ faults = 0
  BY DEF BridgeInit, Init, WalletInit, NodeInit
<1>2. /\ order = [o \in Orders |-> "PAYOUT_QUEUED"]
      /\ payout = [o \in Orders |-> [row |-> FALSE, txid |-> 0, retried |-> FALSE]]
      /\ attempts = [k \in TxIds |-> [all |-> 0, refused |-> 0, recent |-> 0]]
      /\ fails = [i \in Instances |-> [o \in Orders |-> 0]] /\ requeues = 0
      /\ refund = [r \in Refunds |-> [status |-> "queued", address |-> FALSE, alerted |-> FALSE, tx |-> 0]]
  BY DEF BridgeInit, Init, PayoutInit
<1>3. txs \in Seq(Transactions) /\ Len(txs) = 0 /\ Signed = {} /\ Out = {}
  BY <1>1 DEF Signed, Out
<1>4. \A o : SignedFor(o) = {} /\ SpentBy(o) = {}
  BY <1>1, <1>3 DEF SignedFor, SpentBy
<1>5. \A c \in Outputs : utxo[c].by = {} /\ utxo[c].status \in {"absent", "available"}
  BY <1>1
<1>6. NodeTypeOK /\ NodeInv
  BY <1>1, <1>3, NodeAssumption DEF NodeTypeOK, NodeInv, Holds
<1>7. PoolType /\ CoinInv
  BY <1>1, <1>3, <1>5 DEF PoolType, CoinInv
<1>8. RowType
  <2>1. 0 \in 0 .. MaxResends - 1
    BY PayoutAssumption
  <2> QED BY <1>1, <1>2, <1>3, <2>1 DEF RowType, OrderStates
<1>9. ASSUME NEW o \in Orders PROVE OrderInv(o)
  <2>1. order[o] = "PAYOUT_QUEUED" /\ payout[o].row = FALSE /\ payout[o].txid = 0
    BY <1>2
  <2>2. \A c \in Outputs : utxo[c].by # {o}
    BY <1>5
  <2> QED BY <1>4, <2>1, <2>2, ParkFits DEF OrderInv
<1>10. RefundType /\ \A r \in Refunds : RefundInv(r)
  BY <1>2, <1>3 DEF RefundType, RefundInv, RefundStatus
<1>11. AuditType /\ AuditInv
  BY <1>1, <1>2, <1>3 DEF AuditType, AuditInv, Awaited, Idle
<1>12. DOMAIN proc = Instances /\ \A i \in Instances : JobOK(i)
  BY <1>1 DEF JobOK, JobType, JobInv, RefundJobInv, Idle, Steps, RefundSteps, Sending
<1> QED BY <1>6, <1>7, <1>8, <1>9, <1>10, <1>11, <1>12 DEF Parts, Rest

LEMMA PayoutKeeps ==
  ASSUME BridgeInv, OneInstance, Next, UNCHANGED refundVars
  PROVE  BridgeInv'
<1>1. ASSUME NEW i \in Instances, Work(i) PROVE BridgeInv'
  BY <1>1, ParkKeeps, RetrySameTxKeeps, CheckUnpaidKeeps, SelectInputsKeeps, SignCommitKeeps,
     RecordAttemptKeeps, SendKeeps, LookUpKeeps, CommitKeeps, ParkAndReleaseKeeps, ResendKeeps DEF Work
<1>2. ASSUME NEW i \in Instances, NEW o \in Orders, Begin(i, o) PROVE BridgeInv'
  BY <1>2, ReadQueuedKeeps, ReadSignedKeeps, ConfirmKeeps, FindForgottenKeeps DEF Begin
<1> QED BY <1>1, <1>2, CrashKeeps, RequeueKeeps, NetworkKeeps DEF Next

LEMMA BridgeKeeps ==
  ASSUME BridgeInv, OneInstance, [BridgeNext]_bridgeVars
  PROVE  BridgeInv'
<1>1. ASSUME NEW i \in Instances, RefundWork(i) PROVE BridgeInv'
  BY <1>1, SignRefundKeeps, SendRefundKeeps, RecordRefundKeeps, ParkRefusedKeeps DEF RefundWork
<1>2. ASSUME NEW i \in Instances, NEW r \in Refunds, BeginRefund(i, r) PROVE BridgeInv'
  BY <1>2, RefundRowKeeps, BuildRefundKeeps, ReadSignedRefundKeeps DEF BeginRefund
<1>3. ASSUME NEW r \in Refunds, RetryRefund(r) \/ ResetRefund(r) PROVE BridgeInv'
  BY <1>3, OperatorKeeps
<1>4. CASE UNCHANGED bridgeVars
  <2>1. UNCHANGED <<nodeVars, utxo, proc, payout, attempts, order, fails, requeues, faults, refund>>
    BY <1>4 DEF bridgeVars, vars, payoutVars, refundVars
  <2>2. NodeStep /\ Out' = Out /\ UNCHANGED txs /\ RowType
    BY <2>1, InvParts, SameNode DEF Parts, Rest, nodeVars
  <2>3. RowType'
    BY <2>1, <2>2 DEF RowType
  <2> QED BY <2>1, <2>2, <2>3, FitsNow, RefundsSame, OutsideStep
<1> QED BY <1>1, <1>2, <1>3, <1>4, PayoutKeeps DEF BridgeNext

(* With one backend, what is out keeps its coins and the audit tells which *)
(* transactions can be out, at every step of payouts, refunds and network. *)
THEOREM BridgeInvariant ==
  ASSUME OneInstance
  PROVE  BridgeSpec => []BridgeInv
<1>1. BridgeInit => BridgeInv
  BY BridgeInvInit
<1>2. BridgeInv /\ [BridgeNext]_bridgeVars => BridgeInv'
  BY BridgeKeeps
<1> QED BY <1>1, <1>2, PTL DEF BridgeSpec

-------------------------------------------------------------------------------
(* What it says of the network and of the rows.                            *)

LEMMA PaidIsOut ==
  ASSUME BridgeInv
  PROVE  Settled \subseteq Out
BY InvParts, SignedFacts DEF Parts, Rest, NodeInv, Settled, OnChain, Holds, Out

LEMMA AtMostOne ==
  ASSUME NEW S, NEW x, S \subseteq {x}
  PROVE  Cardinality(S) <= 1
<1>1. CASE S = {}
  BY <1>1, FS_EmptySet
<1>2. CASE S # {}
  <2>1. S = {x}
    BY <1>2
  <2> QED BY <2>1, FS_Singleton
<1> QED BY <1>1, <1>2

(* One backend never pays a withdrawal twice, whatever is refused, lost,   *)
(* copied, forgotten, re-sent or re-queued, and however often: of what was *)
(* signed for it only the newest can be out (payout-executor.ts).          *)
THEOREM PaidOnce ==
  ASSUME OneInstance
  PROVE  BridgeSpec => []PaidAtMostOnce
<1>1. ASSUME BridgeInv PROVE PaidAtMostOnce
  <2> SUFFICES ASSUME NEW o \in Orders PROVE Cardinality(Payments(o)) <= 1
    BY DEF PaidAtMostOnce
  <2>1. ASSUME NEW k \in Payments(o) PROVE k = Newest(o)
    <3>1. k \in Out /\ k \in Signed /\ txs[k].payer = o
      BY <1>1, PaidIsOut, InvParts, SignedFacts DEF Payments, Parts, Rest
    <3> QED BY <1>1, <3>1, InvParts DEF Parts, Rest, OrderInv, SignedFor
  <2> QED BY <2>1, AtMostOne
<1> QED BY <1>1, BridgeInvariant, PTL

(* The pool of one backend never offers a coin that a transaction the      *)
(* network may hold spends: inputs are released only when the audit shows  *)
(* that every send of their transaction was refused (_parkAndRelease).     *)
THEOREM FreeCoins ==
  ASSUME OneInstance
  PROVE  BridgeSpec => []FreeCoinsAreFree
<1>1. ASSUME BridgeInv PROVE FreeCoinsAreFree
  <2>1. \A k \in Out : Bound(k)
    BY <1>1, InvParts DEF Parts, Rest, CoinInv
  <2> QED BY <2>1 DEF FreeCoinsAreFree, Out, Bound, Available
<1> QED BY <1>1, BridgeInvariant, PTL

(* With one backend a withdrawal's row agrees with the chain and the pool. *)
THEOREM OrderAgrees ==
  ASSUME OneInstance
  PROVE  BridgeSpec => []OrderAgreesWithChain
<1>1. ASSUME BridgeInv PROVE OrderAgreesWithChain
  <2>1. \A o \in Orders : OrderInv(o)
    BY <1>1, InvParts DEF Parts, Rest
  <2> QED BY <2>1 DEF OrderAgreesWithChain, OrderInv, StateFits
<1> QED BY <1>1, BridgeInvariant, PTL

(* Payouts and refunds of one backend never spend one coin, not even when  *)
(* the answers to their sends are lost (payout-executor.ts:147).           *)
THEOREM CoinsServeOne ==
  ASSUME OneInstance
  PROVE  BridgeSpec => []NoCoinForTwo
<1>1. ASSUME BridgeInv PROVE NoCoinForTwo
  <2>1. \A k \in Out : Bound(k)
    BY <1>1, InvParts DEF Parts, Rest, CoinInv
  <2>2. ASSUME NEW j \in Out, NEW k \in Out, NEW c \in Inputs(j) \cap Inputs(k)
        PROVE  txs[j].payer = txs[k].payer
    <3>1. {txs[j].payer} = {txs[k].payer}
      BY <2>1, <2>2 DEF Bound
    <3> QED BY <3>1
  <2> QED BY <2>2 DEF NoCoinForTwo, Out
<1> QED BY <1>1, BridgeInvariant, PTL

(* With one backend a refund's row agrees with the chain and the pool.     *)
THEOREM RefundAgrees ==
  ASSUME OneInstance
  PROVE  BridgeSpec => []RefundAgreesWithChain
<1>1. ASSUME BridgeInv PROVE RefundAgreesWithChain
  BY <1>1, InvParts DEF Parts, Rest, RefundInv, RefundAgreesWithChain
<1> QED BY <1>1, BridgeInvariant, PTL

-------------------------------------------------------------------------------
(* A refund is signed once, with any number of instances.                  *)

JobOnce(p) ==
  /\ p.pc \in {"queued", "select", "sign"} => p.order \in Orders
  /\ p.pc \in RefundSteps => p.refund \in Refunds
  /\ p.pc \in {"refund_send", "refund_record"} => p.tx \in SignedFor(p.refund)

LEMMA OnceJobStep ==
  ASSUME RefundOnceInv, NEW i \in Instances, NEW p, JobOnce(p), proc' = [proc EXCEPT ![i] = p],
         UNCHANGED <<txs, copied, refund>>
  PROVE  RefundOnceInv'
<1>1. Signed' = Signed /\ \A r : SignedFor(r)' = SignedFor(r)
  BY SameSigned
<1>2. DOMAIN proc' = Instances /\ proc'[i] = p /\ \A j \in Instances \ {i} : proc'[j] = proc[j]
  BY DEF RefundOnceInv
<1>3. ASSUME NEW j \in Instances PROVE RefundJobOnce(j)'
  <2>1. CASE j = i
    BY <1>1, <1>2, <2>1 DEF JobOnce, RefundJobOnce
  <2>2. CASE j # i
    <3>1. RefundJobOnce(j) /\ proc'[j] = proc[j]
      BY <1>2, <2>2 DEF RefundOnceInv
    <3> QED BY <1>1, <3>1 DEF RefundJobOnce
  <2> QED BY <2>1, <2>2
<1>4. \A r \in Refunds : RefundRowOnce(r)'
  BY <1>1 DEF RefundOnceInv, RefundRowOnce
<1> QED BY <1>1, <1>2, <1>3, <1>4 DEF RefundOnceInv

LEMMA OnceIdle ==
  ASSUME RefundOnceInv, NEW i \in Instances, Done(i), UNCHANGED <<txs, copied, refund>>
  PROVE  RefundOnceInv'
<1>1. JobOnce(Idle)
  BY DEF JobOnce, Idle, RefundSteps
<1> QED BY <1>1, OnceJobStep DEF Done, Proceed

(* One more transaction for q. *)
LEMMA OnceSigned ==
  ASSUME RefundOnceInv, NEW q \in Payers, NEW S \in SUBSET Outputs, SignStep(q, S)
  PROVE  LET n == Len(txs) + 1
         IN  /\ txs' \in Seq(Transactions) /\ n \in Nat \ {0}
             /\ Signed \subseteq Signed'
             /\ SignedFor(q)' = SignedFor(q) \cup {n}
             /\ \A r : r # q => SignedFor(r)' = SignedFor(r)
<1>1. Len(txs) \in Nat /\ txs \in Seq(Transactions)
  BY DEF RefundOnceInv
<1>2. PICK change \in BOOLEAN : txs' = Append(txs, [payer |-> q, inputs |-> S, change |-> change])
  BY DEF SignStep
<1> DEFINE t == [payer |-> q, inputs |-> S, change |-> change]
<1>3. t \in Transactions
  BY DEF Transactions
<1>4. /\ txs' \in Seq(Transactions) /\ Len(txs') = Len(txs) + 1
      /\ txs'[Len(txs) + 1] = t /\ \A k \in 1 .. Len(txs) : txs'[k] = txs[k]
  <2> HIDE DEF t
  <2> QED BY <1>1, <1>2, <1>3 DEF t
<1>5. Signed' = Signed \cup {Len(txs) + 1} /\ Len(txs) + 1 \notin Signed
  BY <1>1, <1>4 DEF Signed
<1>6. txs'[Len(txs) + 1].payer = q
  BY <1>4
<1> QED BY <1>1, <1>4, <1>5, <1>6 DEF SignedFor, Signed

LEMMA OtherJobs ==
  ASSUME NEW p, p.pc \in {"idle"} \cup Sending \cup {"complete"}
  PROVE  JobOnce(p)
BY DEF JobOnce, Sending, RefundSteps

LEMMA OnceOther ==
  ASSUME RefundOnceInv, NEW i \in Instances, NEW p, Proceed(i, p),
         p.pc \in {"idle"} \cup Sending \cup {"complete"}, UNCHANGED <<txs, copied, refund>>
  PROVE  RefundOnceInv'
BY OtherJobs, OnceJobStep DEF Proceed

LEMMA OnceWork ==
  ASSUME RefundOnceInv, NEW i \in Instances, Work(i) \/ Crash(i), UNCHANGED refundVars
  PROVE  RefundOnceInv'
<1>1. RefundJobOnce(i) /\ UNCHANGED refund
  BY DEF RefundOnceInv, refundVars
<1>2. CASE ParkUnpayable(i) \/ RetrySameTx(i) \/ Commit(i)
          \/ ParkAndRelease(i) \/ ParkHeld(i) \/ Complete(i) \/ Crash(i)
  BY <1>1, <1>2, OnceIdle
     DEF ParkUnpayable, RetrySameTx, Commit, ParkAndRelease, ParkHeld, Complete, Crash, nodeVars
<1>3. CASE Resend(i)
  <2>1. Done(i) /\ UNCHANGED <<txs, copied>>
    BY <1>3 DEF Resend, Answer, AnswerLost
  <2> QED BY <1>1, <2>1, OnceIdle
<1>4. CASE CheckUnpaid(i)
  <2> DEFINE p == [pc |-> "select", order |-> proc[i].order, row |-> proc[i].row]
  <2>1. UNCHANGED <<txs, copied>> /\ (Done(i) \/ proc' = [proc EXCEPT ![i] = p])
    BY <1>4 DEF CheckUnpaid, nodeVars, Proceed
  <2>2. JobOnce(p)
    BY <1>1, <1>4 DEF CheckUnpaid, RefundJobOnce, JobOnce, RefundSteps
  <2> HIDE DEF p
  <2> QED BY <1>1, <2>1, <2>2, OnceIdle, OnceJobStep
<1>5. CASE SelectInputs(i)
  <2>1. UNCHANGED <<txs, copied>> /\ proc[i].order \in Orders
    BY <1>1, <1>5 DEF SelectInputs, nodeVars, RefundJobOnce
  <2>2. ASSUME NEW S, Proceed(i, [pc |-> "sign", order |-> proc[i].order, row |-> proc[i].row, inputs |-> S])
        PROVE  RefundOnceInv'
    <3> DEFINE p == [pc |-> "sign", order |-> proc[i].order, row |-> proc[i].row, inputs |-> S]
    <3>1. JobOnce(p) /\ proc' = [proc EXCEPT ![i] = p]
      BY <2>1, <2>2 DEF JobOnce, RefundSteps, Proceed
    <3> HIDE DEF p
    <3> QED BY <1>1, <2>1, <3>1, OnceJobStep
  <2> QED BY <1>1, <1>5, <2>1, <2>2, OnceIdle DEF SelectInputs
<1>6. CASE RecordAttempt(i)
  <2>1. PICK p : Proceed(i, p) /\ p.pc = "send"
    <3> DEFINE p == [pc |-> "send", order |-> proc[i].order, tx |-> proc[i].tx,
                     maybeOut |-> attempts[proc[i].tx].all # attempts[proc[i].tx].refused,
                     sinceRetry |-> attempts[proc[i].tx].recent,
                     retried |-> payout[proc[i].order].retried]
    <3>1. Proceed(i, p) /\ p.pc = "send"
      BY <1>6 DEF RecordAttempt
    <3> HIDE DEF p
    <3> QED BY <3>1
  <2> QED BY <1>1, <1>6, <2>1, OnceOther DEF RecordAttempt, nodeVars, Sending
<1>7. CASE Send(i)
  <2>1. UNCHANGED <<txs, copied>>
    BY <1>7 DEF Send, Answer, AnswerLost
  <2>2. Recording(proc[i]).pc = "record" /\ \A error : Failed(proc[i], error).pc = "lookup"
    BY DEF Recording, Failed
  <2>3. Proceed(i, Recording(proc[i])) \/ \E error : Proceed(i, Failed(proc[i], error))
    BY <1>7 DEF Send
  <2> QED BY <1>1, <2>1, <2>2, <2>3, OnceOther DEF Sending
<1>8. CASE LookUp(i)
  <2> DEFINE release == [pc |-> "release", order |-> proc[i].order, tx |-> proc[i].tx]
             park == [pc |-> "park", order |-> proc[i].order, tx |-> proc[i].tx]
  <2>1. Recording(proc[i]).pc = "record" /\ release.pc = "release" /\ park.pc = "park" /\ Idle.pc = "idle"
    BY DEF Recording, Idle
  <2>2. \/ Proceed(i, Recording(proc[i])) \/ Proceed(i, release) \/ Proceed(i, park) \/ Proceed(i, Idle)
    BY <1>8 DEF LookUp
  <2> HIDE DEF release, park
  <2>3. UNCHANGED <<txs, copied>>
    BY <1>8 DEF LookUp, nodeVars
  <2> QED BY <1>1, <2>1, <2>2, <2>3, OnceOther DEF Sending
<1>9. CASE SignCommit(i)
  <2>1. Done(i) /\ UNCHANGED copied /\ proc[i].order \in Orders
    BY <1>1, <1>9 DEF SignCommit, RefundJobOnce
  <2>2. CASE ~Signable(proc[i])
    BY <1>1, <1>9, <2>1, <2>2, OnceIdle DEF SignCommit
  <2>3. CASE Signable(proc[i])
    <3>1. PICK q \in Orders, S \in SUBSET Outputs : SignStep(q, S)
      <4>1. SignStep(proc[i].order, proc[i].inputs) /\ proc[i].inputs \in SUBSET Outputs
        BY <1>9, <2>3 DEF SignCommit, Signable, SignStep, Available
      <4> QED BY <2>1, <4>1
    <3>2. /\ txs' \in Seq(Transactions) /\ Signed \subseteq Signed'
          /\ \A r : r # q => SignedFor(r)' = SignedFor(r)
      BY <3>1, OnceSigned, PayoutAssumption
    <3>3. \A r \in Refunds : SignedFor(r)' = SignedFor(r)
      BY <3>2, RefundAssumption
    <3>4. ASSUME NEW j \in Instances PROVE RefundJobOnce(j)'
      <4>1. CASE j = i
        BY <2>1, <4>1 DEF Done, Proceed, Idle, RefundOnceInv, RefundJobOnce, RefundSteps
      <4>2. CASE j # i
        <5>1. RefundJobOnce(j) /\ proc'[j] = proc[j]
          BY <2>1, <4>2 DEF Done, Proceed, RefundOnceInv
        <5>2. proc[j].pc \in {"refund_send", "refund_record"} =>
                proc[j].refund \in Refunds /\ SignedFor(proc[j].refund)' = SignedFor(proc[j].refund)
          BY <3>3, <5>1 DEF RefundJobOnce, RefundSteps
        <5> QED BY <5>1, <5>2 DEF RefundJobOnce
      <4> QED BY <4>1, <4>2
    <3>5. \A r \in Refunds : RefundRowOnce(r)'
      BY <1>1, <3>3 DEF RefundOnceInv, RefundRowOnce
    <3> QED BY <1>1, <2>1, <3>2, <3>4, <3>5 DEF RefundOnceInv, Done, Proceed
  <2> QED BY <2>2, <2>3
<1> QED BY <1>2, <1>3, <1>4, <1>5, <1>6, <1>7, <1>8, <1>9 DEF Work

LEMMA OnceBegin ==
  ASSUME RefundOnceInv, NEW i \in Instances, NEW o \in Orders, Begin(i, o), UNCHANGED refundVars
  PROVE  RefundOnceInv'
<1>1. UNCHANGED <<txs, copied, refund>>
  BY DEF Begin, ReadQueued, ReadSigned, Confirm, FindForgotten, nodeVars, refundVars
<1>2. CASE ReadQueued(i, o)
  <2> DEFINE p == [pc |-> "queued", order |-> o, row |-> payout[o].row, held |-> HeldBy(o) # {},
                   out |-> payout[o].txid # 0 \/ SpentBy(o) # {}]
  <2>1. JobOnce(p) /\ proc' = [proc EXCEPT ![i] = p]
    BY <1>2 DEF ReadQueued, Proceed, JobOnce, RefundSteps
  <2> HIDE DEF p
  <2> QED BY <1>1, <2>1, OnceJobStep
<1>3. CASE ReadSigned(i, o) \/ Confirm(i, o) \/ FindForgotten(i, o)
  <2> DEFINE attempt == [pc |-> "attempt", order |-> o, tx |-> Newest(o)]
             complete == [pc |-> "complete", order |-> o]
             resend == [pc |-> "resend", order |-> o, tx |-> payout[o].txid]
  <2>1. attempt.pc = "attempt" /\ complete.pc = "complete" /\ resend.pc = "resend"
    OBVIOUS
  <2>2. Proceed(i, attempt) \/ Proceed(i, complete) \/ Proceed(i, resend)
    BY <1>3 DEF ReadSigned, Confirm, FindForgotten
  <2> HIDE DEF attempt, complete, resend
  <2> QED BY <1>1, <2>1, <2>2, OnceOther DEF Sending
<1> QED BY <1>2, <1>3 DEF Begin

(* Rows move, and jobs at most end. *)
LEMMA OnceRowStep ==
  ASSUME RefundOnceInv, UNCHANGED <<txs, copied>>,
         DOMAIN proc' = Instances, \A j \in Instances : proc'[j] = proc[j] \/ proc'[j] = Idle,
         NEW r \in Refunds, NEW row, refund' = [refund EXCEPT ![r] = row],
         row \in [status : RefundStatus, address : BOOLEAN, alerted : BOOLEAN, tx : Nat],
         row.tx = refund[r].tx, row.status = "queued" => refund[r].tx = 0,
         row.status \in {"signed", "broadcast", "confirmed"} => refund[r].tx # 0
  PROVE  RefundOnceInv'
<1>1. Signed' = Signed /\ \A q : SignedFor(q)' = SignedFor(q)
  BY SameSigned
<1>2. ASSUME NEW j \in Instances PROVE RefundJobOnce(j)'
  <2>1. RefundJobOnce(j)
    BY DEF RefundOnceInv
  <2>2. CASE proc'[j] = proc[j]
    BY <1>1, <2>1, <2>2 DEF RefundJobOnce
  <2>3. CASE proc'[j] = Idle
    BY <2>3 DEF RefundJobOnce, Idle, RefundSteps
  <2> QED BY <2>2, <2>3
<1>3. ASSUME NEW q \in Refunds PROVE RefundRowOnce(q)'
  <2>1. RefundRowOnce(q) /\ refund'[q] = IF q = r THEN row ELSE refund[q]
    BY DEF RefundOnceInv
  <2>2. CASE q = r
    BY <1>1, <2>1, <2>2 DEF RefundRowOnce
  <2>3. CASE q # r
    BY <1>1, <2>1, <2>3 DEF RefundRowOnce
  <2> QED BY <2>2, <2>3
<1> QED BY <1>1, <1>2, <1>3 DEF RefundOnceInv

(* A row goes to another status, or stays. *)
LEMMA OnceMove ==
  ASSUME RefundOnceInv, UNCHANGED <<txs, copied>>,
         DOMAIN proc' = Instances, \A j \in Instances : proc'[j] = proc[j] \/ proc'[j] = Idle,
         NEW r \in Refunds, NEW from, NEW to \in {"needs_attention", "too_small", "confirmed"},
         Move(r, from, to), to = "confirmed" => from = "broadcast"
  PROVE  RefundOnceInv'
<1>1. /\ refund \in [Refunds -> [status : RefundStatus, address : BOOLEAN, alerted : BOOLEAN, tx : Nat]]
      /\ RefundRowOnce(r)
  BY DEF RefundOnceInv
<1>2. CASE refund[r].status = from
  <2>1. refund' = [refund EXCEPT ![r] = [refund[r] EXCEPT !.status = to]]
    BY <1>2 DEF Move
  <2>2. [refund[r] EXCEPT !.status = to]
        \in [status : RefundStatus, address : BOOLEAN, alerted : BOOLEAN, tx : Nat]
    BY <1>1 DEF RefundStatus
  <2> QED BY <1>1, <1>2, <2>1, <2>2, OnceRowStep DEF RefundRowOnce
<1>3. CASE refund[r].status # from
  <2>1. refund' = refund /\ refund = [refund EXCEPT ![r] = refund[r]]
    BY <1>1, <1>3 DEF Move
  <2> QED BY <1>1, <2>1, OnceRowStep DEF RefundRowOnce
<1> QED BY <1>2, <1>3

LEMMA OnceRows ==
  ASSUME RefundOnceInv, NEW i \in Instances, NEW r \in Refunds,
         \/ ResolveSender(i, r) \/ AnnounceSplit(i, r) \/ ParkUnbuilt(i, r) \/ ConfirmRefund(i, r)
  PROVE  RefundOnceInv'
<1>1. /\ refund \in [Refunds -> [status : RefundStatus, address : BOOLEAN, alerted : BOOLEAN, tx : Nat]]
      /\ RefundRowOnce(r) /\ DOMAIN proc = Instances
  BY DEF RefundOnceInv
<1>2. UNCHANGED <<txs, copied, proc>>
  BY DEF ResolveSender, AnnounceSplit, ParkUnbuilt, ConfirmRefund, vars, nodeVars
<1>3. CASE refund' = [refund EXCEPT ![r].address = TRUE]
  <2>1. [refund[r] EXCEPT !.address = TRUE]
        \in [status : RefundStatus, address : BOOLEAN, alerted : BOOLEAN, tx : Nat]
    BY <1>1
  <2> QED BY <1>1, <1>2, <1>3, <2>1, OnceRowStep DEF RefundRowOnce
<1>4. CASE refund' = [refund EXCEPT ![r].alerted = TRUE]
  <2>1. [refund[r] EXCEPT !.alerted = TRUE]
        \in [status : RefundStatus, address : BOOLEAN, alerted : BOOLEAN, tx : Nat]
    BY <1>1
  <2> QED BY <1>1, <1>2, <1>4, <2>1, OnceRowStep DEF RefundRowOnce
<1>5. ASSUME NEW from, NEW to \in {"needs_attention", "too_small", "confirmed"}, Move(r, from, to),
             to = "confirmed" => from = "broadcast"
      PROVE  RefundOnceInv'
  BY <1>1, <1>2, <1>5, OnceMove
<1> QED BY <1>3, <1>4, <1>5 DEF ResolveSender, AnnounceSplit, ParkUnbuilt, ConfirmRefund

(* What an operator may do short of a reset. *)
LEMMA OnceRetry ==
  ASSUME RefundOnceInv, NEW r \in Refunds, RetryRefund(r)
  PROVE  RefundOnceInv'
<1>1. /\ refund \in [Refunds -> [status : RefundStatus, address : BOOLEAN, alerted : BOOLEAN, tx : Nat]]
      /\ RefundRowOnce(r) /\ DOMAIN proc = Instances
  BY DEF RefundOnceInv
<1> DEFINE to == IF refund[r].tx # 0 THEN "signed" ELSE "queued"
           row == [refund[r] EXCEPT !.status = to, !.address = TRUE]
<1>2. refund' = [refund EXCEPT ![r] = row] /\ UNCHANGED <<txs, copied, proc>>
  BY <1>1 DEF RetryRefund, vars, nodeVars
<1>3. row \in [status : RefundStatus, address : BOOLEAN, alerted : BOOLEAN, tx : Nat]
  BY <1>1 DEF RefundStatus
<1>4. row.tx = refund[r].tx /\ row.status = to
  BY <1>1
<1> HIDE DEF row
<1> QED BY <1>1, <1>2, <1>3, <1>4, OnceRowStep

LEMMA OnceRead ==
  ASSUME RefundOnceInv, NEW i \in Instances, NEW r \in Refunds,
         BuildRefund(i, r) \/ ReadSignedRefund(i, r)
  PROVE  RefundOnceInv'
<1>1. UNCHANGED <<txs, copied, refund>>
  BY DEF BuildRefund, ReadSignedRefund, nodeVars, refundVars
<1>2. ASSUME BuildRefund(i, r) PROVE RefundOnceInv'
  <2>1. PICK S : Proceed(i, [pc |-> "refund_sign", refund |-> r, inputs |-> S])
    BY <1>2 DEF BuildRefund
  <2> DEFINE p == [pc |-> "refund_sign", refund |-> r, inputs |-> S]
  <2>2. JobOnce(p) /\ proc' = [proc EXCEPT ![i] = p]
    BY <2>1 DEF JobOnce, Proceed
  <2> HIDE DEF p
  <2> QED BY <1>1, <2>2, OnceJobStep
<1>3. CASE ReadSignedRefund(i, r)
  <2> DEFINE p == [pc |-> "refund_send", refund |-> r, tx |-> refund[r].tx]
  <2>1. refund[r].tx \in SignedFor(r)
    BY <1>3 DEF ReadSignedRefund, RefundOnceInv, RefundRowOnce
  <2>2. JobOnce(p) /\ proc' = [proc EXCEPT ![i] = p]
    BY <1>3, <2>1 DEF ReadSignedRefund, JobOnce, Proceed
  <2> HIDE DEF p
  <2> QED BY <1>1, <2>2, OnceJobStep
<1> QED BY <1>2, <1>3

LEMMA OnceSend ==
  ASSUME RefundOnceInv, NEW i \in Instances, SendRefund(i)
  PROVE  RefundOnceInv'
<1>1. UNCHANGED <<txs, copied, refund>> /\ proc[i].pc = "refund_send" /\ RefundJobOnce(i)
  BY DEF SendRefund, Answer, AnswerLost, refundVars, RefundOnceInv
<1>2. ASSUME NEW pc \in {"refund_record", "refund_park"}, Proceed(i, [proc[i] EXCEPT !.pc = pc])
      PROVE  RefundOnceInv'
  <2> DEFINE p == [proc[i] EXCEPT !.pc = pc]
  <2>1. proc[i].refund \in Refunds /\ proc[i].tx \in SignedFor(proc[i].refund)
    BY <1>1 DEF RefundJobOnce, RefundSteps
  <2>2. p.pc = pc /\ p.refund = proc[i].refund /\ p.tx = proc[i].tx
    OBVIOUS
  <2>3. proc' = [proc EXCEPT ![i] = p]
    BY <1>2 DEF Proceed
  <2> HIDE DEF p
  <2>4. JobOnce(p)
    BY <2>1, <2>2 DEF JobOnce, RefundSteps
  <2> QED BY <1>1, <2>3, <2>4, OnceJobStep
<1> QED BY <1>1, <1>2, OnceIdle DEF SendRefund

LEMMA OnceEnd ==
  ASSUME RefundOnceInv, NEW i \in Instances, RecordRefund(i) \/ ParkRefused(i)
  PROVE  RefundOnceInv'
<1> DEFINE r == proc[i].refund
<1>1. UNCHANGED <<txs, copied>> /\ Done(i) /\ DOMAIN proc = Instances
  BY DEF RecordRefund, ParkRefused, nodeVars, RefundOnceInv
<1>2. DOMAIN proc' = Instances /\ \A j \in Instances : proc'[j] = proc[j] \/ proc'[j] = Idle
  BY <1>1 DEF Done, Proceed
<1>3. r \in Refunds /\ (proc[i].pc = "refund_record" => proc[i].tx \in SignedFor(r))
  <2>1. RefundJobOnce(i) /\ proc[i].pc \in {"refund_record", "refund_park"}
    BY DEF RecordRefund, ParkRefused, RefundOnceInv
  <2> QED BY <2>1 DEF RefundJobOnce, RefundSteps
<1>4. /\ refund \in [Refunds -> [status : RefundStatus, address : BOOLEAN, alerted : BOOLEAN, tx : Nat]]
      /\ RefundRowOnce(r)
  BY <1>3 DEF RefundOnceInv
<1>5. CASE RecordRefund(i)
  <2>1. proc[i].tx = refund[r].tx /\ refund[r].tx # 0
    BY <1>3, <1>4, <1>5 DEF RecordRefund, RefundRowOnce, SignedFor, Signed
  <2>2. CASE refund[r].status = "signed"
    <3> DEFINE row == [refund[r] EXCEPT !.status = "broadcast", !.tx = proc[i].tx]
    <3>1. refund' = [refund EXCEPT ![r] = row]
      BY <1>4, <1>5, <2>2 DEF RecordRefund
    <3>2. row \in [status : RefundStatus, address : BOOLEAN, alerted : BOOLEAN, tx : Nat]
      BY <1>3, <1>4, <2>1 DEF RefundStatus
    <3>3. row.tx = refund[r].tx /\ row.status = "broadcast"
      BY <1>3, <1>4, <2>1
    <3> HIDE DEF row
    <3> QED BY <1>1, <1>2, <1>3, <2>1, <3>1, <3>2, <3>3, OnceRowStep
  <2>3. CASE refund[r].status # "signed"
    BY <1>1, <1>5, <2>3, OnceIdle DEF RecordRefund
  <2> QED BY <2>2, <2>3
<1>6. CASE ParkRefused(i)
  <2>1. Move(r, "signed", "needs_attention")
    BY <1>6 DEF ParkRefused
  <2> QED BY <1>1, <1>2, <1>3, <2>1, OnceMove
<1> QED BY <1>5, <1>6

(* A refund is signed only where nothing was signed for it. *)
LEMMA SignedFirst ==
  ASSUME RefundOnceInv, NEW i \in Instances, proc[i].pc = "refund_sign", RefundSignable(proc[i])
  PROVE  proc[i].refund \in Refunds /\ SignedFor(proc[i].refund) = {}
<1>1. proc[i].refund \in Refunds
  BY DEF RefundOnceInv, RefundJobOnce, RefundSteps
<1>2. SignedFor(proc[i].refund) \subseteq {0}
  BY <1>1 DEF RefundSignable, RefundOnceInv, RefundRowOnce
<1>3. 0 \notin Signed
  BY DEF Signed
<1> QED BY <1>1, <1>2, <1>3 DEF SignedFor

LEMMA OnceSign ==
  ASSUME RefundOnceInv, NEW i \in Instances, SignRefund(i)
  PROVE  RefundOnceInv'
<1>1. Done(i) /\ UNCHANGED copied /\ proc[i].pc = "refund_sign"
  BY DEF SignRefund
<1>2. CASE ~RefundSignable(proc[i])
  BY <1>1, <1>2, OnceIdle DEF SignRefund
<1>3. CASE RefundSignable(proc[i])
  <2>1. PICK q \in Refunds, S \in SUBSET Outputs : q = proc[i].refund /\ S = proc[i].inputs /\ SignStep(q, S)
    BY <1>1, <1>3, SignedFirst DEF SignRefund, RefundSignable, SignStep, Available
  <2> DEFINE n == Len(txs) + 1
             row == [refund[q] EXCEPT !.status = "signed", !.tx = n]
  <2>2. /\ txs' \in Seq(Transactions) /\ n \in Nat \ {0} /\ Signed \subseteq Signed'
        /\ SignedFor(q)' = SignedFor(q) \cup {n}
        /\ \A r : r # q => SignedFor(r)' = SignedFor(r)
    BY <2>1, OnceSigned, RefundAssumption
  <2>3. /\ refund \in [Refunds -> [status : RefundStatus, address : BOOLEAN, alerted : BOOLEAN, tx : Nat]]
        /\ \A r \in Refunds : RefundRowOnce(r)
    BY DEF RefundOnceInv
  <2>4. refund' = [refund EXCEPT ![q] = row]
    BY <1>3, <2>1, <2>3 DEF SignRefund
  <2>5. /\ row \in [status : RefundStatus, address : BOOLEAN, alerted : BOOLEAN, tx : Nat]
        /\ row.status = "signed" /\ row.tx = n
    BY <2>1, <2>2, <2>3 DEF RefundStatus
  <2> HIDE DEF row, n
  <2>6. SignedFor(q) = {}
    BY <1>1, <1>3, <2>1, SignedFirst
  <2>7. ASSUME NEW r \in Refunds PROVE RefundRowOnce(r)'
    <3>1. CASE r = q
      BY <2>2, <2>3, <2>4, <2>5, <2>6, <3>1 DEF RefundRowOnce
    <3>2. CASE r # q
      BY <2>2, <2>3, <2>4, <3>2 DEF RefundRowOnce
    <3> QED BY <3>1, <3>2
  <2>8. ASSUME NEW j \in Instances PROVE RefundJobOnce(j)'
    <3>1. CASE j = i
      BY <1>1, <3>1 DEF Done, Proceed, Idle, RefundOnceInv, RefundJobOnce, RefundSteps
    <3>2. CASE j # i
      <4>1. RefundJobOnce(j) /\ proc'[j] = proc[j]
        BY <1>1, <3>2 DEF Done, Proceed, RefundOnceInv
      <4>2. \A r : SignedFor(r) \subseteq SignedFor(r)'
        BY <2>2
      <4> QED BY <4>1, <4>2 DEF RefundJobOnce
    <3> QED BY <3>1, <3>2
  <2>9. /\ refund' \in [Refunds -> [status : RefundStatus, address : BOOLEAN, alerted : BOOLEAN, tx : Nat]]
        /\ DOMAIN proc' = Instances /\ copied' \subseteq Signed'
    BY <1>1, <2>2, <2>3, <2>4, <2>5 DEF RefundOnceInv, Done, Proceed
  <2> QED BY <2>2, <2>7, <2>8, <2>9 DEF RefundOnceInv
<1> QED BY <1>2, <1>3

LEMMA OnceOutside ==
  ASSUME RefundOnceInv, UNCHANGED <<txs, proc, refund>>, copied' \subseteq Signed
  PROVE  RefundOnceInv'
<1>1. Signed' = Signed /\ \A q : SignedFor(q)' = SignedFor(q)
  BY SameSigned
<1>2. \A j \in Instances : RefundJobOnce(j)'
  BY <1>1 DEF RefundOnceInv, RefundJobOnce
<1>3. \A r \in Refunds : RefundRowOnce(r)'
  BY <1>1 DEF RefundOnceInv, RefundRowOnce
<1> QED BY <1>1, <1>2, <1>3 DEF RefundOnceInv

LEMMA OncePayouts ==
  ASSUME RefundOnceInv, Next, UNCHANGED refundVars
  PROVE  RefundOnceInv'
<1>1. CASE Network
  <2>1. UNCHANGED <<txs, proc, refund>> /\ copied' \subseteq copied \cup Signed
    BY <1>1 DEF Network, NodeNext, Deliver, Mine, Bury, Forget, Copy, refundVars
  <2> QED BY <2>1, OnceOutside DEF RefundOnceInv
<1>2. ASSUME NEW o \in Orders, Requeue(o) PROVE RefundOnceInv'
  BY <1>2, OnceOutside DEF Requeue, nodeVars, refundVars, RefundOnceInv
<1> QED BY <1>1, <1>2, OnceWork, OnceBegin DEF Next

(* No refund is set back, and the count of those that were stays at 0.     *)
LEMMA OnceKeeps ==
  ASSUME MaxResets = 0, RefundOnceInv /\ resets \in Nat, [BridgeNext]_bridgeVars
  PROVE  (RefundOnceInv /\ resets \in Nat)'
<1>1. RefundOnceInv'
  <2>1. CASE UNCHANGED bridgeVars
    BY <2>1, OnceOutside DEF bridgeVars, vars, nodeVars, refundVars, RefundOnceInv
  <2>2. ASSUME NEW r \in Refunds PROVE ~ResetRefund(r)
    BY DEF ResetRefund
  <2>3. ASSUME NEW i \in Instances, RefundWork(i) PROVE RefundOnceInv'
    BY <2>3, OnceSign, OnceSend, OnceEnd DEF RefundWork
  <2>4. ASSUME NEW i \in Instances, NEW r \in Refunds, BeginRefund(i, r) PROVE RefundOnceInv'
    BY <2>4, OnceRows, OnceRead DEF BeginRefund
  <2> QED BY <2>1, <2>2, <2>3, <2>4, OncePayouts, OnceRetry DEF BridgeNext
<1>2. resets' \in {resets, resets + 1}
  <2>1. CASE UNCHANGED bridgeVars \/ UNCHANGED refundVars
    BY <2>1 DEF bridgeVars, refundVars
  <2>2. ASSUME NEW i \in Instances, RefundWork(i) PROVE resets' = resets
    BY <2>2 DEF RefundWork, SignRefund, SendRefund, RecordRefund, ParkRefused, refundVars
  <2>3. ASSUME NEW i \in Instances, NEW r \in Refunds, BeginRefund(i, r) PROVE resets' = resets
    BY <2>3 DEF BeginRefund, ResolveSender, AnnounceSplit, BuildRefund, ParkUnbuilt,
                ReadSignedRefund, ConfirmRefund, refundVars
  <2>4. ASSUME NEW r \in Refunds, RetryRefund(r) \/ ResetRefund(r) PROVE resets' \in {resets, resets + 1}
    BY <2>4 DEF RetryRefund, ResetRefund
  <2> QED BY <2>1, <2>2, <2>3, <2>4 DEF BridgeNext
<1> QED BY <1>1, <1>2

LEMMA OnceInit == BridgeInit => RefundOnceInv /\ resets \in Nat
<1> SUFFICES ASSUME BridgeInit PROVE RefundOnceInv /\ resets \in Nat
  OBVIOUS
<1>1. /\ txs = << >> /\ copied = {} /\ proc = [i \in Instances |-> Idle] /\ resets = 0
      /\ refund = [r \in Refunds |-> [status |-> "queued", address |-> FALSE, alerted |-> FALSE, tx |-> 0]]
  BY DEF BridgeInit, Init, WalletInit, NodeInit
<1>2. txs \in Seq(Transactions) /\ Signed = {} /\ \A r : SignedFor(r) = {}
  BY <1>1 DEF Signed, SignedFor
<1>3. \A i \in Instances : RefundJobOnce(i)
  BY <1>1 DEF RefundJobOnce, Idle, RefundSteps
<1>4. \A r \in Refunds : RefundRowOnce(r)
  BY <1>1, <1>2 DEF RefundRowOnce
<1> QED BY <1>1, <1>2, <1>3, <1>4 DEF RefundOnceInv, RefundStatus

(* With any number of backends a refund has one transaction at most, the   *)
(* one in its row, as long as no operator sets a signed one back to        *)
(* 'queued' (refund-executor.ts, _signOne).                                *)
THEOREM RefundSignedOnce ==
  ASSUME MaxResets = 0
  PROVE  BridgeSpec => []RefundOnceInv
<1>1. (RefundOnceInv /\ resets \in Nat) /\ [BridgeNext]_bridgeVars => (RefundOnceInv /\ resets \in Nat)'
  BY OnceKeeps
<1> QED BY <1>1, OnceInit, PTL DEF BridgeSpec

(* So what exceeded the cap goes back once, whatever was lost or retried.  *)
THEOREM RefundedOnce ==
  ASSUME MaxResets = 0
  PROVE  BridgeSpec => []RefundedAtMostOnce
<1>1. ASSUME RefundOnceInv PROVE RefundedAtMostOnce
  <2> SUFFICES ASSUME NEW r \in Refunds PROVE Cardinality(Payments(r)) <= 1
    BY DEF RefundedAtMostOnce
  <2>1. Payments(r) \subseteq {refund[r].tx}
    BY <1>1 DEF RefundOnceInv, RefundRowOnce, Payments, Settled, SignedFor
  <2> QED BY <2>1, AtMostOne
<1> QED BY <1>1, RefundSignedOnce, PTL

(* A step signs at most one transaction, and which one. *)
LEMMA WhoSigns ==
  ASSUME BridgeNext
  PROVE  \/ UNCHANGED txs
         \/ \E i \in Instances : SignCommit(i) /\ Signable(proc[i])
         \/ \E i \in Instances : SignRefund(i) /\ RefundSignable(proc[i])
<1>1. ASSUME NEW i \in Instances, Work(i) \/ Crash(i)
      PROVE  UNCHANGED txs \/ (SignCommit(i) /\ Signable(proc[i]))
  BY <1>1 DEF Work, ParkUnpayable, RetrySameTx, CheckUnpaid, SelectInputs, SignCommit, RecordAttempt,
              Send, LookUp, Commit, ParkAndRelease, ParkHeld, Complete, Resend, Crash,
              Answer, AnswerLost, nodeVars
<1>2. ASSUME NEW i \in Instances, NEW o \in Orders, Begin(i, o) PROVE UNCHANGED txs
  BY <1>2 DEF Begin, ReadQueued, ReadSigned, Confirm, FindForgotten, nodeVars
<1>3. ASSUME NEW o \in Orders, Requeue(o) PROVE UNCHANGED txs
  BY <1>3 DEF Requeue, nodeVars
<1>4. ASSUME Network PROVE UNCHANGED txs
  BY <1>4 DEF Network, NodeNext, Deliver, Mine, Bury, Forget, Copy
<1>5. ASSUME NEW i \in Instances, RefundWork(i)
      PROVE  UNCHANGED txs \/ (SignRefund(i) /\ RefundSignable(proc[i]))
  BY <1>5 DEF RefundWork, SignRefund, SendRefund, RecordRefund, ParkRefused,
              Answer, AnswerLost, nodeVars
<1>6. ASSUME NEW i \in Instances, NEW r \in Refunds, BeginRefund(i, r) PROVE UNCHANGED txs
  BY <1>6 DEF BeginRefund, ResolveSender, AnnounceSplit, BuildRefund, ParkUnbuilt,
              ReadSignedRefund, ConfirmRefund, vars, nodeVars
<1>7. ASSUME NEW r \in Refunds, RetryRefund(r) \/ ResetRefund(r) PROVE UNCHANGED txs
  BY <1>7 DEF RetryRefund, ResetRefund, vars, nodeVars
<1> QED BY <1>1, <1>2, <1>3, <1>4, <1>5, <1>6, <1>7 DEF BridgeNext, Next

(* With one backend nothing is signed for a withdrawal or a refund after   *)
(* something of its own may have got out (processQueued, _signOne).        *)
THEOREM ResignedSafely ==
  ASSUME OneInstance, MaxResets = 0
  PROVE  BridgeSpec => ResignedOnlyIfNeverOut
<1> DEFINE A == \A k \in Signed' \ Signed : SignedFor(txs'[k].payer) \cap (relayed \cup inflight) = {}
<1>1. ASSUME NodeTypeOK, NEW q \in Payers, NEW S \in SUBSET Outputs, SignStep(q, S),
             SignedFor(q) \cap Out = {}
      PROVE  A
  <2>1. txs \in Seq(Transactions) /\ Len(txs) \in Nat
    BY <1>1 DEF NodeTypeOK
  <2>2. PICK t \in Transactions : t.payer = q /\ txs' = Append(txs, t)
    BY <1>1 DEF SignStep, Transactions
  <2>3. Len(txs') = Len(txs) + 1 /\ txs'[Len(txs) + 1] = t
    BY <2>1, <2>2
  <2>4. ASSUME NEW k \in Signed' \ Signed PROVE txs'[k].payer = q
    BY <2>1, <2>2, <2>3, <2>4 DEF Signed
  <2> QED BY <1>1, <2>4 DEF Out
<1>2. ASSUME BridgeInv, RefundOnceInv, BridgeNext PROVE A
  <2>1. NodeTypeOK
    BY <1>2, InvParts DEF Parts, Rest
  <2>2. CASE UNCHANGED txs
    BY <2>2 DEF Signed
  <2>3. ASSUME NEW i \in Instances, SignCommit(i), Signable(proc[i]) PROVE A
    <3>1. JobType(i) /\ JobInv(i) /\ proc[i].pc = "sign"
      BY <1>2, <2>3, InvParts DEF Parts, JobOK, SignCommit
    <3>2. /\ proc[i].order \in Orders /\ proc[i].row = payout[proc[i].order].row
          /\ proc[i].inputs \in SUBSET Outputs
      BY <3>1 DEF JobType, Steps, JobInv
    <3>3. PICK q \in Orders, S \in SUBSET Outputs : q = proc[i].order /\ S = proc[i].inputs
      BY <3>2
    <3>4. SignStep(q, S) /\ SignedFor(q) \cap Out = {}
      BY <1>2, <2>3, <3>2, <3>3, SignableHasNothing DEF SignCommit, Signable, SignStep
    <3> QED BY <1>1, <2>1, <3>4, PayoutAssumption
  <2>4. ASSUME NEW i \in Instances, SignRefund(i), RefundSignable(proc[i]) PROVE A
    <3>1. PICK q \in Refunds, S \in SUBSET Outputs :
            q = proc[i].refund /\ S = proc[i].inputs /\ SignStep(q, S)
      BY <1>2, <2>4, SignedFirst DEF SignRefund, RefundSignable, SignStep, Available
    <3>2. SignedFor(q) = {}
      BY <1>2, <2>4, <3>1, SignedFirst DEF SignRefund
    <3> QED BY <1>1, <2>1, <3>1, <3>2, RefundAssumption
  <2> QED BY <1>2, <2>2, <2>3, <2>4, WhoSigns
<1>3. ASSUME BridgeInv, RefundOnceInv, [BridgeNext]_bridgeVars PROVE [A]_vars
  <2> HIDE DEF A
  <2> QED BY <1>2, <1>3 DEF bridgeVars
<1> QED BY <1>3, BridgeInvariant, RefundSignedOnce, PTL DEF BridgeSpec, ResignedOnlyIfNeverOut

-------------------------------------------------------------------------------
(* One coin for one payer, with any number of instances.                   *)

HasTx(o) == Newest(o) \in SignedFor(o)

(* What a job knows, also of a row that another instance moved meanwhile.  *)
PooledJob(p) ==
  /\ p.pc \in Steps => p.order \in Orders
  /\ p.pc \in Sending => p.tx \in SignedFor(p.order)
  /\ p.pc = "queued" /\ p.held => HasTx(p.order)
  /\ p.pc \in RefundSteps => p.refund \in Refunds
  /\ p.pc \in {"refund_send", "refund_record"} => p.tx \in SignedFor(p.refund)
  /\ p.pc # "release"
  /\ p.pc = "lookup" => p.error # "refused"

PooledOrder(o) ==
  /\ order[o] = "PAYOUT_SIGNED" => HasTx(o)
  /\ payout[o].txid # 0 => payout[o].txid \in SignedFor(o)
  /\ HeldBy(o) # {} => HasTx(o)

PooledRefund(r) ==
  /\ refund[r].tx # 0 => refund[r].tx \in SignedFor(r)
  /\ refund[r].status = "signed" => refund[r].tx # 0

PooledRows ==
  /\ order \in [Orders -> OrderStates]
  /\ payout \in [Orders -> [row : BOOLEAN, txid : Nat, retried : BOOLEAN]]
  /\ refund \in [Refunds -> [status : RefundStatus, address : BOOLEAN,
                             alerted : BOOLEAN, tx : Nat]]

(* While the node refuses nothing, so that no coins are released, whatever *)
(* was ever signed keeps its coins (the guarded UPDATE of each coin).      *)
PooledInv ==
  /\ NodeTypeOK /\ NodeInv /\ refusals = 0
  /\ PoolType /\ \A k \in Signed : Bound(k)
  /\ PooledRows
  /\ \A o \in Orders : PooledOrder(o)
  /\ \A r \in Refunds : PooledRefund(r)
  /\ DOMAIN proc = Instances
  /\ \A i \in Instances : PooledJob(proc[i])

(* A step that signs nothing, by what it does to each part. *)
LEMMA PooledCalm ==
  ASSUME PooledInv, UNCHANGED txs, NodeTypeOK', NodeInv', refusals' = 0,
         PoolType', \A k \in Signed : Bound(k)', \A o \in Orders : HeldBy(o)' \subseteq HeldBy(o),
         PooledRows',
         \A o \in Orders : order'[o] = "PAYOUT_SIGNED" => HasTx(o),
         \A o \in Orders : payout'[o].txid \in {payout[o].txid} \cup SignedFor(o),
         \A r \in Refunds : PooledRefund(r)',
         DOMAIN proc' = Instances,
         \A j \in Instances : proc'[j] = proc[j] \/ PooledJob(proc'[j])
  PROVE  PooledInv'
<1>1. Signed' = Signed /\ \A o : SignedFor(o)' = SignedFor(o) /\ Newest(o)' = Newest(o)
  BY SameSigned
<1>2. ASSUME NEW o \in Orders PROVE PooledOrder(o)'
  BY <1>1 DEF PooledInv, PooledOrder, HasTx
<1>3. ASSUME NEW j \in Instances PROVE PooledJob(proc[j])'
  <2>1. PooledJob(proc'[j])
    BY DEF PooledInv
  <2> QED BY <1>1, <2>1 DEF PooledJob, HasTx
<1> QED BY <1>1, <1>2, <1>3 DEF PooledInv

(* One instance goes on to p, and orders at most move. *)
LEMMA PooledStep ==
  ASSUME PooledInv, NodeStep, refusals' = 0, UNCHANGED <<utxo, payout, refund>>,
         NEW i \in Instances, NEW p, PooledJob(p), Proceed(i, p),
         order' \in [Orders -> OrderStates],
         \A o \in Orders : order'[o] = "PAYOUT_SIGNED" => HasTx(o)
  PROVE  PooledInv'
<1>1. UNCHANGED txs /\ NodeTypeOK' /\ NodeInv'
  BY DEF NodeStep
<1>2. /\ PoolType' /\ \A k \in Signed : Bound(k)'
      /\ \A o \in Orders : HeldBy(o)' \subseteq HeldBy(o)
  BY <1>1, SamePool DEF PooledInv, PoolType
<1>3. \A r \in Refunds : PooledRefund(r)'
  BY <1>1, SameSigned DEF PooledInv, PooledRefund
<1>4. DOMAIN proc' = Instances /\ \A j \in Instances : proc'[j] = proc[j] \/ proc'[j] = p
  BY DEF PooledInv, Proceed
<1>5. \A j \in Instances : proc'[j] = proc[j] \/ PooledJob(proc'[j])
  BY <1>4
<1>6. PooledRows' /\ \A o \in Orders : payout'[o].txid \in {payout[o].txid} \cup SignedFor(o)
  BY DEF PooledInv, PooledRows
<1> QED BY <1>1, <1>2, <1>3, <1>4, <1>5, <1>6, PooledCalm

LEMMA PooledIdle == PooledJob(Idle)
BY DEF PooledJob, Idle, Steps, Sending, RefundSteps

(* An order that moves to any state but PAYOUT_SIGNED. *)
LEMMA PooledMoves ==
  ASSUME PooledInv, NEW o \in Orders, NEW from, NEW to \in OrderStates \ {"PAYOUT_SIGNED"},
         Transition(o, from, to) \/ order' = [order EXCEPT ![o] = to]
  PROVE  /\ order' \in [Orders -> OrderStates]
         /\ \A q \in Orders : order'[q] = "PAYOUT_SIGNED" => HasTx(q)
BY DEF PooledInv, PooledRows, PooledOrder, Transition, OrderStates

LEMMA PooledStays ==
  ASSUME PooledInv, UNCHANGED order
  PROVE  /\ order' \in [Orders -> OrderStates]
         /\ \A q \in Orders : order'[q] = "PAYOUT_SIGNED" => HasTx(q)
BY DEF PooledInv, PooledRows, PooledOrder

LEMMA PooledQuiet ==
  ASSUME PooledInv, UNCHANGED nodeVars
  PROVE  NodeStep /\ refusals' = 0
BY SameNode DEF PooledInv, nodeVars

(* The node answers without a refusal, or its answer is lost. *)
LEMMA PooledAnswer ==
  ASSUME MaxRefusals = 0, PooledInv, NEW k \in Signed, NEW answer, Answer(k, answer)
  PROVE  NodeStep /\ refusals' = 0 /\ answer # "refused"
<1>1. answer # "refused"
  BY DEF PooledInv, Answer, Answers
<1> QED BY <1>1, AnswerStep DEF PooledInv, Answer

LEMMA PooledLost ==
  ASSUME PooledInv, NEW k \in Signed, AnswerLost(k)
  PROVE  NodeStep /\ refusals' = 0
BY LostStep DEF PooledInv, AnswerLost

(* What p signed and spends is p's already. *)
LEMMA PooledSpend ==
  ASSUME PooledInv, UNCHANGED txs, NEW q \in Payers, NEW k \in SignedFor(q),
         NEW S, S = {} \/ S = Inputs(k), utxo' = Spend(q, S, k)
  PROVE  /\ PoolType' /\ \A j \in Signed : Bound(j)'
         /\ \A o \in Orders : HeldBy(o)' \subseteq HeldBy(o)
<1>1. k \in Signed /\ txs[k].payer = q /\ \A j \in Signed : Bound(j) /\ Inputs(j) \subseteq Outputs
  BY InputsAreOutputs DEF PooledInv, SignedFor, Inputs
<1>2. \A c \in S : utxo[c].by = {q}
  BY <1>1 DEF Bound
<1>3. ASSUME NEW c \in Outputs
      PROVE  utxo'[c] = IF c \in S \/ utxo[c].by = {q} THEN [status |-> "spent", by |-> {q}]
                        ELSE IF c = k /\ txs[k].change /\ utxo[k].status = "absent"
                        THEN [status |-> "available", by |-> {}]
                        ELSE utxo[c]
  BY DEF Spend
<1>4. PoolType'
  BY <1>3 DEF PooledInv, PoolType, Spend
<1>5. ASSUME NEW j \in Signed, NEW c \in Inputs(j)
      PROVE  utxo'[c].status \in {"reserved", "spent"} /\ utxo'[c].by = {txs[j].payer}
  <2>1. c \in Outputs /\ utxo[c].status \in {"reserved", "spent"} /\ utxo[c].by = {txs[j].payer}
    BY <1>1, <1>5 DEF Bound
  <2>2. CASE utxo[c].by = {q}
    BY <1>3, <2>1, <2>2
  <2>3. CASE utxo[c].by # {q}
    BY <1>2, <1>3, <2>1, <2>3
  <2> QED BY <2>2, <2>3
<1>6. \A j \in Signed : Bound(j)'
  BY <1>5, SameSigned DEF Bound, Inputs
<1>7. \A o \in Orders : HeldBy(o)' \subseteq HeldBy(o)
  BY <1>3 DEF HeldBy
<1> QED BY <1>4, <1>6, <1>7

LEMMA PooledRetry ==
  ASSUME PooledInv, NEW i \in Instances, RetrySameTx(i), UNCHANGED refundVars
  PROVE  PooledInv'
<1> DEFINE o == proc[i].order
<1>1. /\ UNCHANGED nodeVars /\ UNCHANGED <<utxo, refund>> /\ Done(i)
      /\ o \in Orders /\ HasTx(o)
  BY DEF RetrySameTx, refundVars, PooledInv, PooledJob, Steps
<1>2. NodeStep /\ refusals' = 0 /\ UNCHANGED txs
  BY <1>1, PooledQuiet DEF NodeStep
<1>3. /\ PoolType' /\ \A k \in Signed : Bound(k)'
      /\ \A q \in Orders : HeldBy(q)' \subseteq HeldBy(q)
  BY <1>1, <1>2, SamePool DEF PooledInv, PoolType
<1>4. \A r \in Refunds : PooledRefund(r)'
  BY <1>1, <1>2, SameSigned DEF PooledInv, PooledRefund
<1>5. DOMAIN proc' = Instances /\ \A j \in Instances : proc'[j] = proc[j] \/ proc'[j] = Idle
  BY <1>1 DEF PooledInv, Done, Proceed
<1>6. \A j \in Instances : proc'[j] = proc[j] \/ PooledJob(proc'[j])
  BY <1>5, PooledIdle
<1>7. CASE order[o] = "PAYOUT_QUEUED"
  <2>1. order' = [order EXCEPT ![o] = "PAYOUT_SIGNED"] /\ payout' = [payout EXCEPT ![o].retried = TRUE]
    BY <1>7 DEF RetrySameTx
  <2>2. PooledRows'
    BY <1>1, <2>1 DEF PooledInv, PooledRows, OrderStates
  <2>3. \A q \in Orders : order'[q] = "PAYOUT_SIGNED" => HasTx(q)
    BY <1>1, <2>1 DEF PooledInv, PooledRows, PooledOrder
  <2>4. \A q \in Orders : payout'[q].txid \in {payout[q].txid} \cup SignedFor(q)
    BY <1>1, <2>1 DEF PooledInv, PooledRows
  <2> QED BY <1>2, <1>3, <1>4, <1>5, <1>6, <2>2, <2>3, <2>4, PooledCalm DEF NodeStep
<1>8. CASE order[o] # "PAYOUT_QUEUED"
  <2>1. UNCHANGED <<order, payout>>
    BY <1>8 DEF RetrySameTx
  <2> QED BY <1>1, <1>2, <2>1, PooledIdle, PooledStays, PooledStep DEF Done
<1> QED BY <1>7, <1>8

LEMMA PooledCommit ==
  ASSUME PooledInv, NEW i \in Instances, Commit(i), UNCHANGED refundVars
  PROVE  PooledInv'
<1> DEFINE o == proc[i].order
           k == proc[i].tx
           S == IF order[o] = "PAYOUT_SIGNED" THEN {} ELSE Inputs(k)
<1>1. /\ UNCHANGED nodeVars /\ UNCHANGED refund /\ Done(i) /\ o \in Orders /\ k \in SignedFor(o)
      /\ utxo' = Spend(o, S, k) /\ payout' = [payout EXCEPT ![o].txid = k]
      /\ Transition(o, "PAYOUT_SIGNED", "PAYOUT_BROADCAST")
  BY DEF Commit, refundVars, PooledInv, PooledJob, Steps, Sending
<1>2. NodeStep /\ refusals' = 0 /\ UNCHANGED txs
  BY <1>1, PooledQuiet DEF NodeStep
<1>3. /\ PoolType' /\ \A j \in Signed : Bound(j)'
      /\ \A q \in Orders : HeldBy(q)' \subseteq HeldBy(q)
  BY <1>1, <1>2, PooledSpend, PayoutAssumption
<1>4. \A r \in Refunds : PooledRefund(r)'
  BY <1>1, <1>2, SameSigned DEF PooledInv, PooledRefund
<1>5. DOMAIN proc' = Instances /\ \A j \in Instances : proc'[j] = proc[j] \/ proc'[j] = Idle
  BY <1>1 DEF PooledInv, Done, Proceed
<1>6. \A j \in Instances : proc'[j] = proc[j] \/ PooledJob(proc'[j])
  BY <1>5, PooledIdle
<1>7. /\ order' \in [Orders -> OrderStates]
      /\ \A q \in Orders : order'[q] = "PAYOUT_SIGNED" => HasTx(q)
  BY <1>1, PooledMoves DEF OrderStates
<1>8. k \in Nat
  BY <1>1 DEF SignedFor, Signed
<1>9. PooledRows' /\ \A q \in Orders : payout'[q].txid \in {payout[q].txid} \cup SignedFor(q)
  BY <1>1, <1>7, <1>8 DEF PooledInv, PooledRows
<1> QED BY <1>2, <1>3, <1>4, <1>5, <1>6, <1>7, <1>9, PooledCalm DEF NodeStep

(* A job that parks or completes its order, or that ends without a word. *)
LEMMA PooledEnd ==
  ASSUME PooledInv, NEW i \in Instances, Done(i), UNCHANGED nodeVars,
         UNCHANGED <<utxo, payout, refund>>,
         \/ UNCHANGED order
         \/ \E o \in Orders : \E from : Transition(o, from, "MANUAL_REVIEW") \/ Transition(o, from, "COMPLETED")
  PROVE  PooledInv'
<1>1. /\ order' \in [Orders -> OrderStates]
      /\ \A q \in Orders : order'[q] = "PAYOUT_SIGNED" => HasTx(q)
  BY PooledStays, PooledMoves DEF OrderStates
<1> QED BY <1>1, PooledIdle, PooledQuiet, PooledStep DEF Done

(* A job that goes on, and nothing else. *)
LEMMA PooledGoesOn ==
  ASSUME PooledInv, NEW i \in Instances, NEW p, Proceed(i, p), PooledJob(p),
         UNCHANGED nodeVars, UNCHANGED <<utxo, payout, refund, order>>
  PROVE  PooledInv'
BY PooledStays, PooledQuiet, PooledStep

LEMMA PooledBegin ==
  ASSUME PooledInv, NEW i \in Instances, NEW o \in Orders, UNCHANGED refundVars,
         ReadQueued(i, o) \/ ReadSigned(i, o) \/ Confirm(i, o) \/ FindForgotten(i, o)
  PROVE  PooledInv'
<1>1. UNCHANGED <<utxo, payout, refund>> /\ UNCHANGED nodeVars /\ PooledOrder(o)
  BY DEF ReadQueued, ReadSigned, Confirm, FindForgotten, payoutVars, refundVars, PooledInv
<1>2. CASE ReadQueued(i, o)
  <2> DEFINE p == [pc |-> "queued", order |-> o, row |-> payout[o].row, held |-> HeldBy(o) # {},
                   out |-> payout[o].txid # 0 \/ SpentBy(o) # {}]
  <2>1. Proceed(i, p) /\ UNCHANGED order
    BY <1>2 DEF ReadQueued, payoutVars
  <2>2. PooledJob(p)
    BY <1>1 DEF PooledJob, PooledOrder, Sending, RefundSteps
  <2> HIDE DEF p
  <2> QED BY <1>1, <2>1, <2>2, PooledGoesOn
<1>3. CASE ReadSigned(i, o)
  <2> DEFINE p == [pc |-> "attempt", order |-> o, tx |-> Newest(o)]
  <2>1. Proceed(i, p) /\ UNCHANGED order /\ order[o] = "PAYOUT_SIGNED"
    BY <1>3 DEF ReadSigned, payoutVars
  <2>2. PooledJob(p)
    BY <1>1, <2>1 DEF PooledJob, PooledOrder, HasTx, RefundSteps
  <2> HIDE DEF p
  <2> QED BY <1>1, <2>1, <2>2, PooledGoesOn
<1>4. CASE Confirm(i, o)
  <2> DEFINE p == [pc |-> "complete", order |-> o]
  <2>1. Proceed(i, p) /\ order' = [order EXCEPT ![o] = "PAYOUT_CONFIRMED"]
    BY <1>4 DEF Confirm
  <2>2. PooledJob(p)
    BY DEF PooledJob, Sending, RefundSteps
  <2> HIDE DEF p
  <2>3. /\ order' \in [Orders -> OrderStates]
        /\ \A q \in Orders : order'[q] = "PAYOUT_SIGNED" => HasTx(q)
    BY <2>1, PooledMoves DEF OrderStates
  <2> QED BY <1>1, <2>1, <2>2, <2>3, PooledQuiet, PooledStep
<1>5. CASE FindForgotten(i, o)
  <2> DEFINE p == [pc |-> "resend", order |-> o, tx |-> payout[o].txid]
  <2>1. Proceed(i, p) /\ UNCHANGED order /\ payout[o].txid # 0
    BY <1>5 DEF FindForgotten, payoutVars
  <2>2. PooledJob(p)
    BY <1>1, <2>1 DEF PooledJob, PooledOrder, RefundSteps
  <2> HIDE DEF p
  <2> QED BY <1>1, <2>1, <2>2, PooledGoesOn
<1> QED BY <1>2, <1>3, <1>4, <1>5

LEMMA PooledSending ==
  ASSUME MaxRefusals = 0, PooledInv, NEW i \in Instances, UNCHANGED refundVars,
         RecordAttempt(i) \/ Send(i) \/ LookUp(i) \/ Resend(i)
  PROVE  PooledInv'
<1> DEFINE o == proc[i].order
           k == proc[i].tx
<1>1. /\ o \in Orders /\ k \in SignedFor(o) /\ k \in Signed
      /\ UNCHANGED <<utxo, payout, refund>>
  BY DEF RecordAttempt, Send, LookUp, Resend, payoutVars, refundVars, PooledInv, PooledJob,
         Steps, Sending, SignedFor
<1>2. /\ Recording(proc[i]).pc = "record" /\ Recording(proc[i]).order = o /\ Recording(proc[i]).tx = k
      /\ \A error : /\ Failed(proc[i], error).pc = "lookup" /\ Failed(proc[i], error).order = o
                    /\ Failed(proc[i], error).tx = k /\ Failed(proc[i], error).error = error
  BY DEF Recording, Failed
<1>3. /\ PooledJob(Recording(proc[i]))
      /\ \A error : error # "refused" => PooledJob(Failed(proc[i], error))
  BY <1>1, <1>2 DEF PooledJob, RefundSteps
<1>4. CASE RecordAttempt(i)
  <2> DEFINE p == [pc |-> "send", order |-> proc[i].order, tx |-> k,
                   maybeOut |-> attempts[k].all # attempts[k].refused,
                   sinceRetry |-> attempts[k].recent,
                   retried |-> payout[proc[i].order].retried]
  <2>1. Proceed(i, p) /\ UNCHANGED nodeVars /\ UNCHANGED order
    BY <1>4 DEF RecordAttempt
  <2>2. PooledJob(p)
    BY <1>1 DEF PooledJob, RefundSteps
  <2> HIDE DEF p
  <2> QED BY <1>1, <2>1, <2>2, PooledGoesOn
<1>5. CASE Send(i)
  <2>1. UNCHANGED order
    BY <1>5 DEF Send, payoutVars
  <2>2. ASSUME NEW answer, Answer(k, answer),
               Proceed(i, IF answer \in {"ok", "inchain"} THEN Recording(proc[i])
                          ELSE Failed(proc[i], answer))
        PROVE  PooledInv'
    <3>1. NodeStep /\ refusals' = 0 /\ answer # "refused"
      BY <1>1, <2>2, PooledAnswer
    <3> QED BY <1>1, <1>3, <2>1, <2>2, <3>1, PooledStays, PooledStep
  <2>3. ASSUME AnswerLost(k), Proceed(i, Failed(proc[i], "network")) PROVE PooledInv'
    BY <1>1, <1>3, <2>1, <2>3, PooledLost, PooledStays, PooledStep
  <2> QED BY <1>5, <2>2, <2>3 DEF Send
<1>6. CASE LookUp(i)
  <2> DEFINE release == [pc |-> "release", order |-> proc[i].order, tx |-> proc[i].tx]
             park == [pc |-> "park", order |-> proc[i].order, tx |-> proc[i].tx]
  <2>1. ~MayRelease(proc[i]) /\ UNCHANGED nodeVars /\ UNCHANGED order
    BY <1>6 DEF LookUp, MayRelease, PooledInv, PooledJob
  <2>2. Proceed(i, Recording(proc[i])) \/ Proceed(i, park) \/ Proceed(i, Idle)
    BY <1>6, <2>1 DEF LookUp
  <2>3. PooledJob(park)
    BY <1>1 DEF PooledJob, RefundSteps
  <2> HIDE DEF park
  <2> QED BY <1>1, <1>3, <2>1, <2>2, <2>3, PooledIdle, PooledGoesOn
<1>7. CASE Resend(i)
  <2>1. Done(i) /\ (UNCHANGED order \/ Transition(o, "PAYOUT_BROADCAST", "MANUAL_REVIEW"))
    BY <1>7 DEF Resend
  <2>2. /\ order' \in [Orders -> OrderStates]
        /\ \A q \in Orders : order'[q] = "PAYOUT_SIGNED" => HasTx(q)
    BY <1>1, <2>1, PooledStays, PooledMoves DEF OrderStates
  <2>3. NodeStep /\ refusals' = 0
    BY <1>1, <1>7, PooledAnswer, PooledLost DEF Resend
  <2> QED BY <1>1, <2>1, <2>2, <2>3, PooledIdle, PooledStep DEF Done
<1> QED BY <1>4, <1>5, <1>6, <1>7

LEMMA PooledQueued ==
  ASSUME PooledInv, NEW i \in Instances, UNCHANGED refundVars,
         \/ ParkUnpayable(i) \/ CheckUnpaid(i) \/ SelectInputs(i) \/ ParkHeld(i) \/ Complete(i)
         \/ Crash(i)
  PROVE  PooledInv'
<1>1. UNCHANGED nodeVars /\ UNCHANGED <<utxo, payout, refund>>
  BY DEF ParkUnpayable, CheckUnpaid, SelectInputs, ParkHeld, Complete, Crash, payoutVars, refundVars
<1>2. CASE Crash(i)
  BY <1>1, <1>2, PooledEnd DEF Crash, payoutVars
<1>3. CASE ParkUnpayable(i) \/ ParkHeld(i) \/ Complete(i)
  <2>1. proc[i].order \in Orders /\ Done(i)
    BY <1>3 DEF ParkUnpayable, ParkHeld, Complete, PooledInv, PooledJob, Steps
  <2>2. \E o \in Orders : \E from : Transition(o, from, "MANUAL_REVIEW") \/ Transition(o, from, "COMPLETED")
    BY <1>3, <2>1 DEF ParkUnpayable, ParkHeld, Complete
  <2> QED BY <1>1, <2>1, <2>2, PooledEnd
<1>4. CASE CheckUnpaid(i)
  <2> DEFINE p == [pc |-> "select", order |-> proc[i].order, row |-> proc[i].row]
  <2>1. proc[i].order \in Orders
    BY <1>4 DEF CheckUnpaid, PooledInv, PooledJob, Steps
  <2>2. \/ Done(i) /\ Transition(proc[i].order, "PAYOUT_QUEUED", "MANUAL_REVIEW")
        \/ Proceed(i, p) /\ UNCHANGED order
    BY <1>4 DEF CheckUnpaid
  <2>3. PooledJob(p)
    BY <2>1 DEF PooledJob, Sending, RefundSteps
  <2> HIDE DEF p
  <2> QED BY <1>1, <2>1, <2>2, <2>3, PooledEnd, PooledGoesOn
<1>5. CASE SelectInputs(i)
  <2>1. proc[i].order \in Orders
    BY <1>5 DEF SelectInputs, PooledInv, PooledJob, Steps
  <2>2. ASSUME NEW S, UNCHANGED order,
               Proceed(i, [pc |-> "sign", order |-> proc[i].order, row |-> proc[i].row, inputs |-> S])
        PROVE  PooledInv'
    <3> DEFINE p == [pc |-> "sign", order |-> proc[i].order, row |-> proc[i].row, inputs |-> S]
    <3>1. PooledJob(p) /\ Proceed(i, p)
      BY <2>1, <2>2 DEF PooledJob, Sending, RefundSteps
    <3> HIDE DEF p
    <3> QED BY <1>1, <2>2, <3>1, PooledGoesOn
  <2>3. CASE Done(i) /\ Transition(proc[i].order, "PAYOUT_QUEUED", "MANUAL_REVIEW")
    BY <1>1, <2>1, <2>3, PooledEnd
  <2> QED BY <1>5, <2>2, <2>3 DEF SelectInputs
<1> QED BY <1>2, <1>3, <1>4, <1>5

(* The coins that one more transaction takes were nobody's. *)
LEMMA PooledSigned ==
  ASSUME PooledInv, Len(txs) < MaxTxs, NEW q \in Payers, NEW S \in SUBSET Available,
         SignStep(q, S), utxo' = Reserve(S, q), NEW i \in Instances, Done(i),
         UNCHANGED <<node, relayed, copied, inflight, refusals, forgets>>,
         PooledRows', \A o \in Orders : payout'[o].txid = payout[o].txid,
         \A o \in Orders : order'[o] = "PAYOUT_SIGNED" => o = q \/ order[o] = "PAYOUT_SIGNED",
         \A r \in Refunds : \/ refund'[r] = refund[r]
                            \/ r = q /\ refund'[r].tx = Len(txs) + 1
  PROVE  PooledInv'
<1> DEFINE n == Len(txs) + 1
<1>1. S \in SUBSET Outputs /\ Len(txs) \in Nat
  BY SignedFacts DEF Available, PooledInv
<1>2. /\ NodeTypeOK' /\ NodeInv' /\ n \notin Signed /\ Signed' = Signed \cup {n}
      /\ txs'[n].payer = q /\ txs'[n].inputs = S /\ \A k \in Signed : txs'[k] = txs[k]
  BY <1>1, SignFacts DEF PooledInv
<1>3. /\ SignedFor(q)' = SignedFor(q) \cup {n} /\ Newest(q)' = n
      /\ \A o : o # q => SignedFor(o)' = SignedFor(o) /\ Newest(o)' = Newest(o)
  BY <1>1, SignedForAfter DEF PooledInv
<1>4. /\ HasTx(q)' /\ \A o : HasTx(o) => HasTx(o)'
      /\ \A o : SignedFor(o) \subseteq SignedFor(o)'
  BY <1>3 DEF HasTx
<1>5. \A c \in Outputs : utxo'[c] = IF c \in S THEN [status |-> "reserved", by |-> {q}] ELSE utxo[c]
  BY DEF Reserve
<1>6. PoolType'
  BY <1>5 DEF PooledInv, PoolType, Reserve
<1>7. ASSUME NEW k \in Signed' PROVE Bound(k)'
  <2>1. CASE k = n
    BY <1>1, <1>2, <1>5, <2>1 DEF Bound, Inputs
  <2>2. CASE k # n
    <3>1. k \in Signed /\ txs'[k] = txs[k] /\ txs[k].inputs \subseteq Outputs /\ Bound(k)
      BY <1>2, <2>2, InputsAreOutputs DEF PooledInv
    <3>2. \A c \in Inputs(k) : c \notin S /\ utxo'[c] = utxo[c]
      BY <1>5, <3>1 DEF Bound, Available, Inputs
    <3> QED BY <3>1, <3>2 DEF Bound, Inputs
  <2> QED BY <2>1, <2>2
<1>8. ASSUME NEW o \in Orders PROVE PooledOrder(o)'
  <2>1. PooledOrder(o) /\ payout'[o].txid = payout[o].txid
    BY DEF PooledInv
  <2>2. HeldBy(o)' # {} => HasTx(o)'
    <3>1. CASE o = q
      BY <1>4, <3>1
    <3>2. CASE o # q
      BY <1>4, <1>5, <2>1, <3>2 DEF PooledOrder, HeldBy
    <3> QED BY <3>1, <3>2
  <2>3. order'[o] = "PAYOUT_SIGNED" => HasTx(o)'
    BY <1>4, <2>1 DEF PooledOrder
  <2> QED BY <1>4, <2>1, <2>2, <2>3 DEF PooledOrder
<1>9. ASSUME NEW r \in Refunds PROVE PooledRefund(r)'
  BY <1>1, <1>3, <1>4 DEF PooledInv, PooledRefund
<1>10. DOMAIN proc' = Instances /\ \A j \in Instances : PooledJob(proc[j])'
  <2>1. DOMAIN proc' = Instances /\ \A j \in Instances : proc'[j] = proc[j] \/ proc'[j] = Idle
    BY DEF Done, Proceed, PooledInv
  <2>2. \A j \in Instances : PooledJob(proc'[j])
    BY <2>1, PooledIdle DEF PooledInv
  <2>3. ASSUME NEW j \in Instances PROVE PooledJob(proc[j])'
    BY <1>4, <2>2 DEF PooledJob
  <2> QED BY <2>1, <2>3
<1> QED BY <1>2, <1>6, <1>7, <1>8, <1>9, <1>10 DEF PooledInv

LEMMA PooledSignCommit ==
  ASSUME PooledInv, NEW i \in Instances, SignCommit(i), UNCHANGED refundVars
  PROVE  PooledInv'
<1>1. /\ proc[i].order \in Orders /\ Done(i) /\ Len(txs) < MaxTxs /\ UNCHANGED refund
      /\ UNCHANGED <<node, relayed, copied, inflight, refusals, forgets>>
  BY DEF SignCommit, PooledInv, PooledJob, Steps, refundVars
<1>2. CASE Signable(proc[i])
  <2>1. PICK q \in Orders, S \in SUBSET Available : q = proc[i].order /\ S = proc[i].inputs
    BY <1>1, <1>2 DEF Signable
  <2>2. /\ SignStep(q, S) /\ utxo' = Reserve(S, q)
        /\ payout' = [payout EXCEPT ![q].row = TRUE]
        /\ order' = [order EXCEPT ![q] = "PAYOUT_SIGNED"]
    BY <1>2, <2>1 DEF SignCommit, SignStep
  <2>3. PooledRows' /\ \A o \in Orders : payout'[o].txid = payout[o].txid
    BY <1>1, <2>2 DEF PooledInv, PooledRows, OrderStates
  <2>4. \A o \in Orders : order'[o] = "PAYOUT_SIGNED" => o = q \/ order[o] = "PAYOUT_SIGNED"
    BY <2>2 DEF PooledInv, PooledRows
  <2> QED BY <1>1, <2>2, <2>3, <2>4, PooledSigned, PayoutAssumption
<1>3. CASE ~Signable(proc[i])
  <2>1. UNCHANGED nodeVars /\ UNCHANGED <<utxo, payout>>
    BY <1>1, <1>3 DEF SignCommit, nodeVars
  <2>2. UNCHANGED order \/ Transition(proc[i].order, "PAYOUT_QUEUED", "MANUAL_REVIEW")
    BY <1>3 DEF SignCommit
  <2> QED BY <1>1, <2>1, <2>2, PooledEnd
<1> QED BY <1>2, <1>3

(* Nothing of the withdrawals changes, and refunds keep what they name. *)
LEMMA PooledRefunds ==
  ASSUME PooledInv, NodeStep, refusals' = 0, UNCHANGED <<utxo, order, payout>>,
         DOMAIN proc' = Instances,
         \A j \in Instances : proc'[j] = proc[j] \/ PooledJob(proc'[j]),
         refund' \in [Refunds -> [status : RefundStatus, address : BOOLEAN,
                                  alerted : BOOLEAN, tx : Nat]],
         \A r \in Refunds : /\ refund'[r].tx = refund[r].tx
                            /\ refund'[r].status = "signed" =>
                                 refund[r].status = "signed" \/ refund[r].tx # 0
  PROVE  PooledInv'
<1>1. UNCHANGED txs /\ NodeTypeOK' /\ NodeInv'
  BY DEF NodeStep
<1>2. /\ PoolType' /\ \A k \in Signed : Bound(k)'
  BY <1>1, SamePool DEF PooledInv, PoolType
<1>3. \A o \in Orders : HeldBy(o)' \subseteq HeldBy(o)
  BY <1>1, SamePool
<1>4. \A r \in Refunds : PooledRefund(r)'
  BY <1>1, SameSigned DEF PooledInv, PooledRefund
<1>5. PooledRows'
  BY DEF PooledInv, PooledRows
<1>6. /\ \A o \in Orders : payout'[o].txid \in {payout[o].txid} \cup SignedFor(o)
      /\ \A o \in Orders : order'[o] = "PAYOUT_SIGNED" => HasTx(o)
  BY DEF PooledInv, PooledOrder
<1> QED BY <1>1, <1>2, <1>3, <1>4, <1>5, <1>6, PooledCalm

(* A row gets another status, address or mark. *)
LEMMA PooledRow ==
  ASSUME PooledInv, UNCHANGED nodeVars, UNCHANGED <<utxo, order, payout>>,
         proc' = proc \/ \E i \in Instances : Done(i),
         NEW r \in Refunds, NEW row, refund' = [refund EXCEPT ![r] = row],
         row \in [status : RefundStatus, address : BOOLEAN, alerted : BOOLEAN, tx : Nat],
         row.tx = refund[r].tx,
         row.status = "signed" => refund[r].status = "signed" \/ refund[r].tx # 0
  PROVE  PooledInv'
<1>1. DOMAIN proc' = Instances /\ \A j \in Instances : proc'[j] = proc[j] \/ proc'[j] = Idle
  BY DEF Done, Proceed, PooledInv
<1>2. \A j \in Instances : proc'[j] = proc[j] \/ PooledJob(proc'[j])
  BY <1>1, PooledIdle
<1>3. /\ refund' \in [Refunds -> [status : RefundStatus, address : BOOLEAN,
                                  alerted : BOOLEAN, tx : Nat]]
      /\ \A q \in Refunds : refund'[q] = IF q = r THEN row ELSE refund[q]
  BY DEF PooledInv, PooledRows
<1> QED BY <1>1, <1>2, <1>3, PooledQuiet, PooledRefunds

LEMMA PooledMove ==
  ASSUME PooledInv, UNCHANGED nodeVars, UNCHANGED <<utxo, order, payout>>,
         proc' = proc \/ \E i \in Instances : Done(i),
         NEW r \in Refunds, NEW from, NEW to \in {"needs_attention", "too_small", "confirmed"},
         Move(r, from, to)
  PROVE  PooledInv'
<1> DEFINE row == IF refund[r].status = from THEN [refund[r] EXCEPT !.status = to] ELSE refund[r]
<1>1. refund[r] \in [status : RefundStatus, address : BOOLEAN, alerted : BOOLEAN, tx : Nat]
  BY DEF PooledInv, PooledRows
<1>2. /\ row \in [status : RefundStatus, address : BOOLEAN, alerted : BOOLEAN, tx : Nat]
      /\ row.tx = refund[r].tx /\ (row.status = "signed" => refund[r].status = "signed")
  BY <1>1 DEF RefundStatus
<1>3. refund' = [refund EXCEPT ![r] = row]
  BY DEF Move, PooledInv, PooledRows
<1> HIDE DEF row
<1> QED BY <1>2, <1>3, PooledRow

LEMMA PooledRefundRows ==
  ASSUME PooledInv, NEW r \in Refunds,
         \/ \E i \in Instances : \/ ResolveSender(i, r) \/ AnnounceSplit(i, r)
                                 \/ ParkUnbuilt(i, r) \/ ConfirmRefund(i, r)
         \/ RetryRefund(r) \/ ResetRefund(r)
  PROVE  PooledInv'
<1>1. UNCHANGED nodeVars /\ UNCHANGED <<utxo, order, payout, proc>>
  BY DEF ResolveSender, AnnounceSplit, ParkUnbuilt, ConfirmRefund, RetryRefund, ResetRefund,
         vars, payoutVars
<1>2. /\ refund[r] \in [status : RefundStatus, address : BOOLEAN, alerted : BOOLEAN, tx : Nat]
      /\ refund \in [Refunds -> [status : RefundStatus, address : BOOLEAN, alerted : BOOLEAN, tx : Nat]]
  BY DEF PooledInv, PooledRows
<1>3. ASSUME NEW from, NEW to \in {"needs_attention", "too_small", "confirmed"}, Move(r, from, to)
      PROVE  PooledInv'
  BY <1>1, <1>3, PooledMove
<1>4. ASSUME NEW row, refund' = [refund EXCEPT ![r] = row],
             row \in [status : RefundStatus, address : BOOLEAN, alerted : BOOLEAN, tx : Nat],
             row.tx = refund[r].tx,
             row.status = "signed" => refund[r].status = "signed" \/ refund[r].tx # 0
      PROVE  PooledInv'
  BY <1>1, <1>4, PooledRow
<1>5. CASE \E i \in Instances : ResolveSender(i, r)
  <2>1. CASE refund' = [refund EXCEPT ![r].address = TRUE]
    <3> DEFINE row == [refund[r] EXCEPT !.address = TRUE]
    <3>1. /\ row \in [status : RefundStatus, address : BOOLEAN, alerted : BOOLEAN, tx : Nat]
          /\ row.tx = refund[r].tx /\ row.status = refund[r].status
          /\ refund' = [refund EXCEPT ![r] = row]
      BY <1>2, <2>1
    <3> HIDE DEF row
    <3> QED BY <1>4, <3>1
  <2> QED BY <1>3, <1>5, <2>1 DEF ResolveSender
<1>6. CASE \E i \in Instances : AnnounceSplit(i, r)
  <2> DEFINE row == [refund[r] EXCEPT !.alerted = TRUE]
  <2>1. /\ row \in [status : RefundStatus, address : BOOLEAN, alerted : BOOLEAN, tx : Nat]
        /\ row.tx = refund[r].tx /\ row.status = refund[r].status
        /\ refund' = [refund EXCEPT ![r] = row]
    BY <1>2, <1>6 DEF AnnounceSplit
  <2> HIDE DEF row
  <2> QED BY <1>4, <2>1
<1>7. CASE RetryRefund(r)
  <2> DEFINE to == IF refund[r].tx # 0 THEN "signed" ELSE "queued"
             row == [refund[r] EXCEPT !.status = to, !.address = TRUE]
  <2>1. /\ row \in [status : RefundStatus, address : BOOLEAN, alerted : BOOLEAN, tx : Nat]
        /\ row.tx = refund[r].tx /\ row.status = to
    BY <1>2 DEF RefundStatus
  <2>2. refund' = [refund EXCEPT ![r] = row]
    BY <1>2, <1>7 DEF RetryRefund
  <2> HIDE DEF row
  <2> QED BY <1>4, <2>1, <2>2
<1>8. CASE ResetRefund(r)
  <2> DEFINE row == [refund[r] EXCEPT !.status = "queued"]
  <2>1. /\ row \in [status : RefundStatus, address : BOOLEAN, alerted : BOOLEAN, tx : Nat]
        /\ row.tx = refund[r].tx /\ row.status = "queued"
        /\ refund' = [refund EXCEPT ![r] = row]
    BY <1>2, <1>8 DEF ResetRefund, RefundStatus
  <2> HIDE DEF row
  <2> QED BY <1>4, <2>1
<1>9. CASE \E i \in Instances : ParkUnbuilt(i, r) \/ ConfirmRefund(i, r)
  BY <1>3, <1>9 DEF ParkUnbuilt, ConfirmRefund
<1> QED BY <1>5, <1>6, <1>7, <1>8, <1>9

LEMMA PooledRefundReads ==
  ASSUME PooledInv, NEW i \in Instances, NEW r \in Refunds,
         BuildRefund(i, r) \/ ReadSignedRefund(i, r)
  PROVE  PooledInv'
<1>1. UNCHANGED nodeVars /\ UNCHANGED <<utxo, payout, refund, order>> /\ PooledRefund(r)
  BY DEF BuildRefund, ReadSignedRefund, payoutVars, refundVars, PooledInv
<1>2. ASSUME NEW S, Proceed(i, [pc |-> "refund_sign", refund |-> r, inputs |-> S])
      PROVE  PooledInv'
  <2> DEFINE p == [pc |-> "refund_sign", refund |-> r, inputs |-> S]
  <2>1. PooledJob(p) /\ Proceed(i, p)
    BY <1>2 DEF PooledJob, Steps, Sending
  <2> HIDE DEF p
  <2> QED BY <1>1, <2>1, PooledGoesOn
<1>3. CASE ReadSignedRefund(i, r)
  <2> DEFINE p == [pc |-> "refund_send", refund |-> r, tx |-> refund[r].tx]
  <2>1. refund[r].tx \in SignedFor(r) /\ Proceed(i, p)
    BY <1>1, <1>3 DEF ReadSignedRefund, PooledRefund
  <2>2. PooledJob(p)
    BY <2>1 DEF PooledJob, Steps, Sending
  <2> HIDE DEF p
  <2> QED BY <1>1, <2>1, <2>2, PooledGoesOn
<1> QED BY <1>2, <1>3 DEF BuildRefund

LEMMA PooledSendRefund ==
  ASSUME MaxRefusals = 0, PooledInv, NEW i \in Instances, SendRefund(i)
  PROVE  PooledInv'
<1> DEFINE k == proc[i].tx
<1>1. /\ proc[i].refund \in Refunds /\ k \in SignedFor(proc[i].refund) /\ k \in Signed
      /\ proc[i].pc = "refund_send" /\ UNCHANGED <<utxo, order, payout, refund>>
  BY DEF SendRefund, PooledInv, PooledJob, RefundSteps, SignedFor, payoutVars, refundVars
<1>2. ASSUME NEW answer, Answer(k, answer), NEW pc \in {"refund_record", "refund_park"},
             Proceed(i, [proc[i] EXCEPT !.pc = pc])
      PROVE  PooledInv'
  <2> DEFINE p == [proc[i] EXCEPT !.pc = pc]
  <2>1. p.pc = pc /\ p.refund = proc[i].refund /\ p.tx = proc[i].tx /\ Proceed(i, p)
    BY <1>1, <1>2
  <2> HIDE DEF p
  <2>2. PooledJob(p)
    BY <1>1, <2>1 DEF PooledJob, Steps, Sending
  <2> QED BY <1>1, <1>2, <2>1, <2>2, PooledAnswer, PooledStays, PooledStep
<1>3. CASE AnswerLost(k) /\ Done(i)
  BY <1>1, <1>3, PooledLost, PooledIdle, PooledStays, PooledStep DEF Done
<1> QED BY <1>2, <1>3 DEF SendRefund

LEMMA PooledRecordRefund ==
  ASSUME PooledInv, NEW i \in Instances, RecordRefund(i)
  PROVE  PooledInv'
<1> DEFINE r == proc[i].refund
           k == proc[i].tx
<1>1. /\ r \in Refunds /\ k \in SignedFor(r) /\ k \in Nat \ {0}
      /\ UNCHANGED nodeVars /\ UNCHANGED <<order, payout>> /\ Done(i)
  BY DEF RecordRefund, PooledInv, PooledJob, RefundSteps, payoutVars, SignedFor, Signed
<1>2. CASE refund[r].status # "signed"
  BY <1>1, <1>2, PooledEnd DEF RecordRefund
<1>3. CASE refund[r].status = "signed"
  <2>1. /\ refund' = [refund EXCEPT ![r].status = "broadcast", ![r].tx = k]
        /\ utxo' = Spend(r, {}, k) /\ UNCHANGED txs
    BY <1>1, <1>3 DEF RecordRefund, nodeVars
  <2>2. NodeStep /\ refusals' = 0 /\ NodeTypeOK' /\ NodeInv'
    BY <1>1, PooledQuiet DEF NodeStep
  <2>3. /\ PoolType' /\ \A j \in Signed : Bound(j)'
        /\ \A o \in Orders : HeldBy(o)' \subseteq HeldBy(o)
    BY <1>1, <2>1, PooledSpend, RefundAssumption
  <2>4. DOMAIN proc' = Instances /\ \A j \in Instances : proc'[j] = proc[j] \/ proc'[j] = Idle
    BY <1>1 DEF Done, Proceed, PooledInv
  <2>5. \A j \in Instances : proc'[j] = proc[j] \/ PooledJob(proc'[j])
    BY <2>4, PooledIdle
  <2>6. PooledRows'
    BY <1>1, <2>1 DEF PooledInv, PooledRows, RefundStatus
  <2>7. ASSUME NEW q \in Refunds PROVE PooledRefund(q)'
    <3>1. PooledRefund(q) /\ SignedFor(q)' = SignedFor(q)
      BY <2>1, SameSigned DEF PooledInv
    <3>2. refund'[q] = IF q = r THEN [refund[r] EXCEPT !.status = "broadcast", !.tx = k] ELSE refund[q]
      BY <2>1 DEF PooledInv, PooledRows
    <3>3. refund[r] \in [status : RefundStatus, address : BOOLEAN, alerted : BOOLEAN, tx : Nat]
      BY <1>1 DEF PooledInv, PooledRows
    <3> QED BY <1>1, <3>1, <3>2, <3>3 DEF PooledRefund
  <2>8. /\ \A o \in Orders : order'[o] = "PAYOUT_SIGNED" => HasTx(o)
        /\ \A o \in Orders : payout'[o].txid \in {payout[o].txid} \cup SignedFor(o)
    BY <1>1 DEF PooledInv, PooledOrder
  <2> QED BY <2>1, <2>2, <2>3, <2>4, <2>5, <2>6, <2>7, <2>8, PooledCalm
<1> QED BY <1>2, <1>3

LEMMA PooledSignRefund ==
  ASSUME PooledInv, NEW i \in Instances, SignRefund(i)
  PROVE  PooledInv'
<1>1. /\ proc[i].refund \in Refunds /\ Done(i) /\ Len(txs) < MaxTxs
      /\ UNCHANGED <<order, payout, node, relayed, copied, inflight, refusals, forgets>>
  BY DEF SignRefund, PooledInv, PooledJob, RefundSteps, payoutVars
<1>2. CASE RefundSignable(proc[i])
  <2>1. PICK q \in Refunds, S \in SUBSET Available : q = proc[i].refund /\ S = proc[i].inputs
    BY <1>1, <1>2 DEF RefundSignable
  <2> DEFINE row == [refund[q] EXCEPT !.status = "signed", !.tx = Len(txs) + 1]
  <2>2. SignStep(q, S) /\ utxo' = Reserve(S, q)
    BY <1>2, <2>1 DEF SignRefund, SignStep
  <2>3. refund \in [Refunds -> [status : RefundStatus, address : BOOLEAN, alerted : BOOLEAN, tx : Nat]]
    BY DEF PooledInv, PooledRows
  <2>4. refund' = [refund EXCEPT ![q] = row]
    BY <1>2, <2>1, <2>3 DEF SignRefund
  <2>5. Len(txs) + 1 \in Nat
    BY SignedFacts DEF PooledInv
  <2>6. /\ row \in [status : RefundStatus, address : BOOLEAN, alerted : BOOLEAN, tx : Nat]
        /\ row.tx = Len(txs) + 1
    BY <2>3, <2>5 DEF RefundStatus
  <2> HIDE DEF row
  <2>7. PooledRows'
    BY <1>1, <2>3, <2>4, <2>6 DEF PooledInv, PooledRows
  <2>8. \A r \in Refunds : \/ refund'[r] = refund[r]
                           \/ r = q /\ refund'[r].tx = Len(txs) + 1
    BY <2>3, <2>4, <2>6
  <2>9. q \in Payers
    BY RefundAssumption
  <2> QED BY <1>1, <2>2, <2>7, <2>8, <2>9, PooledSigned
<1>3. CASE ~RefundSignable(proc[i])
  BY <1>1, <1>3, PooledEnd DEF SignRefund, nodeVars
<1> QED BY <1>2, <1>3

LEMMA PooledParkRefused ==
  ASSUME PooledInv, NEW i \in Instances, ParkRefused(i)
  PROVE  PooledInv'
<1>1. /\ proc[i].refund \in Refunds /\ Move(proc[i].refund, "signed", "needs_attention") /\ Done(i)
      /\ UNCHANGED nodeVars /\ UNCHANGED <<utxo, order, payout>>
  BY DEF ParkRefused, PooledInv, PooledJob, RefundSteps, payoutVars
<1> QED BY <1>1, PooledMove

LEMMA PooledOutside ==
  ASSUME PooledInv, UNCHANGED refundVars, Network \/ \E o \in Orders : Requeue(o)
  PROVE  PooledInv'
<1>1. UNCHANGED <<utxo, payout, refund, proc>>
  BY DEF Network, Requeue, payoutVars, refundVars
<1>2. NodeStep /\ refusals' = 0
  <2>1. CASE Network
    <3>1. NodeNext /\ NodeTypeOK /\ NodeInv
      BY <2>1 DEF Network, PooledInv
    <3>2. refusals' = refusals
      BY <3>1 DEF NodeNext, Deliver, Mine, Bury, Forget, Copy
    <3> QED BY <3>1, <3>2, NetworkStep DEF PooledInv
  <2>2. CASE \E o \in Orders : Requeue(o)
    BY <2>2, PooledQuiet DEF Requeue
  <2> QED BY <2>1, <2>2
<1>3. /\ order' \in [Orders -> OrderStates]
      /\ \A q \in Orders : order'[q] = "PAYOUT_SIGNED" => HasTx(q)
  <2>1. CASE Network
    BY <2>1, PooledStays DEF Network, payoutVars
  <2>2. ASSUME NEW o \in Orders, Requeue(o) PROVE order' = [order EXCEPT ![o] = "PAYOUT_QUEUED"]
    BY <2>2 DEF Requeue
  <2> QED BY <2>1, <2>2, PooledMoves DEF OrderStates
<1>4. UNCHANGED txs /\ NodeTypeOK' /\ NodeInv'
  BY <1>2 DEF NodeStep
<1>5. PoolType' /\ \A k \in Signed : Bound(k)'
  BY <1>1, <1>4, SamePool DEF PooledInv, PoolType
<1>6. \A o \in Orders : HeldBy(o)' \subseteq HeldBy(o)
  BY <1>1, <1>4, SamePool
<1>7. \A r \in Refunds : PooledRefund(r)'
  BY <1>1, <1>4, SameSigned DEF PooledInv, PooledRefund
<1>8. PooledRows' /\ DOMAIN proc' = Instances
  BY <1>1, <1>3 DEF PooledInv, PooledRows
<1> QED BY <1>1, <1>2, <1>3, <1>4, <1>5, <1>6, <1>7, <1>8, PooledCalm

LEMMA PooledKeeps ==
  ASSUME MaxRefusals = 0, PooledInv, [BridgeNext]_bridgeVars
  PROVE  PooledInv'
<1>1. ASSUME NEW i \in Instances, Work(i) \/ Crash(i), UNCHANGED refundVars PROVE PooledInv'
  <2>1. ~ParkAndRelease(i)
    BY DEF ParkAndRelease, PooledInv, PooledJob
  <2> QED BY <1>1, <2>1, PooledRetry, PooledCommit, PooledSending, PooledQueued, PooledSignCommit DEF Work
<1>2. ASSUME NEW i \in Instances, NEW o \in Orders, Begin(i, o), UNCHANGED refundVars PROVE PooledInv'
  BY <1>2, PooledBegin DEF Begin
<1>3. ASSUME NEW i \in Instances, RefundWork(i) PROVE PooledInv'
  BY <1>3, PooledSignRefund, PooledSendRefund, PooledRecordRefund, PooledParkRefused DEF RefundWork
<1>4. ASSUME NEW i \in Instances, NEW r \in Refunds, BeginRefund(i, r) PROVE PooledInv'
  BY <1>4, PooledRefundRows, PooledRefundReads DEF BeginRefund
<1>5. ASSUME NEW r \in Refunds, RetryRefund(r) \/ ResetRefund(r) PROVE PooledInv'
  BY <1>5, PooledRefundRows
<1>6. CASE UNCHANGED bridgeVars
  <2>1. UNCHANGED nodeVars /\ UNCHANGED <<utxo, order, payout, proc, refund>>
    BY <1>6 DEF bridgeVars, vars, payoutVars, refundVars
  <2>2. NodeStep /\ refusals' = 0
    BY <2>1, PooledQuiet
  <2> QED BY <2>1, <2>2, PooledRefunds DEF PooledInv, PooledRows
<1> QED BY <1>1, <1>2, <1>3, <1>4, <1>5, <1>6, PooledOutside DEF BridgeNext, Next

LEMMA PooledInit == BridgeInit => PooledInv
<1> SUFFICES ASSUME BridgeInit PROVE PooledInv
  OBVIOUS
<1>1. /\ txs = << >> /\ refusals = 0 /\ proc = [i \in Instances |-> Idle]
      /\ utxo = [c \in Outputs |-> [status |-> IF c \in Coins THEN "available" ELSE "absent", by |-> {}]]
      /\ order = [o \in Orders |-> "PAYOUT_QUEUED"]
      /\ payout = [o \in Orders |-> [row |-> FALSE, txid |-> 0, retried |-> FALSE]]
      /\ refund = [r \in Refunds |-> [status |-> "queued", address |-> FALSE, alerted |-> FALSE, tx |-> 0]]
  BY DEF BridgeInit, Init, WalletInit, NodeInit, PayoutInit
<1>2. NodeTypeOK /\ NodeInv /\ PoolType
  BY BridgeInvInit, InvParts DEF Parts, Rest
<1>3. Signed = {} /\ \A o : HeldBy(o) = {}
  BY <1>1 DEF Signed, HeldBy
<1>4. PooledRows /\ (\A o \in Orders : PooledOrder(o)) /\ (\A r \in Refunds : PooledRefund(r))
  BY <1>1, <1>3 DEF PooledRows, PooledOrder, PooledRefund, OrderStates, RefundStatus
<1> QED BY <1>1, <1>2, <1>3, <1>4, PooledIdle DEF PooledInv

(* With any number of backends, as long as the node refuses nothing for    *)
(* policy and so nothing is released, every transaction ever signed keeps  *)
(* the coins it spends.                                                    *)
THEOREM PooledInvariant ==
  ASSUME MaxRefusals = 0
  PROVE  BridgeSpec => []PooledInv
<1>1. PooledInv /\ [BridgeNext]_bridgeVars => PooledInv'
  BY PooledKeeps
<1> QED BY <1>1, PooledInit, PTL DEF BridgeSpec

(* payout-executor.ts:147: a payout and a refund that two backends select  *)
(* from the same coins never both get them.                                *)
THEOREM NoCoinTwice ==
  ASSUME MaxRefusals = 0
  PROVE  BridgeSpec => []NoCoinForTwo
<1>1. ASSUME PooledInv PROVE NoCoinForTwo
  <2>1. ASSUME NEW j \in Out, NEW k \in Out, NEW c \in Inputs(j) \cap Inputs(k)
        PROVE  txs[j].payer = txs[k].payer
    <3>1. Bound(j) /\ Bound(k)
      BY <1>1, <2>1, SignedFacts DEF PooledInv
    <3>2. {txs[j].payer} = {txs[k].payer}
      BY <2>1, <3>1 DEF Bound
    <3> QED BY <3>2
  <2> QED BY <2>1 DEF NoCoinForTwo, Out
<1> QED BY <1>1, PooledInvariant, PTL

-------------------------------------------------------------------------------
(* The payout executor, beside the refund executor, follows the table of   *)
(* transitions with any number of instances, coins, withdrawals, refunds,  *)
(* faults and operator retries.                                            *)

Table == Lifecycle!OUTBOUND_TRANSITIONS

OrdersTyped == order \in [Orders -> Lifecycle!OutboundState]

Step == [\E o \in Orders : Lifecycle!Move(Table, o)]_order

LEMMA Edges ==
  /\ {"PAYOUT_SIGNED", "MANUAL_REVIEW"} \subseteq Table["PAYOUT_QUEUED"]
  /\ {"PAYOUT_BROADCAST", "MANUAL_REVIEW"} \subseteq Table["PAYOUT_SIGNED"]
  /\ {"PAYOUT_CONFIRMED", "MANUAL_REVIEW"} \subseteq Table["PAYOUT_BROADCAST"]
  /\ "COMPLETED" \in Table["PAYOUT_CONFIRMED"]
  /\ "PAYOUT_QUEUED" \in Table["MANUAL_REVIEW"]
BY DEF Table, Lifecycle!OUTBOUND_TRANSITIONS, Lifecycle!OutboundState

LEMMA EdgeStep ==
  ASSUME OrdersTyped, NEW o, NEW to, to \in Table[order[o]], order' = [order EXCEPT ![o] = to]
  PROVE  Step
<1>1. CASE o \in Orders
  BY <1>1 DEF Step, Lifecycle!Move
<1>2. CASE o \notin Orders
  BY <1>2 DEF Step, OrdersTyped
<1> QED BY <1>1, <1>2

LEMMA TransitionStep ==
  ASSUME OrdersTyped, NEW o, NEW from, NEW to, to \in Table[from], Transition(o, from, to)
  PROVE  Step
<1>1. CASE order[o] = from
  BY <1>1, EdgeStep DEF Transition
<1>2. CASE order[o] # from
  BY <1>2 DEF Transition, Step
<1> QED BY <1>1, <1>2

LEMMA SameStep ==
  ASSUME UNCHANGED order
  PROVE  Step
BY DEF Step

-------------------------------------------------------------------------------
LEMMA BeginStep ==
  ASSUME OrdersTyped, NEW i \in Instances, NEW o \in Orders, Begin(i, o)
  PROVE  Step
<1>1. CASE Confirm(i, o)
  BY <1>1, Edges, EdgeStep DEF Confirm
<1>2. CASE ReadQueued(i, o) \/ ReadSigned(i, o) \/ FindForgotten(i, o)
  <2>1. UNCHANGED payoutVars
    BY <1>2 DEF ReadQueued, ReadSigned, FindForgotten
  <2>2. UNCHANGED order
    BY <2>1 DEF payoutVars
  <2> QED BY <2>2, SameStep
<1> QED BY <1>1, <1>2, Zenon DEF Begin

LEMMA WorkStep ==
  ASSUME OrdersTyped, NEW i \in Instances, Work(i)
  PROVE  Step
<1>1. CASE ParkUnpayable(i)
  BY <1>1, Edges, TransitionStep DEF ParkUnpayable
<1>2. CASE RetrySameTx(i)
  <2>1. \/ UNCHANGED order
        \/ /\ order[proc[i].order] = "PAYOUT_QUEUED"
           /\ order' = [order EXCEPT ![proc[i].order] = "PAYOUT_SIGNED"]
    BY <1>2, Zenon DEF RetrySameTx
  <2>2. "PAYOUT_SIGNED" \in Table["PAYOUT_QUEUED"]
    BY Edges
  <2> QED BY <2>1, <2>2, EdgeStep, SameStep
<1>3. CASE CheckUnpaid(i)
  BY <1>3, Edges, TransitionStep, SameStep DEF CheckUnpaid
<1>4. CASE SelectInputs(i)
  BY <1>4, Edges, TransitionStep, SameStep DEF SelectInputs
<1>5. CASE SignCommit(i)
  <2>1. CASE Signable(proc[i])
    BY <1>5, <2>1, Edges, EdgeStep DEF SignCommit, Signable
  <2>2. CASE ~Signable(proc[i])
    BY <1>5, <2>2, Edges, TransitionStep, SameStep DEF SignCommit
  <2> QED BY <2>1, <2>2
<1>6. CASE RecordAttempt(i) \/ Send(i) \/ LookUp(i)
  BY <1>6, SameStep DEF RecordAttempt, Send, LookUp, payoutVars
<1>7. CASE Commit(i)
  BY <1>7, Edges, TransitionStep DEF Commit
<1>8. CASE ParkAndRelease(i) \/ ParkHeld(i)
  BY <1>8, Edges, TransitionStep DEF ParkAndRelease, ParkHeld
<1>9. CASE Complete(i)
  BY <1>9, Edges, TransitionStep DEF Complete
<1>10. CASE Resend(i)
  <2>1. UNCHANGED order \/ Transition(proc[i].order, "PAYOUT_BROADCAST", "MANUAL_REVIEW")
    BY <1>10 DEF Resend
  <2> QED BY <2>1, Edges, TransitionStep, SameStep
<1> QED BY <1>1, <1>2, <1>3, <1>4, <1>5, <1>6, <1>7, <1>8, <1>9, <1>10 DEF Work

LEMMA PayoutStep ==
  ASSUME OrdersTyped, [Next]_vars
  PROVE  Step
<1>1. ASSUME NEW i \in Instances, Crash(i) PROVE Step
  BY <1>1, SameStep DEF Crash, payoutVars
<1>2. ASSUME NEW o \in Orders, Requeue(o) PROVE Step
  BY <1>2, Edges, EdgeStep DEF Requeue
<1>3. CASE Network \/ UNCHANGED vars
  BY <1>3, SameStep DEF Network, vars, payoutVars
<1> QED BY <1>1, <1>2, <1>3, BeginStep, WorkStep DEF Next

LEMMA BridgeStep ==
  ASSUME OrdersTyped, [BridgeNext]_bridgeVars
  PROVE  Step
<1>1. CASE Next /\ UNCHANGED refundVars
  BY <1>1, PayoutStep
<1>2. ASSUME NEW i \in Instances, RefundWork(i) PROVE Step
  BY <1>2, SameStep DEF RefundWork, SignRefund, SendRefund, RecordRefund, ParkRefused, payoutVars
<1>3. ASSUME NEW i \in Instances, NEW r \in Refunds, BeginRefund(i, r) PROVE Step
  BY <1>3, SameStep DEF BeginRefund, ResolveSender, AnnounceSplit, BuildRefund, ParkUnbuilt,
     ReadSignedRefund, ConfirmRefund, vars, payoutVars
<1>4. ASSUME NEW r \in Refunds, RetryRefund(r) \/ ResetRefund(r) PROVE Step
  BY <1>4, SameStep DEF RetryRefund, ResetRefund, vars, payoutVars
<1>5. CASE UNCHANGED bridgeVars
  BY <1>5, SameStep DEF bridgeVars, vars, payoutVars
<1> QED BY <1>1, <1>2, <1>3, <1>4, <1>5 DEF BridgeNext

LEMMA TypedNext ==
  ASSUME OrdersTyped, Step
  PROVE  OrdersTyped'
<1>1. ASSUME NEW o \in Orders PROVE Table[order[o]] \subseteq Lifecycle!OutboundState
  BY DEF OrdersTyped, Table, Lifecycle!OUTBOUND_TRANSITIONS, Lifecycle!OutboundState
<1> QED BY <1>1 DEF OrdersTyped, Step, Lifecycle!Move

(* A withdrawal never leaves the table of transitions, with whatever other *)
(* instances, refunds, lost answers and operators it shares the loop.      *)
THEOREM PayoutFollowsTransitions == BridgeSpec => FollowsTransitions
<1>1. BridgeInit => OrdersTyped
  BY DEF BridgeInit, Init, PayoutInit, OrdersTyped, Lifecycle!OutboundState
<1>2. OrdersTyped /\ [BridgeNext]_bridgeVars => OrdersTyped'
  BY BridgeStep, TypedNext
<1>3. OrdersTyped /\ [BridgeNext]_bridgeVars =>
        [\E o \in Orders : Lifecycle!Move(Lifecycle!OUTBOUND_TRANSITIONS, o)]_order
  BY BridgeStep DEF Step, Table
<1> QED BY <1>1, <1>2, <1>3, PTL
     DEF BridgeSpec, FollowsTransitions, Lifecycle!OutboundSpec, OrdersTyped
===============================================================================
