---------------------------- MODULE DobbscoinNode ----------------------------
(***************************************************************************)
(* The Dobbscoin network as the bridge meets it through its own node       *)
(* (backend/src/dobbscoin/rpc.ts): sendrawtransaction and its refusals,    *)
(* lookups by txid, gettxout, eviction, blocks, reorganisations shallower  *)
(* than the confirmations the bridge waits for, and malleated copies.      *)
(*                                                                         *)
(* A signed transaction is its index in txs, which is also its txid, and   *)
(* also names its change output: recipient at vout 0, change at vout 1.    *)
(* The other outputs it may spend are the deposits, Coins.                 *)
(***************************************************************************)
EXTENDS Integers, Sequences, FiniteSets

CONSTANTS
  Coins,        \* deposit outputs of the bridge, confirmed
  Payers,       \* what transactions pay for: withdrawals and refunds
  MaxTxs,       \* bound: transactions signed
  MaxRefusals,  \* bound: refusals for policy (fee floor, dust, version)
  MaxForgets,   \* bound: evictions and reorganisations
  MaxCopies     \* bound: malleated copies that reach a block

TxIds == 1 .. MaxTxs

ASSUME NodeAssumption ==
  /\ IsFiniteSet(Coins) /\ IsFiniteSet(Payers)
  /\ {MaxTxs, MaxRefusals, MaxForgets, MaxCopies} \subseteq Nat
  /\ Coins \cap TxIds = {}

VARIABLES
  txs,       \* signed transactions: payer, inputs, whether there is change
  node,      \* node[k]: what our node says of k
  relayed,   \* transactions our node accepted once: peers may hold them
  copied,    \* transactions of which a malleated copy is in a block
  inflight,  \* sends whose answer was lost and may yet be processed
  refusals,  \* policy refusals so far
  forgets    \* evictions and reorganisations so far

nodeVars == <<txs, node, relayed, copied, inflight, refusals, forgets>>

-------------------------------------------------------------------------------
Outputs == Coins \cup TxIds

NodeInit ==
  /\ txs = << >>
  /\ node = [k \in TxIds |-> "unknown"]
  /\ relayed = {}
  /\ copied = {}
  /\ inflight = {}
  /\ refusals = 0
  /\ forgets = 0

Signed == 1 .. Len(txs)

Inputs(k) == txs[k].inputs

(* getrawtransaction and getrawmempool: -1, or only in a stale block, is   *)
(* unknown; deep is as many confirmations as the executors wait for.       *)
Holds(k) == node[k] # "unknown"

OnChain(k) == node[k] \in {"chain", "deep"}

(* Transactions that took effect, under their own txid or a copy's. *)
Settled == {k \in Signed : OnChain(k)} \cup copied

Taken(c) == \E k \in Settled : c \in Inputs(k)

Exists(c) == c \in Coins \cup {k \in Signed : Holds(k)}

(* gettxout with the mempool. *)
IsUnspent(c) ==
  /\ Exists(c) /\ ~Taken(c)
  /\ \A k \in Signed : node[k] = "mempool" => c \notin Inputs(k)

(* What leaves the mempool with the transactions in S: their descendants.  *)
WithDescendants(S) ==
  LET Closed(D) == \A k \in Signed : node[k] = "mempool" /\ Inputs(k) \cap D # {} => k \in D
  IN  {k \in TxIds : \A D \in SUBSET TxIds : S \subseteq D /\ Closed(D) => k \in D}

Rivals(k) == {j \in Signed : node[j] = "mempool" /\ j # k /\ Inputs(j) \cap Inputs(k) # {}}

-------------------------------------------------------------------------------
(* sendrawtransaction.                                                     *)

Accept(k) ==
  /\ node' = [node EXCEPT ![k] = IF Holds(k) THEN @ ELSE "mempool"]
  /\ relayed' = relayed \cup {k}

Spendable(k) == \A c \in Inputs(k) : Exists(c) /\ ~Taken(c)

(* What the node may answer to a send of k.  Version 0.14 returns the hash *)
(* of a mempool transaction again; of one in a block it says -27, or -25   *)
(* when its outputs are spent too.                                         *)
Answers(k) ==
  IF node[k] = "mempool" THEN {"ok"}
  ELSE IF OnChain(k) THEN {"inchain", "missing"}
  ELSE (IF refusals < MaxRefusals THEN {"refused"} ELSE {}) \cup
       (IF ~Spendable(k) THEN {"missing"}
        ELSE IF Rivals(k) # {} THEN {"conflict"} ELSE {"ok"})

(* The node answers a send of k. *)
Answer(k, answer) ==
  /\ answer \in Answers(k)
  /\ IF answer = "ok" THEN Accept(k) ELSE UNCHANGED <<node, relayed>>
  /\ refusals' = refusals + (IF answer = "refused" THEN 1 ELSE 0)
  /\ UNCHANGED <<txs, copied, inflight, forgets>>

(* The answer is lost: the send may have been, or may yet be, processed. *)
AnswerLost(k) ==
  /\ inflight' = inflight \cup {k}
  /\ UNCHANGED <<txs, node, relayed, copied, refusals, forgets>>

Deliver(k) ==
  /\ k \in inflight
  /\ inflight' = inflight \ {k}
  /\ IF "ok" \in Answers(k) THEN Accept(k) ELSE UNCHANGED <<node, relayed>>
  /\ UNCHANGED <<txs, copied, refusals, forgets>>

-------------------------------------------------------------------------------
(* Blocks, forgetting, copies.                                             *)

Mineable(k) ==
  /\ k \in relayed
  /\ k \notin Settled
  /\ Inputs(k) \subseteq Coins \cup {j \in Signed : OnChain(j)}
  /\ \A c \in Inputs(k) : ~Taken(c)

Dropped(S) == [k \in TxIds |-> IF k \in S THEN "unknown" ELSE node[k]]

Mine(k) ==
  /\ Mineable(k)
  /\ node' = [Dropped(WithDescendants(Rivals(k))) EXCEPT ![k] = "chain"]
  /\ UNCHANGED <<txs, relayed, copied, inflight, refusals, forgets>>

Bury(k) ==
  /\ node[k] = "chain"
  /\ Inputs(k) \subseteq Coins \cup {j \in Signed : node[j] = "deep"}
  /\ node' = [node EXCEPT ![k] = "deep"]
  /\ UNCHANGED <<txs, relayed, copied, inflight, refusals, forgets>>

(* Evicted, or its block was; not under a block built on it. *)
Forget(k) ==
  /\ forgets < MaxForgets
  /\ node[k] \in {"mempool", "chain"}
  /\ \A j \in Signed : OnChain(j) => k \notin Inputs(j)
  /\ node' = Dropped(WithDescendants({k}))
  /\ forgets' = forgets + 1
  /\ UNCHANGED <<txs, relayed, copied, inflight, refusals>>

(* A copy with another txid pays the recipient; our node never knows k. *)
Copy(k) ==
  /\ Cardinality(copied) < MaxCopies
  /\ Mineable(k)
  /\ copied' = copied \cup {k}
  /\ node' = Dropped(WithDescendants(Rivals(k) \cup {k}))
  /\ UNCHANGED <<txs, relayed, inflight, refusals, forgets>>

NodeNext == \E k \in Signed : Deliver(k) \/ Mine(k) \/ Bury(k) \/ Forget(k) \/ Copy(k)

-------------------------------------------------------------------------------
Transactions == [payer : Payers, inputs : SUBSET Outputs, change : BOOLEAN]

NodeTypeOK ==
  /\ txs \in Seq(Transactions) /\ Len(txs) <= MaxTxs
  /\ node \in [TxIds -> {"unknown", "mempool", "chain", "deep"}]
  /\ {relayed, copied, inflight} \subseteq SUBSET Signed
  /\ {refusals, forgets} \subseteq Nat

(* The transactions that paid p. *)
Payments(p) == {k \in Settled : txs[k].payer = p}
===============================================================================
