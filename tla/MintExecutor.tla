----------------------------- MODULE MintExecutor -----------------------------
(***************************************************************************)
(* The mint executor (backend/src/executor/mint-executor.ts): every job of *)
(* its poll loop, run by one or several backend instances against one      *)
(* database, the wBOB / BridgeController contracts and their clock.        *)
(*                                                                         *)
(* A database transaction is one step, except where the code reads the     *)
(* chain inside it: then the read and the commit are two steps and the     *)
(* locks the transaction holds guard the steps between them.  What an      *)
(* instance read and has yet to use is in proc[i]; a crash forgets it.     *)
(*                                                                         *)
(* The transactions the executor's account sends are the sequence txs, in  *)
(* nonce order, of which the first `mined' are in blocks; a tx hash is an  *)
(* index into txs and 0 is NULL.  "Mined at or before block b" is then     *)
(* hash <= b, with a block named by the number of transactions it has      *)
(* seen.  A dropped transaction is one that is never mined.                *)
(***************************************************************************)
EXTENDS MintCapacity, Sequences

CONSTANTS
  Orders,         \* inbound orders
  Deposit,        \* Deposit[o]: the amount deposited for o
  LegacyOrders,   \* orders whose mint request predates the cap split
  MintedBefore,   \* minted, of other deposits, on the day that is the first
  Instances,      \* backend processes running a MintExecutor
  MintDeadline,   \* config.mintDeadlineSeconds
  Margin,         \* DEADLINE_MARGIN_SECONDS
  MaxTime,        \* bound: the clock stops here
  MaxTxs,         \* bound: executeMint transactions sent
  MaxNonce,       \* bound: mintNonce bumps
  MaxFaults       \* bound: crashes and failed calls

ASSUME ExecutorAssumption ==
  /\ IsFiniteSet(Orders)
  /\ Deposit \in [Orders -> Nat \ {0}]
  /\ LegacyOrders \subseteq Orders
  /\ MintedBefore \in 0 .. DailyMintLimit
  /\ MintDeadline \in Nat /\ Margin \in Nat
  /\ MintDeadline > Margin
  /\ {MaxTime, MaxTxs, MaxNonce, MaxFaults} \subseteq Nat

VARIABLES
  order,    \* order[o]: bridge_orders.state
  req,      \* req[o]: the mint_requests row, amount 0 when there is none
  refund,   \* refund[o]: the deposit_refunds row, status "none" if absent
  pooled,   \* orders whose deposit is in bridge_utxos
  chain,    \* the contracts: minted, dayStart, supply, nonce
  minted,   \* minted[o]: wBOB minted for o's deposit (processedDeposits)
  txs,      \* executeMint transactions in the order sent
  mined,    \* how many of them are in a block
  now,      \* the clock, local and block.timestamp
  proc,     \* proc[i]: what instance i is in the middle of
  faults    \* crashes and failed calls so far

dbVars    == <<order, req, refund, pooled>>
chainVars == <<chain, minted, txs, mined>>
vars      == <<dbVars, chainVars, now, proc, faults>>

-------------------------------------------------------------------------------
States == {"DEPOSIT_FINALIZED", "MINT_AUTH_CREATED", "MINT_SUBMITTED",
           "MINT_CONFIRMED", "COMPLETED", "FAILED", "REFUNDED"}

NoRequest == [amount |-> 0, legacy |-> FALSE, deadline |-> 0, nonce |-> 0,
              signed |-> FALSE, hash |-> 0, error |-> "none"]

NoRefund == [excess |-> 0, status |-> "none"]

Idle == [pc |-> "idle"]

Init ==
  /\ order  = [o \in Orders |-> IF o \in LegacyOrders THEN "MINT_AUTH_CREATED"
                                                     ELSE "DEPOSIT_FINALIZED"]
  /\ req    = [o \in Orders |->
                 IF o \in LegacyOrders
                 THEN [NoRequest EXCEPT !.amount = Deposit[o], !.legacy = TRUE,
                                        !.deadline = MintDeadline]
                 ELSE NoRequest]
  /\ refund = [o \in Orders |-> NoRefund]
  /\ pooled = LegacyOrders
  /\ chain  = [minted |-> MintedBefore, dayStart |-> 0, supply |-> 0, nonce |-> 0]
  /\ minted = [o \in Orders |-> 0]
  /\ txs    = << >>
  /\ mined  = 0
  /\ now    = 0
  /\ proc   = [i \in Instances |-> Idle]
  /\ faults = 0

-------------------------------------------------------------------------------
(* The capacity decision.                                                  *)

(* readState: all five values at one block. *)
CapState == [minted |-> chain.minted, dayStart |-> chain.dayStart,
             supply |-> chain.supply, time |-> now, block |-> mined]

RequestAmount == [o \in Orders |-> req[o].amount]

(* The orders outstandingReservedSat counts against a state read at block. *)
Reserving(block) ==
  {o \in Orders : /\ order[o] \in {"MINT_AUTH_CREATED", "MINT_SUBMITTED"}
                  /\ ~(req[o].hash # 0 /\ req[o].hash <= block)}

(* As OutstandingReserved, but a mint that was sent no longer counts.      *)
OutstandingUnsent(block, excluded) ==
  TotalOf(RequestAmount, {o \in Orders : order[o] = "MINT_AUTH_CREATED"} \ excluded)

OutstandingReserved(block, excluded) ==
  TotalOf(RequestAmount, Reserving(block) \ excluded)

DecideSplit(cap, deposit, excluded) ==
  LET remaining == RemainingToday(cap, cap.time)
      reserved  == OutstandingReserved(cap.block, excluded)
  IN  SplitDeposit(deposit, AvailableCapacity(remaining, reserved))

RefundRow(excess) ==
  IF excess = 0 THEN NoRefund
  ELSE [excess |-> excess,
        status |-> IF IsRefundTooSmall(excess) THEN "too_small" ELSE "queued"]

-------------------------------------------------------------------------------
(* Locks held across a chain read: pg_advisory_xact_lock and FOR UPDATE.   *)

(* As CapacityLockFree, without the advisory lock.                         *)
NoLock == TRUE

CapacityLockFree == \A j \in Instances : proc[j].pc \notin {"create", "resplit"}

RowFree(o) ==
  \A j \in Instances : proc[j].pc \in {"create", "resplit"} => proc[j].order # o

(* _recordSubmitError: keep the text the selection of submitReadyMints and *)
(* the alerting tell apart.                                                *)
RecordError(o, text) == req' = [req EXCEPT ![o].error = text]

-------------------------------------------------------------------------------
(* createPendingAuths.  The nonce read before the loop is taken together   *)
(* with the lock; it can be stale by the commit either way.                *)

CreateLock(i, o) ==
  /\ proc[i].pc = "idle"
  /\ CapacityLockFree
  /\ order[o] = "DEPOSIT_FINALIZED"
  /\ req[o].amount = 0
  /\ proc' = [proc EXCEPT ![i] = [pc |-> "create", order |-> o,
                                  nonce |-> chain.nonce, cap |-> CapState]]
  /\ UNCHANGED <<dbVars, chainVars, now, faults>>

CreateCommit(i) ==
  /\ proc[i].pc = "create"
  /\ LET o     == proc[i].order
         split == DecideSplit(proc[i].cap, Deposit[o], {})
     IN  /\ req' = [req EXCEPT ![o] =
                      IF split.mint > 0
                      THEN [NoRequest EXCEPT !.amount = split.mint,
                                             !.deadline = now + MintDeadline,
                                             !.nonce = proc[i].nonce]
                      ELSE @]
         /\ order' = [order EXCEPT ![o] = IF split.mint > 0 THEN "MINT_AUTH_CREATED"
                                                            ELSE "REFUNDED"]
         /\ refund' = [refund EXCEPT ![o] = RefundRow(split.excess)]
         /\ pooled' = pooled \cup {o}
  /\ proc' = [proc EXCEPT ![i] = Idle]
  /\ UNCHANGED <<chainVars, now, faults>>

-------------------------------------------------------------------------------
(* regenerateExpiredAuths and _regenerate.                                 *)

Expired(o) == req[o].deadline <= now + Margin

(* As NeedsRegeneration, heeding the deadline and not the nonce.           *)
NeedsRegenerationByDeadline(o, nonce) ==
  order[o] = "MINT_AUTH_CREATED" /\ req[o].hash = 0 /\ Expired(o)

NeedsRegeneration(o, nonce) ==
  /\ order[o] = "MINT_AUTH_CREATED"
  /\ req[o].hash = 0
  /\ Expired(o) \/ req[o].nonce # nonce

(* Select a candidate, read processedDeposits; a deposit the chain already *)
(* minted is recorded as such and left to a human.                         *)
RegenSelect(i, o) ==
  /\ proc[i].pc = "idle"
  /\ NeedsRegeneration(o, chain.nonce)
  /\ IF minted[o] > 0
     THEN /\ RowFree(o)
          /\ RecordError(o, "AlreadyProcessed")
          /\ UNCHANGED proc
     ELSE /\ proc' = [proc EXCEPT ![i] =
                        [pc |-> "regen", order |-> o, nonce |-> chain.nonce,
                         legacy |-> req[o].legacy]]
          /\ UNCHANGED req
  /\ UNCHANGED <<order, refund, pooled, chainVars, now, faults>>

Reissued(row, from, nonce) ==
  [row EXCEPT !.deadline = from + MintDeadline, !.nonce = nonce,
              !.signed = FALSE, !.error = "none"]

(* The transaction of an ordinary row: recheck and reissue.                *)
RegenCommit(i) ==
  /\ proc[i].pc = "regen"
  /\ ~proc[i].legacy
  /\ LET o == proc[i].order
     IN  /\ RowFree(o)
         /\ req' = IF NeedsRegeneration(o, proc[i].nonce)
                   THEN [req EXCEPT ![o] = Reissued(@, now, proc[i].nonce)]
                   ELSE req
  /\ proc' = [proc EXCEPT ![i] = Idle]
  /\ UNCHANGED <<order, refund, pooled, chainVars, now, faults>>

(* The transaction of a row that was never split, up to its chain read.    *)
ResplitLock(i) ==
  /\ proc[i].pc = "regen"
  /\ proc[i].legacy
  /\ CapacityLockFree
  /\ proc' = [proc EXCEPT ![i] =
                IF NeedsRegeneration(proc[i].order, proc[i].nonce)
                THEN [pc |-> "resplit", order |-> proc[i].order,
                      nonce |-> proc[i].nonce, cap |-> CapState]
                ELSE Idle]
  /\ UNCHANGED <<dbVars, chainVars, now, faults>>

(* ... and from it: no capacity defers the row, some splits it for good.   *)
ResplitCommit(i) ==
  /\ proc[i].pc = "resplit"
  /\ LET o     == proc[i].order
         split == DecideSplit(proc[i].cap, Deposit[o], {o})
     IN  IF split.mint = 0
         THEN UNCHANGED <<req, refund>>
         ELSE /\ req' = [req EXCEPT ![o] =
                           [Reissued(@, proc[i].cap.time, proc[i].nonce)
                              EXCEPT !.amount = split.mint, !.legacy = FALSE]]
              /\ refund' = [refund EXCEPT ![o] =
                              IF @.status = "none" THEN RefundRow(split.excess) ELSE @]
  /\ proc' = [proc EXCEPT ![i] = Idle]
  /\ UNCHANGED <<order, pooled, chainVars, now, faults>>

-------------------------------------------------------------------------------
(* submitReadyMints and _submitOne.                                        *)

(* The watchers' part, detailed in SignatureCollection: enough signatures  *)
(* over the row as it stands.                                              *)
CollectSignatures(o) ==
  /\ order[o] = "MINT_AUTH_CREATED"
  /\ ~req[o].signed
  /\ RowFree(o)
  /\ req' = [req EXCEPT ![o].signed = TRUE]
  /\ UNCHANGED <<order, refund, pooled, chainVars, now, proc, faults>>

SubmitSelect(i, o) ==
  /\ proc[i].pc = "idle"
  /\ order[o] = "MINT_AUTH_CREATED"
  /\ req[o].signed
  /\ req[o].hash = 0
  /\ req[o].deadline > now + Margin
  /\ req[o].error # "AlreadyProcessed"
  /\ proc' = [proc EXCEPT ![i] =
                [pc |-> "simulate", order |-> o, amount |-> req[o].amount,
                 deadline |-> req[o].deadline, nonce |-> req[o].nonce]]
  /\ UNCHANGED <<dbVars, chainVars, now, faults>>

(* The reasons BridgeController.executeMint and WBob.mint refuse an        *)
(* authorization for; which one is reported first is the contract's.       *)
Refusals(auth) ==
  (IF now > auth.deadline THEN {"DeadlineExpired"} ELSE {}) \cup
  (IF auth.nonce # chain.nonce THEN {"WrongMintNonce"} ELSE {}) \cup
  (IF minted[auth.order] > 0 THEN {"AlreadyProcessed"} ELSE {}) \cup
  (IF MintedToday(CapState, now) + auth.amount > DailyMintLimit
   THEN {"ExceedsDailyMintLimit"} ELSE {}) \cup
  (IF MaxSupply > 0 /\ chain.supply + auth.amount > MaxSupply
   THEN {"ExceedsMaxSupply"} ELSE {})

RefusalNames == {"DeadlineExpired", "WrongMintNonce", "AlreadyProcessed",
                 "ExceedsDailyMintLimit", "ExceedsMaxSupply"}

Simulate(i) ==
  /\ proc[i].pc = "simulate"
  /\ IF Refusals(proc[i]) = {}
     THEN /\ proc' = [proc EXCEPT ![i] =
                        [pc |-> "send", order |-> @.order, amount |-> @.amount,
                         deadline |-> @.deadline, nonce |-> @.nonce]]
          /\ UNCHANGED req
     ELSE /\ RowFree(proc[i].order)
          /\ \E why \in Refusals(proc[i]) : RecordError(proc[i].order, why)
          /\ proc' = [proc EXCEPT ![i] = Idle]
  /\ UNCHANGED <<order, refund, pooled, chainVars, now, faults>>

(* writeContract: the transaction is out before anything is recorded.      *)
Send(i) ==
  /\ proc[i].pc = "send"
  /\ Len(txs) < MaxTxs
  /\ txs' = Append(txs, [order |-> proc[i].order, amount |-> proc[i].amount,
                         deadline |-> proc[i].deadline, nonce |-> proc[i].nonce,
                         outcome |-> "pending"])
  /\ proc' = [proc EXCEPT ![i] = [pc |-> "record", order |-> proc[i].order,
                                  tx |-> Len(txs) + 1]]
  /\ UNCHANGED <<dbVars, chain, minted, mined, now, faults>>

(* As RecordSubmission, whatever state the order is in by now.             *)
RecordAnyway(i) ==
  /\ proc[i].pc = "record"
  /\ RowFree(proc[i].order)
  /\ req' = [req EXCEPT ![proc[i].order].hash = proc[i].tx, ![proc[i].order].error = "none"]
  /\ order' = [order EXCEPT ![proc[i].order] = "MINT_SUBMITTED"]
  /\ proc' = [proc EXCEPT ![i] = Idle]
  /\ UNCHANGED <<refund, pooled, chainVars, now, faults>>

RecordSubmission(i) ==
  /\ proc[i].pc = "record"
  /\ LET o == proc[i].order
     IN  /\ RowFree(o)
         /\ IF order[o] = "MINT_AUTH_CREATED"
            THEN /\ req' = [req EXCEPT ![o].hash = proc[i].tx, ![o].error = "none"]
                 /\ order' = [order EXCEPT ![o] = "MINT_SUBMITTED"]
            ELSE UNCHANGED <<req, order>>
  /\ proc' = [proc EXCEPT ![i] = Idle]
  /\ UNCHANGED <<refund, pooled, chainVars, now, faults>>

(* A call of _submitOne throws: the RPC failed before or after the         *)
(* transaction went out, or the database did.  Only the text is kept.      *)
SubmitThrows(i) ==
  /\ proc[i].pc \in {"simulate", "send", "record"}
  /\ faults < MaxFaults
  /\ RowFree(proc[i].order)
  /\ RecordError(proc[i].order, "other")
  /\ proc' = [proc EXCEPT ![i] = Idle]
  /\ faults' = faults + 1
  /\ UNCHANGED <<order, refund, pooled, chainVars, now>>

-------------------------------------------------------------------------------
(* confirmSubmittedMints: two transactions, one per edge.                  *)

ConfirmMint(i, o) ==
  /\ proc[i].pc = "idle"
  /\ order[o] = "MINT_SUBMITTED"
  /\ req[o].hash \in 1 .. mined
  /\ IF txs[req[o].hash].outcome = "minted"
     THEN /\ order' = [order EXCEPT ![o] = "MINT_CONFIRMED"]
          /\ proc' = [proc EXCEPT ![i] = [pc |-> "complete", order |-> o]]
     ELSE /\ order' = [order EXCEPT ![o] = "FAILED"]
          /\ UNCHANGED proc
  /\ UNCHANGED <<req, refund, pooled, chainVars, now, faults>>

CompleteMint(i) ==
  /\ proc[i].pc = "complete"
  /\ order' = IF order[proc[i].order] = "MINT_CONFIRMED"
              THEN [order EXCEPT ![proc[i].order] = "COMPLETED"] ELSE order
  /\ proc' = [proc EXCEPT ![i] = Idle]
  /\ UNCHANGED <<req, refund, pooled, chainVars, now, faults>>

Crash(i) ==
  /\ proc[i].pc # "idle"
  /\ faults < MaxFaults
  /\ proc' = [proc EXCEPT ![i] = Idle]
  /\ faults' = faults + 1
  /\ UNCHANGED <<dbVars, chainVars, now>>

-------------------------------------------------------------------------------
(* The contracts and the clock.                                            *)

MineNext ==
  /\ mined < Len(txs)
  /\ mined' = mined + 1
  /\ LET tx == txs[mined + 1]
     IN  IF Refusals(tx) = {}
         THEN /\ txs' = [txs EXCEPT ![mined + 1].outcome = "minted"]
              /\ minted' = [minted EXCEPT ![tx.order] = tx.amount]
              /\ chain' = [chain EXCEPT
                             !.minted = MintedToday(CapState, now) + tx.amount,
                             !.dayStart = WindowStart(CapState, now),
                             !.supply = @ + tx.amount]
         ELSE /\ \E why \in Refusals(tx) :
                   txs' = [txs EXCEPT ![mined + 1].outcome = why]
              /\ UNCHANGED <<minted, chain>>
  /\ UNCHANGED <<dbVars, now, proc, faults>>

(* A burn gives supply back; it matters only under a supply cap.           *)
Burn ==
  /\ MaxSupply > 0
  /\ \E a \in 1 .. chain.supply : chain' = [chain EXCEPT !.supply = @ - a]
  /\ UNCHANGED <<dbVars, minted, txs, mined, now, proc, faults>>

BumpNonce ==
  /\ chain.nonce < MaxNonce
  /\ chain' = [chain EXCEPT !.nonce = @ + 1]
  /\ UNCHANGED <<dbVars, minted, txs, mined, now, proc, faults>>

Tick ==
  /\ now < MaxTime
  /\ now' = now + 1
  /\ UNCHANGED <<dbVars, chainVars, proc, faults>>

-------------------------------------------------------------------------------
Work(i) ==
  \/ CreateCommit(i)
  \/ RegenCommit(i)
  \/ ResplitLock(i)
  \/ ResplitCommit(i)
  \/ Simulate(i)
  \/ Send(i)
  \/ RecordSubmission(i)
  \/ CompleteMint(i)

Next ==
  \/ \E i \in Instances, o \in Orders :
       \/ CreateLock(i, o)
       \/ RegenSelect(i, o)
       \/ SubmitSelect(i, o)
       \/ ConfirmMint(i, o)
  \/ \E i \in Instances : Work(i) \/ SubmitThrows(i) \/ Crash(i)
  \/ \E o \in Orders : CollectSignatures(o)
  \/ MineNext \/ Burn \/ BumpNonce \/ Tick

Spec == Init /\ [][Next]_vars

(* Each poll runs every job over every eligible row, so a row that stays   *)
(* eligible is reached although the loop is busy with others in between:   *)
(* strong fairness per row.  A started job runs on, watchers poll, blocks  *)
(* are made, time passes: weak fairness.  Nothing is assumed of faults,    *)
(* nonce bumps or burns.                                                   *)
Fairness ==
  /\ \A i \in Instances : WF_vars(Work(i))
  /\ \A o \in Orders : WF_vars(CollectSignatures(o))
  /\ WF_vars(MineNext) /\ WF_vars(Tick)
  /\ \A i \in Instances, o \in Orders :
       /\ SF_vars(CreateLock(i, o))
       /\ SF_vars(RegenSelect(i, o))
       /\ SF_vars(SubmitSelect(i, o))
       /\ SF_vars(ConfirmMint(i, o))

FairSpec == Spec /\ Fairness

-------------------------------------------------------------------------------
(* Properties.                                                             *)

CapStates == [minted : Nat, dayStart : Nat, supply : Nat, time : Nat, block : Nat]

Steps == {"idle", "create", "regen", "resplit", "simulate", "send", "record", "complete"}

(* What an instance remembers at each step of a job. *)
ProcOK(p, sent) ==
  /\ p.pc \in Steps
  /\ p.pc # "idle" => p.order \in Orders
  /\ p.pc \in {"create", "resplit"} => p.nonce \in Nat /\ p.cap \in CapStates
  /\ p.pc = "regen" => p.nonce \in Nat /\ p.legacy \in BOOLEAN
  /\ p.pc \in {"simulate", "send"} => {p.amount, p.deadline, p.nonce} \subseteq Nat
  /\ p.pc = "record" => p.tx \in 1 .. sent

Requests == [amount : Nat, legacy : BOOLEAN, deadline : Nat, nonce : Nat,
             signed : BOOLEAN, hash : Nat,
             error : RefusalNames \cup {"none", "other"}]

Refunds == [excess : Nat, status : {"none", "queued", "too_small"}]

Transactions == [order : Orders, amount : Nat, deadline : Nat, nonce : Nat,
                 outcome : RefusalNames \cup {"pending", "minted"}]

DatabaseOK ==
  /\ order \in [Orders -> States]
  /\ req \in [Orders -> Requests]
  /\ refund \in [Orders -> Refunds]
  /\ \A o \in Orders : refund[o].excess <= Deposit[o] /\ req[o].hash <= Len(txs)
  /\ pooled \subseteq Orders

ChainOK ==
  /\ chain \in [minted : Nat, dayStart : Nat, supply : Nat, nonce : Nat]
  /\ minted \in [Orders -> Nat]
  /\ txs \in Seq(Transactions)
  /\ mined \in 0 .. Len(txs)
  /\ now \in Nat

ProcsOK ==
  /\ proc = [i \in Instances |-> proc[i]]
  /\ \A i \in Instances : ProcOK(proc[i], Len(txs))
  /\ faults \in Nat

(* Every variable has its type, a refund is never larger than the deposit  *)
(* it comes from, and a recorded hash is that of a transaction sent.       *)
TypeOK == DatabaseOK /\ ChainOK /\ ProcsOK

(* What the chain minted for a deposit and what is to go back to its       *)
(* sender are together never more than the deposit (createPendingAuths,    *)
(* _regenerate, executeMint): whatever crashed, was sent twice or reissued.*)
NothingPaidTwice ==
  \A o \in Orders : minted[o] + refund[o].excess <= Deposit[o]

(* Mints the bridge has promised and the chain has not yet made.           *)
Owed == {o \in Reserving(mined) : minted[o] = 0}

(* What was minted today and everything still promised fit under the daily *)
(* limit, and under the supply cap: decideSplit over a moving chain.       *)
CapacityNotOvercommitted ==
  /\ MintedToday(CapState, now) + TotalOf(RequestAmount, Owed) <= DailyMintLimit
  /\ MaxSupply > 0 => chain.supply + TotalOf(RequestAmount, Owed) <= MaxSupply

CapRefusals == {"ExceedsDailyMintLimit", "ExceedsMaxSupply"}

(* So executeMint of a decided amount is refused for the cap, in a         *)
(* simulation or in a block, only for a deposit minted already.            *)
NeverRefusedForTheCap ==
  /\ \A o \in Orders : req[o].error \in CapRefusals => minted[o] > 0
  /\ \A k \in 1 .. mined : txs[k].outcome \in CapRefusals => minted[txs[k].order] > 0

(* Reservations alone never exceed what one whole day can mint: what the   *)
(* advisory lock of createPendingAuths gives any number of instances.      *)
ReservationsFitADay ==
  TotalOf(RequestAmount, Reserving(mined)) <= DailyMintLimit

(* A terminal order agrees with the chain and with its refund row, and the *)
(* coins of a refund are in the pool it is paid from.                      *)
SettledAgreesWithChain ==
  \A o \in Orders :
    /\ order[o] \in {"MINT_CONFIRMED", "COMPLETED"} =>
         /\ minted[o] = req[o].amount /\ minted[o] > 0
         /\ minted[o] + refund[o].excess = Deposit[o]
    /\ order[o] = "REFUNDED" => minted[o] = 0 /\ refund[o].excess = Deposit[o]
    /\ refund[o].excess > 0 => o \in pooled

(* shared/src/state-machine/inbound.ts:57: an order goes from              *)
(* MINT_SUBMITTED to FAILED because executeMint reverted on-chain; the     *)
(* edge FAILED -> REFUNDED then gives the deposit back.                    *)
FailedWasNotMinted ==
  \A o \in Orders : order[o] = "FAILED" => minted[o] = 0

(* mint-executor.ts:438: "Never reissue an authorization for a deposit the *)
(* chain already minted".                                                  *)
ReissuedOnlyUnminted ==
  [][\A o \in Orders :
       req[o].amount > 0 /\ req'[o].deadline # req[o].deadline => minted[o] = 0]_vars

(* migrations/012:24: amount_sat is "the amount the watchers sign and      *)
(* executeMint mints"; what is left of the deposit is refunded.            *)
MintedAsRecorded == \A o \in Orders : minted[o] \in {0, req[o].amount}

(* mint-executor.ts:8: MINT_SUBMITTED goes on to COMPLETED once the         *)
(* executeMint receipt is in.                                              *)
ReceiptCompletes ==
  \A o \in Orders :
    (order[o] = "MINT_SUBMITTED" /\ minted[o] > 0) ~> order[o] = "COMPLETED"

(* mint-executor.ts:479: a finalized deposit is settled - minted, refunded *)
(* or failed on chain - and so is one whose authorization predates the     *)
(* split and may be put off, day after day, for want of capacity.          *)
Settles ==
  \A o \in Orders :
    order[o] \in {"DEPOSIT_FINALIZED", "MINT_AUTH_CREATED"} ~>
      order[o] \in {"COMPLETED", "REFUNDED", "FAILED"}
===============================================================================
