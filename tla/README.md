# The wBOB bridge in TLA+

The bridge moves Dobbscoin (BOB) to Gnosis and back: a deposit of BOB is minted as wBOB, a burn of wBOB is paid out in
BOB.  These modules model the parts of the code that decide when money moves, TLC checks them on small instances, and
TLAPS proves for every instance what the runs check of safety: of minting and its signatures, of payouts and refunds,
of both watchers, of addresses and drips, and of the balance of the pool.  Each definition names the code it stands for
in the `map` of `PROJECT.json`; line numbers below are of the same commit.

## The system

Three *watchers* (`watcher/`), each beside its own Dobbscoin node, follow the Dobbscoin chain and sign mint
authorizations.  One *backend* (`backend/`) runs, in one Node process (`backend/src/index.ts`), an HTTP API, a mint
executor, a Gnosis event watcher with a recount loop, a loop of payouts and refunds, and a monitor.  They share one
Postgres database and call each other almost nowhere: an order is handed on by its state.

| component | state it keeps | operations | properties that make it correct |
|---|---|---|---|
| mint executor `executor/mint-executor.ts`, `mint-capacity.ts` | `bridge_orders`, `mint_requests`, `deposit_refunds`, `bridge_utxos` | decide the split under the daily cap; authorize; reissue when expired; submit; confirm | a deposit is split once and paid once; no capacity promised twice; every deposit settles |
| signing `signing/*`, part of the mint executor | `mint_requests.signatures` | append; prune; drop removed signers; submit | no signer twice; a useful signature is not pruned; the mint gets out |
| payouts `executor/payout-executor.ts` | `payouts`, `bridge_utxos`, attempts in `audit_events` | build and sign; send; look up; park and release; confirm; resend | a burn is paid once; a coin in the pool is unspent; a withdrawal settles |
| refunds `executor/refund-executor.ts` | `deposit_refunds`, `bridge_utxos` | resolve the sender; announce; sign; send; park; confirm | a refund is sent once; a coin serves one purpose |
| Gnosis event watcher `gnosis/event-watcher.ts` | `withdrawal_requests`, `bridge_state`; a cursor in memory | scan, halt, advance the watermark; recount; confirm burns | the watermark passes no unrecorded burn; a recorded burn stays; every burn recorded or reported |
| deposit watcher `watcher/src/index.ts`, `chain/*`, `deposits/*` | `source_deposits`, `watcher_cursors`; a block window in memory | catch up; follow reorganisations; record; count confirmations; roll back | a final deposit is permanent; the cursor is never ahead; every deposit becomes final |
| addresses and quotes `api/routes/deposit-address.ts`, `quotes.ts`, the crediting passes of `block-handler.ts` | `deposit_addresses`, `source_deposits` | allocate an HD index; credit a payment | one address has one owner; a payment is credited once; the cursor is held only by failures |
| gas drip `executor/drip-sender.ts` | `gas_drips` | send once after a mint | one drip per recipient; a recorded outcome happened; an opt-out stands |
| transaction builder `dobbscoin/tx-builder.ts` | none | choose coins, fee, change | amounts are conserved; no dust is paid |
| solvency monitor `monitor/*` | the last verdict, the last review count and the cooldowns, in memory | read supply, pool and fees; judge; alert | a breach is no artefact of booking; an all-clear was true; lasting trouble is told |
| transition tables `shared/`, engine, API views, portal, configuration, migrations | tables only | | |

What makes it hard: the backend may run twice, or be restarted, over one database; every call to a node or to Gnosis
may fail after it took effect; both chains reorganise; a chain is read outside the transaction that uses the answer; the
signing, submitting, deciding and confirming of one order are different jobs; an operator retries by editing a row.
`PROJECT.json` lists each such hazard at its line with the properties that cover it.

## Modules

| module | models | state and actions |
|---|---|---|
| `MintCapacity` | `mint-capacity.ts` | pure operators: the cap window, the split, the sum of reservations |
| `MintExecutor` | every job of `MintExecutor.poll`, over the contracts and a clock | `order`, `req`, `refund`, `pooled` are tables; `proc[i]` is what instance i read and has yet to use |
| `MintExecutorInvariants` | the inductive invariants `SplitInv` and `CapInv` | |
| `SignatureCollection` | the watchers' appends against reissue, pruning and submission | one mint request in detail; refines the atomic `CollectSignatures` of `MintExecutor` informally |
| `DobbscoinNode` | the node and network the payouts use (external) | transactions with inputs, mempool, confirmations, lost answers, copies, forgetting |
| `BridgeWallet` | `bridge_utxos` | reserve, release, spend |
| `PayoutExecutor` | `PayoutExecutor.poll`, on the two above | one action per database transaction or call of the node |
| `RefundExecutor` | `RefundExecutor.poll`, composed with `PayoutExecutor` | both jobs share `proc[i]`, the node and the coins, as one loop runs both |
| `GnosisEventWatcher` | `event-watcher.ts` with the Gnosis chain | scan and recount of a process run beside each other |
| `DobbscoinChain`, `DepositWatcher` | a block tree; `BlockPoller`, `ReorgDetector`, `handleBlock`, `handleOrphan`, the cursor | `poll[w]` is the block a watcher handles and what it read of it |
| `DepositAddresses` | both allocating routes and both crediting passes, `checkMintAgainstNode` | each statement of a READ COMMITTED transaction is an action of `calls[c]` or `scan[v]`; an address is its index |
| `GasDrip` | `drip-sender.ts`, on top of `DepositAddresses` | `drip[i]` is the drip instance i is in; `transfers` are what the hot wallet sent |
| `PoolAccounting` | the arithmetic of `tx-builder.ts` | pure operators: fees, selection, the two kinds of transaction |
| `PoolLedger` | the amounts behind the solvency: coins, fees on record, supply | one action per transaction of an executor, in satoshis |
| `SolvencyMonitor` | `SolvencyMonitor.poll` beside `PoolLedger` | `poll` is what the poll under way has read |
| `DepositLedger` | abstract: a deposit is divided once and in full, and minted once | `MintExecutor` implements it (`ImplementsLedger`) |
| `OrderStates` | the tables `inbound.ts`, `outbound.ts` | `MintExecutor` and the payouts implement it (`FollowsTransitions`) |
| `MintExecutorProofs` | proofs of `MintExecutor`: types, the split, the cap, the day, both refinements | |
| `SignatureProofs` | proofs of `SignatureCollection`, and what the recursion that prunes a list keeps | |
| `BridgeProofs` | proofs of `RefundExecutor` with `PayoutExecutor`, the node and the wallet | |
| `GnosisProofs` | proofs of `GnosisEventWatcher` | |
| `DepositWatcherProofs` | proofs of `DepositWatcher` over `DobbscoinChain` | |
| `DepositProofs` | proofs of `DepositAddresses` and of `GasDrip` over it | |
| `SolvencyProofs` | sums over finite sets; proofs of `PoolAccounting`, `PoolLedger`, `SolvencyMonitor` | |
| `SetFacts` | lemmas they share: least and greatest elements, cardinalities, folds | |
| `MC*` | finite instances: model values, deposits, symmetry | |

The modelling rule throughout: a database transaction is one step; a value read from a chain or outside the transaction
that uses it is a step of its own and is remembered in `proc`, `scan`, `poll`; a crash or a thrown error clears what is
remembered and nothing else.  `SELECT ... FOR UPDATE` and advisory locks held across a chain read are guards.

### What is abstracted

* **MintExecutor.** An EIP-712 authorization is its amount, deadline and nonce; hashes are positions in the sequence of
  transactions sent; "mined at or before block b" is a comparison of positions, a failed receipt read counts the row
  (as the code does).  `ConfirmMint` takes the selection, the receipt and the locked recheck as one step: a receipt does
  not change.  Changes of the daily limit, Gnosis reorganisations and the drip at the end are left out.
* **SignatureCollection.** One request; a signature is its signer and the authorization it is over.
* **PayoutExecutor, RefundExecutor.** Amounts are "enough or not"; the ten-minute pause between resends is left out (any
  resend may come); the burn check is the constant `Payable`; a hand release of coins is not modelled.  A late
  transaction is modelled: a lost answer may be followed by its delivery at any time.  Reorganisations are shallower
  than three confirmations.  Sending of refunds is on.
* **GnosisEventWatcher.** A burn is its withdrawal id; ids are in chain order.  The alert after a time without progress
  is left out.  One bound counts both omitted logs and edits of the watermark.
* **DepositWatcher.** Left out: pruning of the block window, the limit on unattended catch-up, a node behind its cursor,
  displayed confirmations.  The node's answer (`block-handler.ts:314`), the UPDATE of a re-mined deposit (:362) and the
  transaction that uses the answer (:382) are steps of their own: `AskNode`, `FollowMove`, `AdvanceDeposit`.  The
  thresholds 3/6 are scaled to 1/2, in the findings to 2/3; reorganisations stay shallower than the second.  A
  second payment to the address of a legacy quote is never ingested by the code; the properties excuse it (`Quoted`).
  `computeDepositId` throws for a recipient in mixed case with a wrong checksum, which the routes accept: a payment to
  one is in `Unencodable`, and its poll ends there each time (`RecordThrows`).
* **DepositAddresses, GasDrip.** Amounts, confirmations and reorganisations are `DepositWatcher`'s; here every block
  stays and every credited order is minted.  Key derivation is external.  `Malformed` are the recipients that have no
  deposit id: a pass that comes to one ends its poll (`IdThrows`).  Of the drip's amounts there is whether the
  recipient holds the threshold, whether the mint is large enough and how many drips are left.
* **PoolLedger, SolvencyMonitor.** A send and its record are one step, and so are the two edges of a confirmed order:
  their crashes are in the executors' modules.  Amounts, fee rate and dust limit are the real ones.  The alerts that
  compare one reading with a threshold (low pool, stuck orders, drip wallet, halted scan, stalled chain) may be raised
  or not by any poll.  Left out: snapshot rows and their purge, the delivery of an alert by the webhook, pending
  payouts (they are shown, no verdict uses them), and a configuration without `wBobAddress`.

## Runs

Each run finishes with no error.  What the code does otherwise than its comments say is checked by hand (below).

| run | shows |
|---|---|
| `MintExecutor_one` | one instance, two deposits of 3 and 4 under a daily limit of 5 and a supply cap of 6, a crash or failed call, a nonce bump, burns, a day of 2 ticks: `CapacityNotOvercommitted`, `NeverRefusedForTheCap` and their inductive invariant `CapInv` |
| `MintExecutor_two` | two instances: `NothingPaidTwice`, `ReservationsFitADay`, `SettledAgreesWithChain`, `SplitInv`; the refinements `ImplementsLedger`, `FollowsTransitions` |
| `MintExecutor_live` | no fault, a first day's limit already minted (`MintedBefore`), so that the split is put off; one finalized order and one authorized before the split: `Settles`, which speaks of both states |
| `SignatureCollection` | three watchers, threshold two, a reissue, a rotation, a fault: `NoSignerTwice`, `PruneRemovesOnlyUseless`, `EventuallySent` |
| `RefundExecutor` | one backend, a withdrawal and a refund over two coins and the deposit: `RefundedAtMostOnce`, `RefundAgreesWithChain`, `PaidAtMostOnce`, `FreeCoinsAreFree`, `ResignedOnlyIfNeverOut` |
| `RefundExecutor_two` | two backends over the same pool: one signs while the other has selected the same coins, one records a payout that the other has moved on: `NoCoinForTwo`, `OrderAgreesWithChain`.  No policy refusals: with them two backends pay twice, a finding |
| `RefundExecutor_live` | `PayoutSettles`, `RefundSettles` with refusals, a malleated copy, a forgotten transaction and an operator reset |
| `GnosisEventWatcher` | a poisoned burn, a reorganisation, an omitted log or an edited watermark, a deleted row, a failed call or restart: `WatermarkCoversBurns`, `RecordedIsOnChain`, `EveryBurnRecorded`, `PoisonIsReported` |
| `DepositWatcher` | a watcher with or without a cursor, four blocks with up to three forks, a payment whose recipient throws, a cached answer, a logged error, an ended poll or a restart: `FinalizedIsPermanent`, `CursorCoversPayments`, `LostIsRolledBack`, `EveryPaymentFinalizes` |
| `DepositAddresses` | two requests and two watchers at a time, three recipients, two of one wallet and one that has no deposit id, a quote, two payments, a database error, restarts: `OneWalletOneCredit`, `CursorCoversCredits`, `HeldByErrorsOnly`, `OneAddressPerSpelling` |
| `GasDrip` | one executor, one request at a time in two spellings, two faults, a database error, restarts, a refill: `OutcomeIsOnChain`, `RepeatsNeedFaults`, `OptOutStands` |
| `SolvencyMonitor` | a deposit over the cap, its refund, a burn and its payout, wBOB from outside, one fault or operator retry, an unreadable supply: `BreachIsReal`, `AllClearIsTrue`, `LastingTroubleIsReported` |

**Bounds and why they are enough.**  Two orders are what a lock, a cap or a coin needs to be contended; the deposits
are chosen so that the second is split after the first is decided and fits a new day, and so that either can be refused
whole.  `MaxTime` passes one day boundary and one deadline.  With one instance, three transactions allow a lost
submission and its repetition, and one fault is enough for every crash point, since nothing but the database outlives
it; with two instances, two transactions and two faults let each instance fail once.  Two coins and the refund's own
deposit let a payout and a refund compete and let change be spent again.  With thresholds of 1 and 2, four blocks and
three forks let a confirmed deposit's branch be replaced, and the new one reach finality.  `Chunk` is 1 in the Gnosis
run, so that a recount has a second chunk.  Two payments and two watchers are what one address credited twice needs;
the second spelling of a wallet is what the lower-casing statements are for.  In the solvency run a deposit of 3400 of
which 2400 are minted meets a burn of 1800: in one order of events the change is dust, in the other it is a coin, and
both the payout and the refund fold dust into a fee.  `MCSolvencyMonitor` also evaluates `SelectionAssumption`: over
all pools of up to six small coins and six targets, `selectUtxos` finds coins whenever some suffice, and no fewer would
do.  `CHECK_DEADLOCK FALSE` is set where the bounds, or the end of all orders, stop the system.

**By hand.**  More configurations are beside the modules than the list of runs holds.  `GnosisEventWatcher_two` passes
up to `WatermarkOnlyForward`.  The others list the properties that findings quote from the repository; each of them is
violated, and TLC, which stops at the first, shows one at a time: delete the others to see it.  They are
`MintExecutor_two_capacity`, `SignatureCollection_append` and, for each component, `*_findings`.  Run one with
`tlc -config X.cfg MC<component>.tla`.  The invariants of `DepositWatcher.cfg` also hold of two watchers
(`Watchers = {v1, v2}`, one payment, three blocks, two forks; 2.67 million states), and those of
`DepositAddresses.cfg` with `Malformed = {}` (3.28 million).  With `Deposits` of two deposits of 1400, both minted whole, a burn of 900, `SPECIFICATION Spec`
and without the liveness property, `SolvencyMonitor.cfg` passes in 4,084,226 states.

**Fairness.**  Each loop polls for ever with a sleep in between, so a job that stays possible is done: weak fairness of
an instance's steps, strong fairness per row where a poll walks all rows and may find the row locked or busy at any one
moment (`MintExecutor`).  Blocks are made and watchers poll.  The monitor polls and cooldowns end, and its liveness
needs nothing of the bridge.  Time passes, which `Settles` needs: a split put off waits for the next day.  Nothing is
assumed of faults, reorganisations, refusals, forgetting, burns, nonce bumps, operators, or of whether a supply can be
read.

**What liveness excuses.**  `EventuallySent` holds while the signer set stays as it is.  `RefundSettles` says broadcast
or put before a human: once broadcast, a refund the node forgets stays so (a finding).  `EveryPaymentFinalizes` holds of
watchers that follow the chain from its first block and for executions without cached answers or logged errors: those
leave the deposit to the next block, which a bounded chain may not have.  It is excused also while the chain pays a
recipient that `computeDepositId` rejects: no watcher passes that block, with no database error (a finding,
`FinalizesWhateverElseIsPaid`).  `LastingTroubleIsReported` asks for alerts only of trouble that stays; faults are
bounded, so they too end.

**What safety excuses.**  `BreachIsReal` speaks of polls during which no coin was reserved: with one, the breach is a
finding.  `AllClearIsTrue` compares with the supply there was when the poll began (a deposit taken and minted between
the reads is in the pool and not in the supply read), and is excused when a transaction went out between the reads of
the pool and of the fees, which counts its fee and the coins it spent.  `OneWalletOneCredit` and `HeldByErrorsOnly`
speak of addresses given to one wallet: the others are a finding.  `RepeatsNeedFaults` and `OptOutStands` are stated
with one executor, and one request at a time; with two of them they are findings.

## Proofs

Every safety property of the passing runs is a theorem of its specification, for every value of the constants.

| theorem | says |
|---|---|
| `MintExecutorProofs!TypeCorrect` | `TypeOK`, for any orders, instances, limits, bounds |
| `SplitInvariant` | `SplitInv` is inductive |
| `PaidOnce` | any number of instances, crashes and lost calls: minted plus refunded never exceeds the deposit (`NothingPaidTwice`) |
| `SettledAgrees` | a settled order agrees with the chain, its refund and the pool |
| `LedgerImplemented` | any number of instances: the mint executor implements `DepositLedger` |
| `TransitionsFollowed` | every step of the mint executor moves orders along the inbound table |
| `CapInvariant` | `CapInv` is inductive, with one instance |
| `CapacityHolds` | one instance never promises more than daily limit or supply cap allow |
| `CapNeverRefuses` | one instance: a mint is refused for the cap only for a deposit minted already |
| `DayInvariant`, `ReservationsFit` | any number of instances: what is reserved at once, one day can mint |
| `SignatureProofs!SignatureInvariant`, `SignatureTypes` | `SigInv` is inductive; types, and no more signatures than watchers |
| `NoSignerIsListedTwice` | appends that read, check and write in three steps list no watcher twice |
| `PruneTakesOnlyUseless` | what prune and drop take off the list was useless to the authorization |
| `BridgeProofs!BridgeInvariant` | `BridgeInv` is inductive, with one instance |
| `PaidOnce` | one backend pays a withdrawal once, whatever is refused, lost, copied, forgotten, re-sent, re-queued |
| `FreeCoins`, `CoinsServeOne` | one backend: a coin in the pool is unspent; no coin serves a payout and a refund |
| `OrderAgrees`, `RefundAgrees` | one backend: the row of a withdrawal, of a refund, agrees with the chain and the pool |
| `PooledInvariant` | `PooledInv` is inductive, with any number of backends, while the node refuses nothing |
| `NoCoinTwice` | any number of backends, no refusals: no coin serves a payout and a refund, or two of either |
| `RefundSignedOnce`, `RefundedOnce` | any number of instances, no reset: a refund has one transaction at most and is sent once |
| `ResignedSafely` | one backend, no reset: only what was never out is signed again |
| `PayoutFollowsTransitions` | every step of payouts, refunds and their operator moves orders along the outbound table |
| `GnosisProofs!GnosisInvariant` | `GnosisInv` is inductive, for any number of processes |
| `WatermarkCovers`, `RecordedFinal` | the watermark passes no unrecorded burn; a recorded burn is past reorganisation |
| `WatermarkForward` | one process and nobody else writing: the watermark only moves forward |
| `DepositWatcherProofs!WatcherInvariant`, `WatcherTypes` | `WatcherInv` is inductive, for any number of watchers, forks, stale answers, errors |
| `FinalPermanent` | a final deposit has its confirmations for ever |
| `CursorCovers` | between a watcher's start and its cursor no payment is missing |
| `LostRolledBack` | any number of watchers, no errors: once all have worked through the tip no lost deposit is confirmed, also if one of them confirmed it by an answer from before the reorganisation |
| `DepositProofs!DepositInvariant` | `DepositInv` is inductive, for any callers, watchers, payments, errors, restarts |
| `OneCredit` | a payment to the address of one wallet is credited to it once at most |
| `CreditsCovered`, `HeldForErrors` | a cursor is never ahead of a credit; it is held only by an error or a shared address |
| `AllocInvariant`, `OneAddress` | a spelling has one address |
| `DripInvariant`, `OutcomeOnChain` | a recorded drip happened as recorded, with any number of instances |
| `OneRowInvariant`, `OptOutStaysOut` | an opt-out stays, and nothing is sent to it from then on |
| `RepeatInvariant`, `RepeatsAreFaults` | a wallet gets one drip, and one more for each fault at most |
| `SolvencyProofs!PayoutConserves` | a payout's inputs are what it pays, its change and the fee on record; its change is no dust; it pays its fee |
| `RefundConserves` | the same of a refund; the pool loses what is refunded and at most dust, on record as the bridge's |
| `RefundOfOneCoin` | an excess not recorded as too small can be refunded out of one coin that holds it |
| `SolvencyInvariant` | `SolvencyInv` is inductive, for any deposits, burns and fee rate |
| `AlwaysBalanced` | coins, free or reserved, and fees on record are the supply and what is owed, to the satoshi, less what came from outside |
| `BreachesAreReal`, `AllClearsAreTrue` | `BreachIsReal`, `AllClearIsTrue` |

(A module named in one row holds the theorems of the rows below it up to the next one named.)

### Assumptions

The constants have the types the `*Assumption` of each module says: naturals, finite sets where a set is counted, a fee
rate above 0, deposits and withdrawals that are different things.  Beyond these some theorems assume what the code does
not promise.  None can be dropped: without it a finding, or a counterexample TLC shows, refutes the statement.

| assumed | by | without it |
|---|---|---|
| `LegacyOrders = {}` | `SplitInvariant`, `CapInvariant` and what follows from them, both refinements | `MintedAsRecorded` in `MintExecutor_findings` |
| `LegacyFits` | `DayInvariant` | orders that predate the split reserve their whole deposits from the start |
| `OneInstance`: one backend process | `CapInvariant`, `BridgeInvariant` and what follows from them | `MintExecutor_two_capacity`; `PaidAtMostOnce` in `PayoutExecutor_findings` |
| `MaxRefusals = 0`: no node refuses a transaction for its policy | `PooledInvariant`, `NoCoinTwice` | a refused transaction's coins are released and signed again, and another backend sends the old one: `PaidAtMostOnce` in `PayoutExecutor_findings` |
| `MaxResets = 0`: no operator sets a signed refund back to queued | `RefundSignedOnce`, `ResignedSafely` | `RefundedAtMostOnce` in `RefundExecutor_findings` |
| `DripEnabled`: the drip is configured | `AllocInvariant` | no row of `gas_drips` is locked; two requests allocate two addresses |
| `OneAtATime`: first requests do not overlap, or each wallet has one spelling | `OneRowInvariant`, `RepeatInvariant` | `OptOutStands` in `GasDrip_findings`; the drip repeats in the same way |
| `OneProcess`, and `[][~MoveWatermark]_vars` in the formula: nobody else writes the cursor | `WatermarkForward` | two processes move the watermark back, also past each other's (`WatermarkOnlyForward` in `GnosisEventWatcher_two`) |
| `errors = 0`, in the formula | `LostRolledBack` | two logged errors, or one error and two watchers, leave a lost deposit to the next block |

### Arguments

The properties speak of what is recorded, paid or free.  None is inductive: each invariant adds what a job, between two
of its steps, has read or is about to do.  The invariants are defined at the head of the proofs they serve, and TLC
found each to hold on the instance of the component's run, to be repeated by letting the `MC` module extend the proofs.

*The split.*  `NothingPaidTwice` speaks of the chain and of the refund row, and says nothing of a transaction in
flight.  `SplitInv` adds that a row's amount and refund make up its deposit from the decision on, that each transaction
and each instance in the middle of a submission carries the amount of its row, and that at most one instance is
deciding; it is preserved because no step but a decision writes an amount, and a decision is taken only of an undecided
order under the lock.

*The cap.*  `CapInv` adds that what an instance read of the chain before deciding still bounds what is committed:
`CapJobInv` compares the remembered cap and the reservations it will count with minted plus owed, through every mint,
day boundary and burn in between.  The sums are cardinalities of sets of pairs, so that their facts follow from
`FiniteSetTheorems`.  `DayInv` needs less and so holds of many instances: a split is decided from what is reserved when
it is written, so all it needs of the chain is that the block it was read at is not ahead of the chain.

*The ledger and the tables.*  `DepositLedger` has no jobs, rows or transactions: `split` is the amount and the refund of
a row, `minted` what the chain minted.  Its steps are preserved because `SplitInv` says that an amount is written once,
together with a refund that makes up the deposit, and that what is mined is of the row's amount.  `OrderStates` is
implemented because each action that writes an order's state has the state it writes from as its guard, also after a
stale read, since the code's UPDATEs name it.

*Signatures.*  An append writes back a list read before, and may undo a prune or another append.  It is harmless because
the list a watcher holds was read without that watcher on it (`WatcherInv`).  Prune writes only over the list it
verified, and entries over a later authorization cannot be on it (`ExecInv`).

*Payouts and refunds.*  `BridgeInv` says that of the transactions signed for a withdrawal only the newest can be out or
on its way, that all its inputs are with it as long as it is, and that the audit tells the two cases apart: sent more
often than refused means that it may be out.  So a park releases coins only of a transaction that every node refused,
which is what `_parkAndRelease` counts for, and what is signed next spends coins nobody else holds.  `PooledInv` is for
many backends, where the newest transaction is not the only one about: every transaction ever signed keeps its coins,
since a signature takes only coins that are available when it is written (the guarded UPDATE), whatever was available
when they were selected, and without refusals nothing is released.  For refunds `RefundOnceInv` needs one thing only: a
refund is signed where nothing was signed for it.

*Burns.*  `GnosisInv` says of each scan what it has in hand: up to the end of its chunk every burn is known or in its
list, up to the block before a failed one every burn is known, and all of it is final.  `WatermarkCovers` is preserved
because the watermark is set only to such a block, also by a scan whose watermark another process has moved.
`Ahead` adds, for one process, that what a scan is about to store is not behind what is stored.

*The deposit watcher.*  `PollInv` says that a poll works upwards, so what it has left is above what it has done, and
`MemInv` that each block of the window is worked through unless the cursor is held.  `LostInv` is what `LostRolledBack`
needs: some watcher will still roll back what is lost, because it has yet to come to the tip, or selected the deposit
in the pass it is in, or holds an answer that finds no confirmation.  An answer from before the reorganisation was
fetched in a poll of an older tip, so the watcher that holds it has yet to come to this one.  The fork rule of
`DobbscoinChain` keeps finality: a reorganisation is shallower than `FinalConfirmations`.

*Credits, addresses, drips.*  `DoneInv` says that of a block in hand each payment is still to do or covered, as long as
nothing failed; the first pass leaves to the second what is in `deposit_addresses`, and nothing leaves that table.
`AllocInv` says that who holds the row of a recipient found no address there, and is alone.  `DripInv` ties the transfer
an instance waits for to its recipient; `OneRowInv` that a wallet has one row or one request about to insert it;
`RepeatInv` that what was sent and is neither recorded nor awaited came with a fault.

*The balance.*  `LedgerInv` holds at every step: what the bridge owns, free or reserved, and the fees on record are the
supply and what is owed.  Each action moves both sides alike: a split takes a coin and owes a mint and a refund, a mint
turns what is owed into supply, a burn the other way, a transaction takes its coins and leaves what it paid, its change
and its fee, which is where the dust must be booked.  `PollInv` bounds what the poll under way will have read: with no
coin reserved and nothing from outside, `Reading` never falls below the supply read (what is owed is not negative), and
without a covered moment it never reaches it.

### Only model-checked

* Liveness: `Settles`, `EventuallySent`, `PayoutSettles`, `RefundSettles`, `EveryBurnRecorded`, `PoisonIsReported`,
  `EveryPaymentFinalizes`, `LastingTroubleIsReported`.  They hold under fairness and so through ENABLED, which the
  prover does not handle.
* Outside the list of runs: `SelectionAssumption`, which is about a sort and a greedy choice and is evaluated over
  small pools.
* Induction over data is possible only by hand: the library's rules take an operator as a parameter, which no prover
  here instantiates.  Where a recursion had to be reasoned about (`Among` of signatures, `SumOver`) each fact is shown
  of the least counterexample, as a set of numbers or of subsets with a least element (`SetFacts`).  For this the sums
  of `PoolAccounting` are recursive functions and not folds.

## Findings

`PROJECT.json` quotes for each the line it contradicts.  In short: the pairs of transitions MINT_CONFIRMED/COMPLETED,
PAYOUT_CONFIRMED/COMPLETED and BURN_CONFIRMED/PAYOUT_QUEUED are two transactions of which only the first is retried;
the lock of the signature list is dropped before the write; a minted order may end FAILED after a crash; two backends
can overcommit the cap by the reservations of a mint confirmed in between, send an older payout and, with a retry, pay
a burn twice; a refund reset to queued can be sent twice, and a forgotten one is not resent; a row that predates the
split can be minted whole after a crash; an alert of the recount can be lost and a deleted row is not found before a
restart; a watcher without a cursor may miss its first block's deposit or lose its only ancestor; a re-mined deposit
keeps its height; a payment to a recipient with a wrong checksum, which routes accept, stops the deposits of every
watcher; a quote can be given the address of another recipient, and a payment to it credited to both, or hold the
cursor for ever; a drip can be sent twice, and two first requests in two spellings get two addresses and may override
an opt-out; the monitor reports a breach while coins are reserved, drops a recovery that falls in a cooldown, and takes
a review that replaces another for no news.

## Not modelled

The transition engine of `backend/src/state-machine/` (no service calls it), the bridge guard (nothing calls it), the
API's read routes and request validation, the portal, configuration, the migration runner, the contracts beyond what the
code calls, hashing, key derivation and serialisation.  Of modelled components: the pruning of the watcher's block
window and its limit on unattended catch-up, and the monitor's readings behind the threshold alerts.

## Plan

Done: minting with its signatures, payouts and refunds, both watchers, addresses and drips, the pool's amounts and the
monitor, the two refinements, and the proofs of every safety property of the passing runs.  Left, in this order:

1. An abstract payout ledger (a burn is paid once, or by a human), refined by `PayoutExecutor` with one instance.
2. `SignatureCollection` shown to refine the atomic `CollectSignatures` of `MintExecutor`, now an informal claim.
3. The block window of `DepositWatcher` with its pruning, and a node behind its cursor.
4. What `selectUtxos` chooses, proved for every pool.
