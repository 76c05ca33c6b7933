-------------------------- MODULE GnosisEventWatcher --------------------------
(***************************************************************************)
(* The Gnosis event watcher (backend/src/gnosis/event-watcher.ts): burns   *)
(* of wBOB become withdrawal orders.  Each process scans the chain from a  *)
(* watermark kept in the database, recounts it from the start with a       *)
(* cursor kept in memory, and moves recorded burns to the payout queue.    *)
(* Around it: a chain that reorganises above its finalised part, a node    *)
(* that may leave a log out of an answer, failing calls and restarts.      *)
(*                                                                         *)
(* A burn is its withdrawalId, counted by the controller from 1, so ids    *)
(* are in the order of (block, log index).  The time-based alert of a      *)
(* stalled scan is left out.                                               *)
(***************************************************************************)
EXTENDS Integers, Sequences, FiniteSets

CONSTANTS
  Instances,      \* backend processes
  Depth,          \* gnosisConfirmationDepth: reorganisations are no deeper
  Chunk,          \* gnosisLogScanChunk
  Poison,         \* burns whose recording always fails
  HaltThreshold,  \* bound: what gnosis_scan_halt_count is counted up to
  MaxBlock,       \* bound: blocks
  MaxBurns,       \* bound: burns
  MaxReorgs,      \* bound: reorganisations
  MaxMisses,      \* bound: answers that leave logs out, edits of the watermark
  MaxDeletes,     \* bound: rows someone else deletes
  MaxFaults       \* bound: failed calls and restarts

WithdrawalIds == 1 .. MaxBurns

ASSUME WatcherAssumption ==
  /\ {Chunk, HaltThreshold, Depth} \subseteq Nat \ {0}
  /\ {MaxBlock, MaxBurns, MaxReorgs, MaxMisses, MaxDeletes, MaxFaults} \subseteq Nat
  /\ Poison \subseteq WithdrawalIds

VARIABLES
  head,       \* the chain's newest block
  final,      \* the newest block no reorganisation removes
  burned,     \* burned[w]: the block of burn w
  watermark,  \* bridge_state: gnosis_last_block
  halt,       \* bridge_state: gnosis_scan_halt_block (0: no such key) and _count
  row,        \* row[w]: burn_block_number in withdrawal_requests, 0 without one
  order,      \* order[w]: state of its bridge_orders row
  scan,       \* scan[i]: what the poll of i is in the middle of
  recount,    \* recount[i]: what the recount of i is in the middle of
  cursor,     \* cursor[i]: recountCursor, in memory
  omitted,    \* burns an answer left out, or a database edit passed over
  recounted,  \* burns recorded by a recount
  alerted,    \* burns named in an alert of a recount
  reorgs,     \* reorganisations so far
  misses,     \* answers that left logs out and edits of the watermark so far
  deleted,    \* burns whose row someone else deletes
  faults      \* failed calls and restarts so far

chainVars == <<head, final, burned, reorgs>>
rowVars == <<row, order>>
scanVars == <<watermark, halt, scan>>
recountVars == <<recount, cursor, recounted, alerted>>
answerVars == <<omitted, misses>>
vars == <<chainVars, rowVars, scanVars, recountVars, answerVars, deleted, faults>>

-------------------------------------------------------------------------------
Idle == [pc |-> "idle"]

NoHalt == [block |-> 0, count |-> 0]

Init ==
  /\ head = 0 /\ final = 0 /\ burned = << >>
  /\ watermark = 0
  /\ halt = NoHalt
  /\ row = [w \in WithdrawalIds |-> 0]
  /\ order = [w \in WithdrawalIds |-> "NONE"]
  /\ scan = [i \in Instances |-> Idle]
  /\ recount = [i \in Instances |-> Idle]
  /\ cursor = [i \in Instances |-> 1]
  /\ omitted = {} /\ recounted = {} /\ alerted = {}
  /\ reorgs = 0 /\ misses = 0 /\ deleted = {} /\ faults = 0

Least(a, b) == IF a < b THEN a ELSE b

Greatest(a, b) == IF a > b THEN a ELSE b

-------------------------------------------------------------------------------
(* The chain and the node.                                                 *)

(* A block with some burns of the controller in it. *)
MineBlock ==
  /\ head < MaxBlock
  /\ head' = head + 1
  /\ final' = Greatest(final, head' - Depth)
  /\ \E n \in 0 .. MaxBurns - Len(burned) :
       burned' = burned \o [k \in 1 .. n |-> head']
  /\ UNCHANGED reorgs

(* The chain loses its blocks above b; their burns may come back elsewhere. *)
Reorganise ==
  /\ reorgs < MaxReorgs
  /\ \E b \in final .. head - 1, n \in 0 .. Len(burned) :
       /\ \A w \in DOMAIN burned : burned[w] <= b <=> w <= n
       /\ head' = b
       /\ burned' = SubSeq(burned, 1, n)
  /\ reorgs' = reorgs + 1
  /\ UNCHANGED final

(* As SafeTip, one block later. *)
SafeTipLate == head - Depth + 1

SafeTip == head - Depth

Logs(from, to) == {[id |-> w, block |-> burned[w]] : w \in {v \in DOMAIN burned : burned[v] \in from .. to}}

(* getLogs answers with the logs, some perhaps left out. *)
Answer(logs, found) ==
  /\ found \in SUBSET logs
  /\ found # logs => misses < MaxMisses
  /\ misses' = misses + (IF found = logs THEN 0 ELSE 1)
  /\ omitted' = omitted \cup {l.id : l \in logs \ found}

(* Logs are handled in the order of the chain. *)
FirstOf(logs) == CHOOSE l \in logs : \A m \in logs : l.id <= m.id

-------------------------------------------------------------------------------
(* _createWithdrawalOrder, whose check and insert are two statements of a  *)
(* transaction: a row that appears between them is a unique violation.     *)

Recorded == {w \in WithdrawalIds : row[w] # 0}

CanInsert(l) == row[l.id] = 0 /\ l.id \notin Poison

InsertRow(l) ==
  /\ row' = [row EXCEPT ![l.id] = l.block]
  /\ order' = [order EXCEPT ![l.id] = "BURN_TX_SEEN"]

Fault == faults < MaxFaults /\ faults' = faults + 1

-------------------------------------------------------------------------------
(* processNewWithdrawals.                                                  *)

BeginScan(i) ==
  /\ scan[i] = Idle
  /\ scan' = [scan EXCEPT ![i] =
       IF watermark + 1 > SafeTip THEN [pc |-> "select"]
       ELSE [pc |-> "read", from |-> watermark + 1, start |-> watermark + 1, tip |-> SafeTip]]
  /\ UNCHANGED <<deleted, chainVars, rowVars, watermark, halt, recountVars, answerVars, faults>>

ReadLogs(i) ==
  /\ scan[i].pc = "read"
  /\ LET p == scan[i]
         end == Least(p.start + Chunk - 1, p.tip)
     IN  \E logs \in SUBSET Logs(p.start, end) :
           /\ Answer(Logs(p.start, end), logs)
           /\ scan' = [scan EXCEPT ![i] = [pc |-> "logs", from |-> p.from, tip |-> p.tip,
                                           end |-> end, todo |-> logs]]
  /\ UNCHANGED <<deleted, chainVars, rowVars, watermark, halt, recountVars, faults>>

(* A log is done with. *)
Handled(p, pc, l) == [p EXCEPT !.pc = pc, !.todo = p.todo \ {l}]

CheckLog(i) ==
  /\ scan[i].pc = "logs" /\ scan[i].todo # {}
  /\ LET l == FirstOf(scan[i].todo)
     IN  scan' = [scan EXCEPT ![i] = IF row[l.id] = 0 THEN [@ EXCEPT !.pc = "insert"]
                                     ELSE Handled(@, "logs", l)]
  /\ UNCHANGED <<deleted, chainVars, rowVars, watermark, halt, recountVars, answerVars, faults>>

InsertLog(i) ==
  /\ scan[i].pc = "insert"
  /\ LET p == scan[i]
         l == FirstOf(p.todo)
     IN  \/ /\ CanInsert(l)
            /\ InsertRow(l)
            /\ scan' = [scan EXCEPT ![i] = Handled(p, "logs", l)]
            /\ UNCHANGED faults
         \/ /\ IF CanInsert(l) THEN Fault ELSE UNCHANGED faults
            /\ scan' = [scan EXCEPT ![i] = [pc |-> "halt", from |-> p.from, block |-> l.block]]
            /\ UNCHANGED rowVars
  /\ UNCHANGED <<deleted, chainVars, watermark, halt, recountVars, answerVars>>

(* As HaltCount, starting over each time. *)
HaltCountRestarted(block) == 1

HaltCount(block) == IF halt.block = block THEN Least(halt.count + 1, HaltThreshold) ELSE 1

(* _recordScanHalt. *)
RecordScanHalt(i) ==
  /\ scan[i].pc = "halt"
  /\ halt' = [block |-> scan[i].block, count |-> HaltCount(scan[i].block)]
  /\ scan' = [scan EXCEPT ![i] = [@ EXCEPT !.pc = "stop"]]
  /\ UNCHANGED <<deleted, chainVars, rowVars, watermark, recountVars, answerVars, faults>>

(* As HaltAt, at the failed block itself. *)
HaltAtFailed(block) == block

(* The last block before the failed one. *)
HaltAt(block) == block - 1

StopScan(i) ==
  /\ scan[i].pc = "stop"
  /\ LET at == HaltAt(scan[i].block)
     IN  watermark' = IF at >= scan[i].from THEN at ELSE watermark
  /\ scan' = [scan EXCEPT ![i] = [pc |-> "select"]]
  /\ UNCHANGED <<deleted, chainVars, rowVars, halt, recountVars, answerVars, faults>>

AdvanceWatermark(i) ==
  /\ scan[i].pc = "logs" /\ scan[i].todo = {}
  /\ LET p == scan[i]
     IN  /\ watermark' = p.end
         /\ scan' = [scan EXCEPT ![i] =
              IF p.end < p.tip THEN [pc |-> "read", from |-> p.from, start |-> p.end + 1, tip |-> p.tip]
              ELSE [pc |-> "clear"]]
  /\ UNCHANGED <<deleted, chainVars, rowVars, halt, recountVars, answerVars, faults>>

(* _clearScanHalt. *)
ClearScanHalt(i) ==
  /\ scan[i].pc = "clear"
  /\ halt' = NoHalt
  /\ scan' = [scan EXCEPT ![i] = [pc |-> "select"]]
  /\ UNCHANGED <<deleted, chainVars, rowVars, watermark, recountVars, answerVars, faults>>

-------------------------------------------------------------------------------
(* confirmPendingBurns.                                                    *)

NextBurn(left) == IF left = {} THEN Idle ELSE [pc |-> "confirm", burns |-> left]

SelectBurns(i) ==
  /\ scan[i].pc = "select"
  /\ scan' = [scan EXCEPT ![i] = NextBurn({w \in WithdrawalIds :
                 order[w] = "BURN_TX_SEEN" /\ head - row[w] >= Depth})]
  /\ UNCHANGED <<deleted, chainVars, rowVars, watermark, halt, recountVars, answerVars, faults>>

Transition(w, from, to) ==
  order' = IF order[w] = from THEN [order EXCEPT ![w] = to] ELSE order

ConfirmBurn(i) ==
  /\ scan[i].pc = "confirm"
  /\ \E w \in scan[i].burns :
       /\ Transition(w, "BURN_TX_SEEN", "BURN_CONFIRMED")
       /\ scan' = [scan EXCEPT ![i] = [pc |-> "queue", burn |-> w, burns |-> @.burns \ {w}]]
  /\ UNCHANGED <<deleted, chainVars, row, watermark, halt, recountVars, answerVars, faults>>

QueuePayout(i) ==
  /\ scan[i].pc = "queue"
  /\ Transition(scan[i].burn, "BURN_CONFIRMED", "PAYOUT_QUEUED")
  /\ scan' = [scan EXCEPT ![i] = NextBurn(@.burns)]
  /\ UNCHANGED <<deleted, chainVars, row, watermark, halt, recountVars, answerVars, faults>>

(* A call throws: the next burn's turn inside confirmPendingBurns, the end *)
(* of the poll anywhere else.                                              *)
ScanFails(i) ==
  /\ scan[i] # Idle
  /\ Fault
  /\ \/ /\ scan[i].pc = "confirm"
        /\ \E w \in scan[i].burns : scan' = [scan EXCEPT ![i] = NextBurn(@.burns \ {w})]
     \/ scan[i].pc = "queue" /\ scan' = [scan EXCEPT ![i] = NextBurn(@.burns)]
     \/ scan[i].pc \notin {"confirm", "queue"} /\ scan' = [scan EXCEPT ![i] = Idle]
  /\ UNCHANGED <<deleted, chainVars, rowVars, watermark, halt, recountVars, answerVars>>

-------------------------------------------------------------------------------
(* recount.                                                                *)

BeginRecount(i) ==
  /\ recount[i] = Idle
  /\ LET end == Least(watermark, SafeTip)
     IN  /\ cursor[i] <= end
         /\ recount' = [recount EXCEPT ![i] = [pc |-> "read", end |-> end, missing |-> {}]]
  /\ UNCHANGED <<deleted, chainVars, rowVars, scanVars, cursor, recounted, alerted, answerVars, faults>>

ChunkEnd(i) == Least(cursor[i] + Chunk - 1, recount[i].end)

(* The logs of a chunk, less those that have a row. *)
RecountRead(i) ==
  /\ recount[i].pc = "read"
  /\ \E logs \in SUBSET Logs(cursor[i], ChunkEnd(i)) :
       /\ Answer(Logs(cursor[i], ChunkEnd(i)), logs)
       /\ recount' = [recount EXCEPT ![i] =
            [pc |-> "missing", end |-> @.end, to |-> ChunkEnd(i), missing |-> @.missing,
             todo |-> {l \in logs : row[l.id] = 0}]]
  /\ UNCHANGED <<deleted, chainVars, rowVars, scanVars, cursor, recounted, alerted, faults>>

RecountCheck(i) ==
  /\ recount[i].pc = "missing" /\ recount[i].todo # {}
  /\ LET l == FirstOf(recount[i].todo)
         p == [recount[i] EXCEPT !.missing = recount[i].missing \cup {l.id}]
     IN  recount' = [recount EXCEPT ![i] = IF row[l.id] = 0 THEN [p EXCEPT !.pc = "insert"]
                                           ELSE Handled(p, "missing", l)]
  /\ UNCHANGED <<deleted, chainVars, rowVars, scanVars, cursor, recounted, alerted, answerVars, faults>>

RecountInsert(i) ==
  /\ recount[i].pc = "insert"
  /\ LET l == FirstOf(recount[i].todo)
     IN  \/ /\ CanInsert(l)
            /\ InsertRow(l)
            /\ recounted' = recounted \cup {l.id}
            /\ recount' = [recount EXCEPT ![i] = Handled(@, "missing", l)]
         \/ /\ ~CanInsert(l)
            /\ recount' = [recount EXCEPT ![i] = Idle]
            /\ UNCHANGED <<rowVars, recounted>>
  /\ UNCHANGED <<deleted, chainVars, scanVars, cursor, alerted, answerVars, faults>>

(* As AfterChunk, skipping to the end of the recount. *)
AfterAll(p) == p.end + 1

AfterChunk(p) == p.to + 1

RecountNext(i) ==
  /\ recount[i].pc = "missing" /\ recount[i].todo = {}
  /\ LET p == recount[i]
     IN  /\ cursor' = [cursor EXCEPT ![i] = AfterChunk(p)]
         /\ recount' = [recount EXCEPT ![i] =
              IF p.to < p.end THEN [pc |-> "read", end |-> p.end, missing |-> p.missing]
              ELSE IF p.missing # {} THEN [pc |-> "alert", missing |-> p.missing]
              ELSE Idle]
  /\ UNCHANGED <<deleted, chainVars, rowVars, scanVars, recounted, alerted, answerVars, faults>>

RecountAlert(i) ==
  /\ recount[i].pc = "alert"
  /\ alerted' = alerted \cup recount[i].missing
  /\ recount' = [recount EXCEPT ![i] = Idle]
  /\ UNCHANGED <<deleted, chainVars, rowVars, scanVars, cursor, recounted, answerVars, faults>>

RecountFails(i) ==
  /\ recount[i] # Idle
  /\ Fault
  /\ recount' = [recount EXCEPT ![i] = Idle]
  /\ UNCHANGED <<deleted, chainVars, rowVars, scanVars, cursor, recounted, alerted, answerVars>>

-------------------------------------------------------------------------------
Restart(i) ==
  /\ Fault
  /\ scan' = [scan EXCEPT ![i] = Idle]
  /\ recount' = [recount EXCEPT ![i] = Idle]
  /\ cursor' = [cursor EXCEPT ![i] = 1]
  /\ UNCHANGED <<deleted, chainVars, rowVars, watermark, halt, recounted, alerted, answerVars>>

(* Someone else writes to the database. *)
MoveWatermark ==
  /\ misses < MaxMisses
  /\ misses' = misses + 1
  /\ \E to \in 0 .. SafeTip :
       /\ watermark' = to
       /\ omitted' = omitted \cup {w \in DOMAIN burned : burned[w] \in watermark + 1 .. to}
  /\ UNCHANGED <<chainVars, rowVars, halt, scan, recountVars, deleted, faults>>

DeleteRow ==
  /\ \E w \in Recorded \ deleted :
       /\ Cardinality(deleted) < MaxDeletes
       /\ deleted' = deleted \cup {w}
       /\ row' = [row EXCEPT ![w] = 0]
       /\ order' = [order EXCEPT ![w] = "NONE"]
  /\ UNCHANGED <<chainVars, scanVars, recountVars, answerVars, faults>>

Grow == MineBlock /\ UNCHANGED <<deleted, rowVars, scanVars, recountVars, answerVars, faults>>

Reorg == Reorganise /\ UNCHANGED <<deleted, rowVars, scanVars, recountVars, answerVars, faults>>

Scan(i) ==
  \/ BeginScan(i) \/ ReadLogs(i) \/ CheckLog(i) \/ InsertLog(i)
  \/ RecordScanHalt(i) \/ StopScan(i) \/ AdvanceWatermark(i) \/ ClearScanHalt(i)
  \/ SelectBurns(i) \/ ConfirmBurn(i) \/ QueuePayout(i)

Recount(i) ==
  \/ BeginRecount(i) \/ RecountRead(i) \/ RecountCheck(i) \/ RecountInsert(i)
  \/ RecountNext(i) \/ RecountAlert(i)

Next ==
  \/ Grow \/ Reorg \/ MoveWatermark \/ DeleteRow
  \/ \E i \in Instances : Scan(i) \/ Recount(i) \/ ScanFails(i) \/ RecountFails(i) \/ Restart(i)

Spec == Init /\ [][Next]_vars

(* start() polls for ever, _recountLoop recounts for ever and the chain    *)
(* grows.  Nothing is assumed of reorganisations, answers that leave logs  *)
(* out, database edits, failures and restarts.                             *)
Fairness ==
  /\ \A i \in Instances : WF_vars(Scan(i)) /\ WF_vars(Recount(i))
  /\ WF_vars(Grow)

FairSpec == Spec /\ Fairness

-------------------------------------------------------------------------------
(* Properties.                                                             *)

(* Every variable has its type, and a row goes with an order. *)
TypeOK ==
  /\ head \in 0 .. MaxBlock /\ final \in 0 .. head
  /\ burned \in Seq(1 .. head) /\ Len(burned) <= MaxBurns
  /\ watermark \in 0 .. MaxBlock
  /\ halt \in [block : 0 .. MaxBlock, count : 0 .. HaltThreshold]
  /\ row \in [WithdrawalIds -> 0 .. MaxBlock]
  /\ order \in [WithdrawalIds -> {"NONE", "BURN_TX_SEEN", "BURN_CONFIRMED", "PAYOUT_QUEUED"}]
  /\ \A w \in WithdrawalIds : order[w] = "NONE" <=> row[w] = 0
  /\ cursor \in [Instances -> 1 .. MaxBlock + 1]
  /\ {omitted, recounted, alerted, deleted} \subseteq SUBSET WithdrawalIds

(* event-watcher.ts:17, "advance only past blocks where ALL events         *)
(* processed": a burn at or below the watermark has its row, unless an     *)
(* answer of the node or an edit of the database left it out.              *)
WatermarkCoversBurns ==
  \A w \in DOMAIN burned : burned[w] <= watermark => w \in Recorded \cup omitted \cup deleted

(* What is recorded, and may be paid out, is a burn of the chain as it     *)
(* stays: the same burn in the same block, never reorganised away.         *)
RecordedIsOnChain ==
  \A w \in Recorded : w \in DOMAIN burned /\ burned[w] = row[w] /\ row[w] <= final

(* event-watcher.ts:241: "Only move the watermark forward, never backward".*)
WatermarkOnlyForward == [][watermark' >= watermark]_vars

(* Every final burn that can be recorded, and has no burn that cannot at   *)
(* or before its block, is recorded in the end, unless its row is deleted. *)
Unblocked(w) ==
  /\ w \in DOMAIN burned /\ burned[w] <= SafeTip
  /\ \A p \in Poison \cap DOMAIN burned : burned[w] < burned[p]

EveryBurnRecorded == \A w \in WithdrawalIds : Unblocked(w) ~> w \in Recorded \cup deleted

(* event-watcher.ts:85: the recount "re-reads every WithdrawalRequested",  *)
(* and a missing one, "or a deleted row", is ingested.                     *)
MissingIsIngested ==
  \A w \in WithdrawalIds :
    (w \in DOMAIN burned /\ burned[w] <= final /\ w \notin Recorded) ~> w \in Recorded

(* A burn whose recording keeps failing is put before the monitor: the     *)
(* halt at its block is counted up to the threshold.                       *)
PoisonIsReported ==
  \A p \in Poison :
    (p \in DOMAIN burned /\ burned[p] <= final /\ \A q \in Poison \cap DOMAIN burned : p <= q)
      ~> (p \in DOMAIN burned /\ halt = [block |-> burned[p], count |-> HaltThreshold]) \/ p \in omitted

(* event-watcher.ts:8: "when reached: BURN_TX_SEEN, BURN_CONFIRMED,        *)
(* PAYOUT_QUEUED" for every recorded burn.                                 *)
RecordedIsQueued == \A w \in WithdrawalIds : w \in Recorded ~> order[w] = "PAYOUT_QUEUED"

(* event-watcher.ts:87: a missing burn "is ingested now and alerted".      *)
RecountedIsAlerted == \A w \in WithdrawalIds : w \in recounted ~> w \in alerted
===============================================================================
