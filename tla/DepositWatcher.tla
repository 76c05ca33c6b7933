---------------------------- MODULE DepositWatcher ----------------------------
(***************************************************************************)
(* How watchers turn blocks into deposits (watcher/src/index.ts, chain/ and*)
(* deposits/): each follows the node's tip through reorganisations, starts *)
(* again from a cursor kept in the database, records the payments of every *)
(* block and moves recorded deposits towards final.                        *)
(*                                                                         *)
(* Left out: the pruning of the window below the reorg depth, the limit on *)
(* unattended catch-up, a node behind the cursor, and the stored number of *)
(* confirmations, which is only displayed.  The quote order to which the   *)
(* Quoted payments belong has its address from the start.                  *)
(***************************************************************************)
EXTENDS DobbscoinChain

CONSTANTS
  Watchers,          \* watcher processes, each with its cursor
  Quoted,            \* payments to the address of the one legacy quote order
  Unencodable,       \* payments whose recipient computeDepositId rejects
  MinConfirmations,  \* confirmations at which a deposit is confirmed
  MaxStale,          \* bound: answers taken from the five-second cache
  MaxErrors,         \* bound: errors that are logged only, and cached answers
  MaxAborts          \* bound: errors that end a poll, and restarts

ASSUME IngestAssumption ==
  /\ MinConfirmations \in 1 .. FinalConfirmations - 1
  /\ Quoted \subseteq Payments /\ Unencodable \subseteq Payments
  /\ Quoted \cap Unencodable \in {{}, Quoted}
  /\ Watchers # {}
  /\ {MaxStale, MaxErrors, MaxAborts} \subseteq Nat

VARIABLES
  deposit,  \* deposit[d]: its order's state, and the block recorded for it
  cursor,   \* cursor[w]: watcher_cursors, -1 without a row
  mem,      \* mem[w]: tip, reorg window, cursor held, caught up
  poll,     \* poll[w]: what w is in the middle of
  cache,    \* cache[w][d]: the last answer of the node about d
  first,    \* first[w]: the tip at the first start of w without a cursor
  start,    \* start[w]: the same, of its last such start
  stale,    \* cached answers used so far
  errors,   \* logged errors so far
  aborts    \* ended polls and restarts so far

watcherVars == <<cursor, mem, poll, cache, first, start>>
vars == <<chainVars, deposit, watcherVars, stale, errors, aborts>>

-------------------------------------------------------------------------------
Unseen == [state |-> "UNSEEN", block |-> 0, height |-> 0]

Idle == [pc |-> "idle"]

Starting == [tip |-> -1, window |-> {}, held |-> FALSE, up |-> FALSE]

NoAnswer == [confs |-> -1, block |-> 0]

Init ==
  /\ ChainInit
  /\ deposit = [d \in Payments |-> Unseen]
  /\ cursor \in [Watchers -> {-1, 0}]
  /\ mem = [w \in Watchers |-> Starting]
  /\ poll = [w \in Watchers |-> Idle]
  /\ cache = [w \in Watchers |-> [d \in Payments |-> NoAnswer]]
  /\ first = cursor
  /\ start = cursor
  /\ stale = 0 /\ errors = 0 /\ aborts = 0

Error(n) == errors + stale + n <= MaxErrors /\ errors' = errors + n

-------------------------------------------------------------------------------
(* BlockPoller and ReorgDetector.                                          *)

(* As Diff, adding the new tip and none of the blocks before it.           *)
DiffOfTip(window, newTip) ==
  LET ancestor == Highest(Branch(newTip) \cap window)
  IN  [pc |-> "orphans", tip |-> newTip,
       orphaned |-> {b \in window : Height(b) > Height(ancestor)},
       added |-> {newTip} \ {ancestor}]

(* computeDiff: back from the node's tip to a block of the window; what    *)
(* the window has above it is orphaned.  It fails without such a block.    *)
Diff(window, newTip) ==
  LET ancestor == Highest(Branch(newTip) \cap window)
  IN  [pc |-> "orphans", tip |-> newTip,
       orphaned |-> {b \in window : Height(b) > Height(ancestor)},
       added |-> {b \in Branch(newTip) : Height(b) > Height(ancestor)}]

Advance(w, window, oldTip) ==
  [mem EXCEPT ![w].tip = oldTip, ![w].window = window, ![w].up = (tip = oldTip)]

(* catchUp on a first start: from the node's tip, nothing before it. *)
Bootstrap(w) ==
  /\ poll[w] = Idle /\ ~mem[w].up
  /\ cursor[w] = -1
  /\ mem' = [mem EXCEPT ![w].tip = tip, ![w].window = {tip}, ![w].up = TRUE]
  /\ start' = [start EXCEPT ![w] = tip]
  /\ first' = [first EXCEPT ![w] = IF @ = -1 THEN tip ELSE @]
  /\ UNCHANGED <<chainVars, deposit, cursor, poll, cache, stale, errors, aborts>>

(* catchUp from the cursor, its ancestors in the window. *)
CatchUp(w) ==
  /\ poll[w] = Idle /\ ~mem[w].up
  /\ cursor[w] # -1
  /\ mem' = Advance(w, Branch(cursor[w]), cursor[w])
  /\ poll' = [poll EXCEPT ![w] = IF tip = cursor[w] THEN Idle ELSE Diff(Branch(cursor[w]), tip)]
  /\ UNCHANGED <<chainVars, deposit, cursor, cache, first, start, stale, errors, aborts>>

Poll(w) ==
  /\ poll[w] = Idle /\ mem[w].up
  /\ tip # mem[w].tip
  /\ Branch(tip) \cap mem[w].window # {}
  /\ poll' = [poll EXCEPT ![w] = Diff(mem[w].window, tip)]
  /\ UNCHANGED <<chainVars, deposit, cursor, mem, cache, first, start, stale, errors, aborts>>

(* handleOrphan of the highest orphaned block: roll back what is confirmed *)
(* in it, except where the database fails.                                 *)
Orphan(w) ==
  /\ poll[w].pc = "orphans" /\ poll[w].orphaned # {}
  /\ \E b \in poll[w].orphaned :
       /\ \A c \in poll[w].orphaned : Height(c) <= Height(b)
       /\ LET affected == {d \in Payments : deposit[d].state = "CONFIRMED" /\ deposit[d].block = b}
          IN  \E failed \in SUBSET affected :
                /\ Error(Cardinality(failed))
                /\ deposit' = [d \in Payments |->
                     IF d \in affected \ failed THEN [deposit[d] EXCEPT !.state = "SEEN_MEMPOOL"]
                     ELSE deposit[d]]
       /\ poll' = [poll EXCEPT ![w].orphaned = @ \ {b}]
  /\ UNCHANGED <<chainVars, cursor, mem, cache, first, start, stale, aborts>>

(* getBlock of the next block, and the payments to record in it. *)
NextBlock(w) ==
  /\ poll[w].pc = "orphans" /\ poll[w].orphaned = {}
  /\ LET p == poll[w]
     IN  IF p.added = {}
         THEN /\ mem' = [mem EXCEPT ![w].tip = p.tip, ![w].up = TRUE]
              /\ poll' = [poll EXCEPT ![w] = Idle]
         ELSE /\ LET b == CHOOSE b \in p.added : \A c \in p.added : Height(b) <= Height(c)
                 IN  poll' = [poll EXCEPT ![w] =
                       [pc |-> "record", tip |-> p.tip, added |-> p.added \ {b}, block |-> b,
                        todo |-> PaidIn(b), complete |-> TRUE]]
              /\ UNCHANGED mem
  /\ UNCHANGED <<chainVars, deposit, cursor, cache, first, start, stale, errors, aborts>>

-------------------------------------------------------------------------------
(* handleBlock.                                                            *)

(* Not recorded yet and, on the quote's address, its order not yet paid.   *)
Recordable(d) ==
  /\ deposit[d] = Unseen
  /\ d \in Quoted => \A e \in Quoted : deposit[e] = Unseen

(* computeDepositId throws for a recipient in mixed case that is no EIP-55 *)
(* checksum, which the routes that take recipients let through.            *)
Throws(d) == Recordable(d) /\ d \in Unencodable

(* First sighting and auto-ingest of one payment. *)
Record(w) ==
  /\ poll[w].pc = "record"
  /\ \E d \in {e \in poll[w].todo : ~Throws(e)} :
       LET b == poll[w].block
       IN  \/ /\ deposit' = IF Recordable(d)
                            THEN [deposit EXCEPT ![d] = [state |-> "SEEN_MEMPOOL", block |-> b,
                                                         height |-> Height(b)]]
                            ELSE deposit
              /\ poll' = [poll EXCEPT ![w].todo = @ \ {d}]
              /\ UNCHANGED errors
           \/ /\ Error(1)
              /\ poll' = [poll EXCEPT ![w].todo = @ \ {d}, ![w].complete = FALSE]
              /\ UNCHANGED deposit
  /\ UNCHANGED <<chainVars, cursor, mem, cache, first, start, stale, aborts>>

(* The call is outside the try of each deposit: it ends the poll.          *)
RecordThrows(w) ==
  /\ poll[w].pc = "record"
  /\ \E d \in poll[w].todo : Throws(d)
  /\ poll' = [poll EXCEPT ![w] = Idle]
  /\ UNCHANGED <<chainVars, deposit, cursor, mem, cache, first, start, stale, errors, aborts>>

(* The poll with these deposits left to advance in its block. *)
ToAdvance(p, rows) ==
  [pc |-> "advance", tip |-> p.tip, added |-> p.added, block |-> p.block,
   complete |-> p.complete, rows |-> rows]

(* The deposits to advance, as they are now, but those above this block. *)
Pending(b) ==
  {d \in Payments : /\ deposit[d].state \in {"SEEN_MEMPOOL", "CONFIRMED"}
                    /\ deposit[d].height <= Height(b)}

SelectPending(w) ==
  /\ poll[w].pc = "record" /\ poll[w].todo = {}
  /\ poll' = [poll EXCEPT ![w] =
       ToAdvance(@, {[id |-> d, row |-> deposit[d]] : d \in Pending(@.block)})]
  /\ UNCHANGED <<chainVars, deposit, cursor, mem, cache, first, start, stale, errors, aborts>>

(* computeConfirmationTransition and the walk to its target. *)
Target(state, confs) ==
  IF confs >= FinalConfirmations THEN "FINALIZED"
  ELSE IF confs >= MinConfirmations THEN "CONFIRMED"
  ELSE state

(* As Confs, trusting the height alone. *)
HeightConfs(b, row, status) == Height(b) - row.height + 1

Confs(b, row, status) ==
  LET byHeight == Height(b) - row.height + 1
  IN  IF byHeight < status.confs THEN byHeight ELSE status.confs

(* The poll with the node's answer about r in hand. *)
Answered(p, r, status) ==
  [pc |-> IF status.confs >= 1 /\ status.block # r.row.block THEN "moved" ELSE "answered",
   tip |-> p.tip, added |-> p.added, block |-> p.block, complete |-> p.complete,
   rows |-> p.rows \ {r}, ask |-> r, status |-> status]

(* txStatus of the next deposit: the node answers, the cache does, or the  *)
(* node fails and the deposit stays as it is.                              *)
AskNode(w) ==
  /\ poll[w].pc = "advance"
  /\ \E r \in poll[w].rows :
       LET p == poll[w]
           fresh == TxStatus(r.id)
           known == cache[w][r.id]
       IN  \/ /\ poll' = [poll EXCEPT ![w] = Answered(p, r, fresh)]
              /\ cache' = IF MaxStale = 0 THEN cache ELSE [cache EXCEPT ![w][r.id] = fresh]
              /\ UNCHANGED <<stale, errors>>
           \/ /\ known # NoAnswer /\ known # fresh
              /\ stale < MaxStale /\ errors + stale < MaxErrors
              /\ poll' = [poll EXCEPT ![w] = Answered(p, r, known)]
              /\ stale' = stale + 1
              /\ UNCHANGED <<cache, errors>>
           \/ /\ Error(1)
              /\ poll' = [poll EXCEPT ![w] = ToAdvance(p, p.rows \ {r})]
              /\ UNCHANGED <<cache, stale>>
  /\ UNCHANGED <<chainVars, deposit, cursor, mem, first, start, aborts>>

(* A deposit re-mined in another block follows it, whatever its state: its *)
(* block and not its height, for which txStatusFresh does not ask.         *)
FollowMove(w) ==
  /\ poll[w].pc = "moved"
  /\ LET p == poll[w]
     IN  \/ /\ deposit' = [deposit EXCEPT ![p.ask.id].block = p.status.block]
            /\ poll' = [poll EXCEPT ![w].pc = "answered"]
            /\ UNCHANGED errors
         \/ /\ Error(1)
            /\ poll' = [poll EXCEPT ![w] = ToAdvance(p, p.rows)]
            /\ UNCHANGED deposit
  /\ UNCHANGED <<chainVars, cursor, mem, cache, first, start, stale, aborts>>

(* As Follow, leaving alone what the node does not confirm. *)
NeverRolledBack(b, row, status) ==
  IF status.confs >= 1 THEN Target(row.state, Confs(b, row, status)) ELSE row.state

(* The state that the node's answer gives the deposit selected as row. *)
Follow(b, row, status) ==
  IF status.confs >= 1 THEN Target(row.state, Confs(b, row, status)) ELSE "SEEN_MEMPOOL"

(* The transaction that uses the answer, on a deposit still as selected. *)
AdvanceDeposit(w) ==
  /\ poll[w].pc = "answered"
  /\ LET p == poll[w]
         d == p.ask.id
     IN  /\ \/ /\ deposit' = IF deposit[d].state # p.ask.row.state THEN deposit
                              ELSE [deposit EXCEPT ![d].state = Follow(p.block, p.ask.row, p.status)]
               /\ UNCHANGED errors
            \/ Error(1) /\ UNCHANGED deposit
         /\ poll' = [poll EXCEPT ![w] = ToAdvance(p, p.rows)]
  /\ UNCHANGED <<chainVars, cursor, mem, cache, first, start, stale, aborts>>

(* As Holding, forgetting the blocks before. *)
HoldingThisBlock(w) == ~poll[w].complete

(* The cursor is held from the first block with an unrecorded deposit on.  *)
Holding(w) == mem[w].held \/ ~poll[w].complete

(* onBlock saves the cursor; the block joins the window. *)
FinishBlock(w) ==
  /\ poll[w].pc = "advance" /\ poll[w].rows = {}
  /\ LET p == poll[w]
     IN  /\ cursor' = IF Holding(w) THEN cursor ELSE [cursor EXCEPT ![w] = p.block]
         /\ mem' = [mem EXCEPT ![w].held = Holding(w), ![w].window = @ \cup {p.block}]
         /\ poll' = [poll EXCEPT ![w] =
              [pc |-> "orphans", tip |-> p.tip, orphaned |-> {}, added |-> p.added]]
  /\ UNCHANGED <<chainVars, deposit, cache, first, start, stale, errors, aborts>>

-------------------------------------------------------------------------------
(* A call throws: the poll, or the catch-up, starts over. *)
Abort(w) ==
  /\ poll[w] # Idle
  /\ aborts < MaxAborts
  /\ aborts' = aborts + 1
  /\ poll' = [poll EXCEPT ![w] = Idle]
  /\ UNCHANGED <<chainVars, deposit, cursor, mem, cache, first, start, stale, errors>>

Restart(w) ==
  /\ aborts < MaxAborts
  /\ aborts' = aborts + 1
  /\ poll' = [poll EXCEPT ![w] = Idle]
  /\ mem' = [mem EXCEPT ![w] = Starting]
  /\ cache' = [cache EXCEPT ![w] = [d \in Payments |-> NoAnswer]]
  /\ UNCHANGED <<chainVars, deposit, cursor, first, start, stale, errors>>

Grow == ChainNext /\ UNCHANGED <<deposit, watcherVars, stale, errors, aborts>>

Follows(w) ==
  \/ Bootstrap(w) \/ CatchUp(w) \/ Poll(w) \/ Orphan(w) \/ NextBlock(w)
  \/ Record(w) \/ RecordThrows(w) \/ SelectPending(w)
  \/ AskNode(w) \/ FollowMove(w) \/ AdvanceDeposit(w) \/ FinishBlock(w)

Next == Grow \/ \E w \in Watchers : Follows(w) \/ Abort(w) \/ Restart(w)

Spec == Init /\ [][Next]_vars

(* A watcher polls for ever.  Nothing is assumed of blocks and faults. *)
FairSpec == Spec /\ \A w \in Watchers : WF_vars(Follows(w))

-------------------------------------------------------------------------------
(* Properties.                                                             *)

DepositStates == {"UNSEEN", "SEEN_MEMPOOL", "CONFIRMED", "FINALIZED"}

(* Every variable has its type, and a recorded deposit names a block that  *)
(* pays it.                                                                *)
TypeOK ==
  /\ ChainTypeOK
  /\ \A d \in Payments :
       /\ deposit[d].state \in DepositStates
       /\ deposit[d] # Unseen => deposit[d].block \in Blocks /\ d \in PaidIn(deposit[d].block)
  /\ \A w \in Watchers :
       /\ cursor[w] \in Blocks \cup {-1}
       /\ mem[w].window \subseteq Blocks

(* block-handler.ts:74: a deposit is final only when it is in the active   *)
(* chain so deep that it stays there, whatever branch the watcher was on.  *)
FinalizedIsPermanent ==
  \A d \in Payments : deposit[d].state = "FINALIZED" => Confirmations(d) >= FinalConfirmations

(* Recorded or, to the address of a quote, standing behind another payment.*)
Accounted(d) == ~Recordable(d)

(* migration 011: the cursor may be behind the work "but never ahead": of  *)
(* all the blocks between the watcher's start without a cursor and its     *)
(* cursor no payment is missing.                                           *)
CursorCoversPayments ==
  \A w \in Watchers : cursor[w] # -1 =>
    \A d \in PaidOn(Branch(cursor[w]) \ Branch(start[w])) : Accounted(d)

(* index.ts:205: after a deposit failed to record, "the next start replays *)
(* from that block": none is missing since the watcher's first start.      *)
NothingMissedSinceFirstStart ==
  \A w \in Watchers : cursor[w] # -1 =>
    \A d \in PaidOn(Branch(cursor[w]) \ Branch(first[w])) : Accounted(d)

(* reorg-detector.ts:91: walking back to genesis "shouldn't happen in      *)
(* practice": some block of the active chain is in the window.             *)
KnowsAnAncestor ==
  \A w \in Watchers : mem[w].up => Branch(tip) \cap mem[w].window # {}

(* block-handler.ts:358: a deposit that was re-mined in a different block  *)
(* is recorded "where it lives now".                                       *)
RecordedWhereItLives ==
  \A d \in Payments : deposit[d] # Unseen => deposit[d].height = Height(deposit[d].block)

(* Every watcher follows the chain from its first block: none started, or  *)
(* will start, at a tip that may be orphaned.                              *)
FromGenesis == \A w \in Watchers : start[w] = 0

(* The payment is final, also counted from the height it was recorded at.  *)
FinalFromRecord(d) ==
  /\ Confirmations(d) >= FinalConfirmations
  /\ Height(tip) - deposit[d].height + 1 >= FinalConfirmations

(* block-handler.ts:302: a payment that stays final becomes a final        *)
(* deposit through reorganisations, ended polls and restarts.  A logged    *)
(* error or a cached answer leaves it to the next block, if there is one;  *)
(* a payment in the chain whose recipient throws stops every watcher.      *)
EveryPaymentFinalizes ==
  \A d \in Payments \ (Quoted \cup Unencodable) :
    <>[](FromGenesis /\ errors + stale = 0 /\ FinalFromRecord(d)
           /\ PaidOn(Branch(tip)) \cap Unencodable = {}) =>
      <>(deposit[d].state = "FINALIZED")

(* block-handler.ts:91: errors of a payment are "swallowed per deposit":   *)
(* the others become final, whatever else the chain pays.                  *)
FinalizesWhateverElseIsPaid ==
  \A d \in Payments \ (Quoted \cup Unencodable) :
    <>[](FromGenesis /\ errors + stale = 0 /\ FinalFromRecord(d)) =>
      <>(deposit[d].state = "FINALIZED")

(* w has worked through the node's tip. *)
AtTip(w) == mem[w].up /\ poll[w] = Idle /\ mem[w].tip = tip

(* block-handler.ts:302: once every watcher has worked through the node's  *)
(* tip, every confirmed deposit is on the active chain: one whose block was*)
(* orphaned was rolled back, though no orphan was reported for it, or one  *)
(* call failed, or another watcher confirmed it by an older answer.        *)
LostIsRolledBack ==
  (\A w \in Watchers : AtTip(w)) /\ FromGenesis /\ stale = 0 /\ errors <= 1 =>
    \A d \in Payments : deposit[d].state = "CONFIRMED" => Confirmations(d) > 0
===============================================================================
