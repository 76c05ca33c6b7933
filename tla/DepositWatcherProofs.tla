------------------------- MODULE DepositWatcherProofs -------------------------
(***************************************************************************)
(* Proofs about the deposit watchers, for any number of them, any blocks   *)
(* and forks, and every bound.                                             *)
(***************************************************************************)
EXTENDS DepositWatcher, SetFacts, SequenceTheorems

-------------------------------------------------------------------------------
(* The block tree.                                                         *)

BlockRecord == [height : Nat, branch : SUBSET Nat, paid : SUBSET Payments]

(* A branch leads down to genesis, block by block of falling height, each  *)
(* payment is on it once, and nothing is higher than the tip.              *)
TreeInv ==
  /\ blocks \in Seq(BlockRecord) /\ tip \in Blocks
  /\ \A b \in Blocks :
       /\ Height(b) <= Height(tip) /\ (b # 0 => Height(b) > 0)
       /\ 0 \in Branch(b) /\ b \in Branch(b) /\ Branch(b) \subseteq Blocks
       /\ \A c \in Branch(b) : Branch(c) \subseteq Branch(b) /\ (c # b => Height(c) < Height(b))
       /\ \A c, e \in Branch(b) : Height(c) <= Height(e) => c \in Branch(e)
       /\ \A c, e \in Branch(b) : PaidIn(c) \cap PaidIn(e) # {} => c = e

LEMMA BlockFacts ==
  ASSUME TreeInv
  PROVE  /\ Len(blocks) \in Nat /\ DOMAIN blocks = 1 .. Len(blocks) /\ 0 \in Blocks
         /\ \A b \in Blocks : Height(b) \in Nat /\ PaidIn(b) \subseteq Payments
<1>1. blocks \in Seq(BlockRecord)
  BY DEF TreeInv
<1>2. Len(blocks) \in Nat /\ DOMAIN blocks = 1 .. Len(blocks)
  BY <1>1, LenProperties
<1>3. \A b \in 1 .. Len(blocks) : blocks[b] \in BlockRecord
  BY <1>1, ElementOfSeq
<1> QED BY <1>2, <1>3 DEF Blocks, Height, PaidIn, BlockRecord

(* Some block of a set is the highest. *)
LEMMA HighestOf ==
  ASSUME TreeInv, NEW S \in SUBSET Blocks, S # {}
  PROVE  Highest(S) \in S /\ \A c \in S : Height(c) <= Height(Highest(S))
<1> DEFINE Depths == {Height(tip) - Height(b) : b \in S}
<1>1. \A b \in S : Height(b) \in Nat /\ Height(tip) \in Nat /\ Height(b) <= Height(tip)
  BY BlockFacts DEF TreeInv
<1>2. Depths \in SUBSET Nat /\ Depths # {}
  BY <1>1
<1>3. PICK n \in Depths : \A m \in Depths : n <= m
  BY <1>2, LeastOf
<1>4. PICK b \in S : n = Height(tip) - Height(b)
  BY <1>3
<1>5. \A c \in S : Height(c) <= Height(b)
  BY <1>1, <1>3, <1>4
<1> QED BY <1>5 DEF Highest

(* On one branch a block is known by its height. *)
LEMMA OnBranch ==
  ASSUME TreeInv, NEW b \in Blocks, NEW c \in Branch(b), NEW e \in Branch(b)
  PROVE  /\ c \in Blocks /\ e \in Blocks
         /\ Height(c) <= Height(e) => c \in Branch(e) /\ Branch(c) \subseteq Branch(e)
         /\ Height(c) = Height(e) => c = e
<1>1. c \in Blocks /\ e \in Blocks
  BY DEF TreeInv
<1>2. Height(c) \in Nat /\ Height(e) \in Nat
  BY <1>1, BlockFacts
<1>3. Height(c) <= Height(e) => c \in Branch(e)
  BY DEF TreeInv
<1>4. c \in Branch(e) => Branch(c) \subseteq Branch(e) /\ (c # e => Height(c) < Height(e))
  BY <1>1 DEF TreeInv
<1> QED BY <1>1, <1>2, <1>3, <1>4

(* A payment has one block on the active branch, or none. *)
LEMMA OnceActive ==
  ASSUME TreeInv, NEW d, NEW b \in InBlock(d)
  PROVE  /\ InBlock(d) = {b} /\ Highest(InBlock(d)) = b /\ b \in Blocks /\ b # 0
         /\ Confirmations(d) = Height(tip) - Height(b) + 1 /\ Confirmations(d) \in Nat \ {0}
<1>1. b \in Branch(tip) /\ d \in PaidIn(b) /\ tip \in Blocks
  BY DEF InBlock, TreeInv
<1>2. b \in Blocks /\ b # 0
  BY <1>1 DEF TreeInv, PaidIn
<1>3. InBlock(d) = {b}
  BY <1>1 DEF InBlock, TreeInv
<1>4. Highest(InBlock(d)) = b
  BY <1>3 DEF Highest
<1>5. Height(b) \in Nat /\ Height(tip) \in Nat /\ Height(b) <= Height(tip)
  BY <1>1, <1>2, BlockFacts DEF TreeInv
<1> QED BY <1>2, <1>3, <1>4, <1>5 DEF Confirmations

LEMMA ConfirmationsType ==
  ASSUME TreeInv, NEW d
  PROVE  /\ Confirmations(d) \in Nat /\ (Confirmations(d) > 0 <=> InBlock(d) # {})
         /\ TxStatus(d).confs = Confirmations(d) /\ TxStatus(d).block \in Blocks
<1>1. CASE InBlock(d) = {}
  BY <1>1, BlockFacts DEF Confirmations, TxStatus
<1>2. CASE InBlock(d) # {}
  <2>1. PICK b \in InBlock(d) : TRUE
    BY <1>2
  <2> QED BY <1>2, <2>1, OnceActive DEF TxStatus
<1> QED BY <1>1, <1>2

(* What a new block leaves as it was, and what it is. *)
LEMMA MineFacts ==
  ASSUME TreeInv, NEW p \in Blocks, NEW paid \in SUBSET Payments, Mine(p, paid),
         NEW n, n = Len(blocks) + 1
  PROVE  /\ n \notin Blocks /\ n # 0 /\ n \in Nat /\ Blocks' = Blocks \cup {n}
         /\ \A b \in Blocks : Height(b)' = Height(b) /\ Branch(b)' = Branch(b) /\ PaidIn(b)' = PaidIn(b)
         /\ Height(n)' = Height(p) + 1 /\ Branch(n)' = Branch(p) \cup {n} /\ PaidIn(n)' = paid
         /\ blocks' \in Seq(BlockRecord)
<1> DEFINE rec == [height |-> Height(p) + 1, branch |-> Branch(p) \cup {n}, paid |-> paid]
<1>1. Len(blocks) \in Nat /\ DOMAIN blocks = 1 .. Len(blocks) /\ Height(p) \in Nat
  BY BlockFacts
<1>2. Branch(p) \subseteq Blocks /\ blocks \in Seq(BlockRecord)
  BY DEF TreeInv
<1>3. rec \in BlockRecord
  BY <1>1, <1>2 DEF BlockRecord, Blocks
<1>4. blocks' = Append(blocks, rec)
  BY DEF Mine
<1> HIDE DEF rec
<1>5. /\ blocks' \in Seq(BlockRecord) /\ Len(blocks') = n
      /\ \A i \in 1 .. Len(blocks) : blocks'[i] = blocks[i]
      /\ blocks'[n] = rec
  BY <1>1, <1>2, <1>3, <1>4, AppendProperties
<1>6. n \notin Blocks /\ n # 0 /\ n \in Nat /\ Blocks' = Blocks \cup {n}
  BY <1>1, <1>5 DEF Blocks
<1>7. ASSUME NEW b \in Blocks
      PROVE  Height(b)' = Height(b) /\ Branch(b)' = Branch(b) /\ PaidIn(b)' = PaidIn(b)
  BY <1>1, <1>5 DEF Blocks, Height, Branch, PaidIn
<1>8. Height(n)' = Height(p) + 1 /\ Branch(n)' = Branch(p) \cup {n} /\ PaidIn(n)' = paid
  BY <1>5, <1>6 DEF Height, Branch, PaidIn, rec
<1> QED BY <1>5, <1>6, <1>7, <1>8

(* The tree stays one, and a node changes its tip for a higher one only. *)
LEMMA TreeMine ==
  ASSUME TreeInv, NEW p \in Blocks, NEW paid \in SUBSET Payments, Mine(p, paid)
  PROVE  /\ TreeInv'
         /\ tip' = tip \/ (tip' \in Blocks' \ Blocks /\ tip' = Len(blocks) + 1 /\ Height(p) = Height(tip))
<1>0. PICK n : n = Len(blocks) + 1
  OBVIOUS
<1>1. /\ n \notin Blocks /\ n # 0 /\ n \in Nat /\ Blocks' = Blocks \cup {n}
      /\ \A b \in Blocks : Height(b)' = Height(b) /\ Branch(b)' = Branch(b) /\ PaidIn(b)' = PaidIn(b)
      /\ Height(n)' = Height(p) + 1 /\ Branch(n)' = Branch(p) \cup {n} /\ PaidIn(n)' = paid
      /\ blocks' \in Seq(BlockRecord)
  BY <1>0, MineFacts
<1>2. tip' = IF Height(p) + 1 > Height(tip) THEN n ELSE tip
  BY <1>0 DEF Mine
<1>3. \A b \in Blocks : Height(b) \in Nat /\ Height(b) <= Height(tip)
  BY BlockFacts DEF TreeInv
<1>4. tip \in Blocks
  BY DEF TreeInv
<1>5. Height(p) <= Height(tip) /\ Height(p) \in Nat /\ Height(tip) \in Nat
  BY <1>3, <1>4
<1>6. paid \cap PaidOn(Branch(p)) = {}
  BY DEF Mine
<1>7. tip' = tip \/ (tip' \in Blocks' \ Blocks /\ tip' = n /\ Height(p) = Height(tip))
  BY <1>1, <1>2, <1>5
<1>8. PICK t : /\ t = tip' /\ t \in Blocks' /\ Height(t)' \in Nat
               /\ Height(t)' >= Height(tip) /\ Height(t)' >= Height(p) + 1
  BY <1>1, <1>2, <1>4, <1>5
<1>9. ASSUME NEW b \in Blocks'
      PROVE  /\ Height(b)' <= Height(t)' /\ (b # 0 => Height(b)' > 0)
             /\ 0 \in Branch(b)' /\ b \in Branch(b)' /\ Branch(b)' \subseteq Blocks'
             /\ \A c \in Branch(b)' : Branch(c)' \subseteq Branch(b)' /\ (c # b => Height(c)' < Height(b)')
             /\ \A c, e \in Branch(b)' : Height(c)' <= Height(e)' => c \in Branch(e)'
             /\ \A c, e \in Branch(b)' : PaidIn(c)' \cap PaidIn(e)' # {} => c = e
  <2>1. CASE b \in Blocks
    <3>1. Branch(b) \subseteq Blocks /\ Branch(b)' = Branch(b)
      BY <1>1, <2>1 DEF TreeInv
    <3>2. /\ Height(b) <= Height(tip) /\ (b # 0 => Height(b) > 0)
          /\ 0 \in Branch(b) /\ b \in Branch(b)
          /\ \A c \in Branch(b) : Branch(c) \subseteq Branch(b) /\ (c # b => Height(c) < Height(b))
          /\ \A c, e \in Branch(b) : Height(c) <= Height(e) => c \in Branch(e)
          /\ \A c, e \in Branch(b) : PaidIn(c) \cap PaidIn(e) # {} => c = e
      BY <2>1 DEF TreeInv
    <3>3. \A c \in Branch(b) : Height(c)' = Height(c) /\ Branch(c)' = Branch(c) /\ PaidIn(c)' = PaidIn(c)
      BY <1>1, <3>1
    <3>4. Height(b)' <= Height(t)' /\ (b # 0 => Height(b)' > 0)
      BY <1>1, <1>3, <1>5, <1>8, <2>1, <3>2
    <3> QED BY <1>1, <2>1, <3>1, <3>2, <3>3, <3>4
  <2>2. CASE b = n
    <3>1. Branch(p) \subseteq Blocks /\ 0 \in Branch(p) /\ p \in Branch(p)
      BY DEF TreeInv
    <3>2. \A c \in Branch(p) : /\ Height(c)' = Height(c) /\ Branch(c)' = Branch(c) /\ PaidIn(c)' = PaidIn(c)
                               /\ c # n
      BY <1>1, <3>1
    <3>3. \A c \in Branch(p) : /\ Branch(c) \subseteq Branch(p)
                               /\ Height(c) < Height(p) + 1 /\ Height(c) \in Nat
      BY <1>3, <1>5, <3>1 DEF TreeInv
    <3>4. \A c, e \in Branch(p) : /\ Height(c) <= Height(e) => c \in Branch(e)
                                  /\ PaidIn(c) \cap PaidIn(e) # {} => c = e
      BY DEF TreeInv
    <3>5. \A c \in Branch(p) : PaidIn(c) \cap paid = {}
      BY <1>6 DEF PaidOn
    <3>6. Height(b)' <= Height(t)' /\ (b # 0 => Height(b)' > 0)
      BY <1>1, <1>5, <1>8, <2>2
    <3>7. Branch(b)' = Branch(p) \cup {n}
      BY <1>1, <2>2
    <3>8. 0 \in Branch(b)' /\ b \in Branch(b)' /\ Branch(b)' \subseteq Blocks'
      BY <1>1, <2>2, <3>1, <3>7
    <3>9. \A c \in Branch(b)' : Branch(c)' \subseteq Branch(b)' /\ (c # b => Height(c)' < Height(b)')
      BY <1>1, <2>2, <3>2, <3>3, <3>7
    <3>10. \A c, e \in Branch(b)' : Height(c)' <= Height(e)' => c \in Branch(e)'
      <4>1. SUFFICES ASSUME NEW c \in Branch(b)', NEW e \in Branch(b)', Height(c)' <= Height(e)'
                     PROVE  c \in Branch(e)'
        OBVIOUS
      <4>2. CASE e = n
        BY <1>1, <3>7, <4>2
      <4>3. CASE e # n /\ c # n
        BY <3>2, <3>4, <3>7, <4>1, <4>3
      <4>4. CASE e # n /\ c = n
        <5>1. e \in Branch(p) /\ Height(e)' = Height(e)
          BY <3>2, <3>7, <4>4
        <5>2. Height(c)' = Height(p) + 1
          BY <1>1, <4>4
        <5> QED BY <1>5, <3>3, <4>1, <5>1, <5>2
      <4> QED BY <4>2, <4>3, <4>4
    <3>11. \A c, e \in Branch(b)' : PaidIn(c)' \cap PaidIn(e)' # {} => c = e
      BY <1>1, <3>2, <3>4, <3>5, <3>7
    <3> QED BY <3>6, <3>8, <3>9, <3>10, <3>11
  <2> QED BY <1>1, <2>1, <2>2
<1>10. TreeInv'
  BY <1>1, <1>8, <1>9 DEF TreeInv
<1> QED BY <1>0, <1>7, <1>10

-------------------------------------------------------------------------------
(* The inductive invariant.                                                *)

DepositRecord == [state : DepositStates, block : Nat, height : Nat]

Answer == [confs : Int, block : Nat]

PendingRecord == [state : {"SEEN_MEMPOOL", "CONFIRMED"}, block : Nat, height : Nat]

Row == [id : Payments, row : PendingRecord]

PollRecord ==
  {Idle}
    \cup [pc : {"orphans"}, tip : Blocks, orphaned : SUBSET Blocks, added : SUBSET Blocks]
    \cup [pc : {"record"}, tip : Blocks, added : SUBSET Blocks, block : Blocks,
          todo : SUBSET Payments, complete : BOOLEAN]
    \cup [pc : {"advance"}, tip : Blocks, added : SUBSET Blocks, block : Blocks,
          complete : BOOLEAN, rows : SUBSET Row]
    \cup [pc : {"moved", "answered"}, tip : Blocks, added : SUBSET Blocks, block : Blocks,
          complete : BOOLEAN, rows : SUBSET Row, ask : Row, status : Answer]

MemRecord == [tip : Blocks \cup {-1}, window : SUBSET Blocks, held : BOOLEAN, up : BOOLEAN]

(* A deposit has a block that pays it, and is final only where it stays.   *)
DepositsInv ==
  /\ deposit \in [Payments -> DepositRecord]
  /\ \A d \in Payments :
       /\ deposit[d].state = "UNSEEN" => deposit[d] = Unseen
       /\ deposit[d] # Unseen =>
            /\ deposit[d].block \in Blocks /\ d \in PaidIn(deposit[d].block)
            /\ deposit[d].height \in 1 .. Height(tip)
       /\ deposit[d].state = "FINALIZED" => Confirmations(d) >= FinalConfirmations

(* What the node answers about d, now or before. *)
AnswerHolds(d, status) ==
  /\ status \in Answer
  /\ status.confs >= FinalConfirmations => Confirmations(d) >= FinalConfirmations
  /\ status.confs >= 1 => status.block \in Blocks /\ d \in PaidIn(status.block)

(* Also an old answer is of a payment that is final if it says so. *)
CacheInv ==
  /\ cache \in [Watchers -> [Payments -> Answer]]
  /\ \A w \in Watchers, d \in Payments :
       /\ cache[w][d].confs >= FinalConfirmations => Confirmations(d) >= FinalConfirmations
       /\ cache[w][d].confs >= 1 => cache[w][d].block \in Blocks /\ d \in PaidIn(cache[w][d].block)

(* w began at this block or above it, or accounted for its payments. *)
Done(w, b) == b \in Branch(start[w]) \/ \A d \in PaidIn(b) : Accounted(d)

Covered(w, b) == \A c \in Branch(b) : Done(w, c)

(* The blocks a poll has yet to work through. *)
Left(p) == IF p.pc = "orphans" THEN p.added ELSE p.added \cup {p.block}

(* While the cursor is not held, each block of the window is worked        *)
(* through; it is the cursor's next value, or an ancestor of it.           *)
MemInv(w) ==
  /\ mem[w].tip \in mem[w].window \cup {-1}
  /\ mem[w].window # {} \/ cursor[w] # -1 \/ poll[w] # Idle => start[w] # -1
  /\ cursor[w] # -1 => Covered(w, cursor[w])
  /\ ~mem[w].held => \A b \in mem[w].window : Covered(w, b)

Asked == {"moved", "answered"}

Advancing == {"advance"} \cup Asked

(* A poll works upwards, so what it has left is above what it has done.    *)
PollInv(w) ==
  LET p == poll[w]
  IN  /\ p # Idle =>
           /\ p.added \subseteq Branch(p.tip) /\ p.tip \in mem[w].window \cup Left(p)
           /\ ~mem[w].held => \A c \in Branch(p.tip) \ Left(p) : Done(w, c)
      /\ p.pc \notin {"idle", "orphans"} =>
           p.block \in Branch(p.tip) /\ \A c \in p.added : Height(p.block) < Height(c)
      /\ p.pc = "record" => p.todo \subseteq PaidIn(p.block)
      /\ p.pc = "record" /\ p.complete => \A d \in PaidIn(p.block) \ p.todo : Accounted(d)
      /\ p.pc \in Advancing =>
           /\ p.complete => \A d \in PaidIn(p.block) : Accounted(d)
           /\ \A r \in p.rows : deposit[r.id] # Unseen
      /\ p.pc \in Asked => deposit[p.ask.id] # Unseen /\ AnswerHolds(p.ask.id, p.status)
      /\ p.pc = "moved" => p.status.confs >= 1

Clean == FromGenesis /\ errors = 0 /\ stale = 0

(* Confirmed, and no longer on the active chain. *)
Lost(d) == deposit[d].state = "CONFIRMED" /\ Confirmations(d) = 0

(* Who has come to the tip got an answer, if any, on its branch. *)
TipInv(w) ==
  /\ tip \in mem[w].window \cup {cursor[w]} => poll[w] = Idle \/ poll[w].tip = tip
  /\ stale = 0 /\ poll[w].pc \in Asked /\ poll[w].tip = tip /\ poll[w].status.confs >= 1 =>
       \A d \in Payments : d = poll[w].ask.id => Confirmations(d) > 0

(* w has yet to work through the tip, and to roll back d when it does: d is*)
(* in its rows, or it holds the answer that d is not confirmed.            *)
NotYet(w, d) ==
  /\ tip \notin mem[w].window \cup {cursor[w]}
  /\ poll[w].pc \in Advancing /\ poll[w].block = tip =>
       \/ \E r \in poll[w].rows : r.id = d /\ r.row.state = "CONFIRMED"
       \/ /\ poll[w].pc = "answered" /\ poll[w].status.confs < 1
          /\ poll[w].ask.id = d /\ poll[w].ask.row.state = "CONFIRMED"

(* Some watcher will still roll back what is lost: an answer from before a *)
(* reorganisation is used by one that has yet to come to the tip.          *)
LostInv == Clean => \A d \in Payments : Lost(d) => \E w \in Watchers : NotYet(w, d)

WatcherInv ==
  /\ TreeInv /\ DepositsInv /\ CacheInv
  /\ mem \in [Watchers -> MemRecord] /\ poll \in [Watchers -> PollRecord]
  /\ cursor \in [Watchers -> Blocks \cup {-1}] /\ start \in [Watchers -> Blocks \cup {-1}]
  /\ errors \in Nat /\ stale \in Nat
  /\ \A w \in Watchers : MemInv(w) /\ PollInv(w) /\ TipInv(w)
  /\ LostInv

-------------------------------------------------------------------------------
(* What every step keeps.                                                  *)

ChainKept ==
  /\ Blocks \subseteq Blocks' /\ tip' \in {tip} \cup (Nat \ Blocks)
  /\ \A b \in Blocks : Height(b)' = Height(b) /\ Branch(b)' = Branch(b) /\ PaidIn(b)' = PaidIn(b)

MoreDeposits == \A d \in Payments : deposit[d] # Unseen => deposit'[d] # Unseen

FinalKept ==
  \A d \in Payments : Confirmations(d) >= FinalConfirmations => Confirmations(d)' >= FinalConfirmations

(* What is lost after a step of w, w or another watcher will roll back. *)
LossKept(w) ==
  Clean' => \A d \in Payments :
    Lost(d)' => NotYet(w, d)' \/ (Clean /\ Lost(d) /\ ~NotYet(w, d))

(* Nothing of v changes. *)
Same(v) == mem'[v] = mem[v] /\ poll'[v] = poll[v] /\ cursor'[v] = cursor[v] /\ start'[v] = start[v]

LEMMA AccountedStays ==
  ASSUME MoreDeposits, NEW d \in Payments, Accounted(d)
  PROVE  Accounted(d)'
BY IngestAssumption DEF MoreDeposits, Accounted, Recordable, Unseen

LEMMA DoneStays ==
  ASSUME WatcherInv, ChainKept, MoreDeposits, NEW w \in Watchers, start'[w] = start[w],
         start[w] # -1, NEW b \in Blocks, Done(w, b)
  PROVE  Done(w, b)'
<1>1. PICK s \in Blocks : s = start[w]
  BY DEF WatcherInv
<1>2. Branch(s)' = Branch(s) /\ PaidIn(b)' = PaidIn(b) /\ PaidIn(b) \subseteq Payments
  BY BlockFacts DEF ChainKept, WatcherInv
<1>3. Branch(start[w])' = Branch(s)'
  BY <1>1 DEF Branch
<1>4. CASE b \in Branch(start[w])
  BY <1>1, <1>2, <1>3, <1>4 DEF Done
<1>5. CASE \A d \in PaidIn(b) : Accounted(d)
  BY <1>2, <1>5, AccountedStays DEF Done
<1> QED BY <1>4, <1>5 DEF Done

LEMMA CoveredStays ==
  ASSUME WatcherInv, ChainKept, MoreDeposits, NEW w \in Watchers, start'[w] = start[w],
         start[w] # -1, NEW b \in Blocks, Covered(w, b)
  PROVE  Covered(w, b)'
<1>1. Branch(b)' = Branch(b) /\ Branch(b) \subseteq Blocks
  BY DEF ChainKept, WatcherInv, TreeInv
<1> QED BY <1>1, DoneStays DEF Covered

LEMMA SameMem ==
  ASSUME WatcherInv, ChainKept, MoreDeposits, NEW v \in Watchers, mem'[v] = mem[v],
         cursor'[v] = cursor[v], start'[v] = start[v], poll'[v] # Idle => start[v] # -1
  PROVE  MemInv(v)'
<1>1. /\ mem[v] \in MemRecord /\ cursor[v] \in Blocks \cup {-1} /\ MemInv(v)
  BY DEF WatcherInv
<1>2. mem'[v] = mem[v] /\ cursor'[v] = cursor[v] /\ start'[v] = start[v]
  OBVIOUS
<1>3. /\ mem[v].tip \in mem[v].window \cup {-1}
      /\ mem[v].window # {} \/ cursor[v] # -1 \/ poll[v] # Idle => start[v] # -1
      /\ cursor[v] # -1 => Covered(v, cursor[v])
      /\ ~mem[v].held => \A b \in mem[v].window : Covered(v, b)
  BY <1>1 DEF MemInv
<1>4. cursor'[v] # -1 => Covered(v, cursor[v])'
  <2>1. SUFFICES ASSUME cursor[v] # -1 PROVE Covered(v, cursor[v])'
    BY <1>2
  <2>2. PICK c \in Blocks : c = cursor[v]
    BY <1>1, <2>1
  <2>3. Covered(v, c)'
    BY <1>2, <1>3, <2>1, <2>2, CoveredStays
  <2> QED BY <1>2, <2>2, <2>3
<1>5. ~mem'[v].held => \A b \in mem'[v].window : Covered(v, b)'
  <2>1. SUFFICES ASSUME ~mem[v].held, NEW b \in mem[v].window PROVE Covered(v, b)'
    BY <1>2
  <2>2. b \in Blocks
    BY <1>1 DEF MemRecord
  <2> QED BY <1>2, <1>3, <2>1, <2>2, CoveredStays
<1> QED BY <1>2, <1>3, <1>4, <1>5 DEF MemInv

LEMMA ConfirmationsKept ==
  ASSUME TreeInv, ChainKept, tip' = tip, NEW d
  PROVE  Confirmations(d)' = Confirmations(d) /\ InBlock(d)' = InBlock(d) /\ Height(tip)' = Height(tip)
<1>1. PICK t \in Blocks : t = tip /\ t = tip'
  BY DEF TreeInv
<1>2. Branch(t) \subseteq Blocks /\ Branch(t)' = Branch(t) /\ Height(t)' = Height(t)
  BY DEF ChainKept, TreeInv
<1>3. InBlock(d)' = InBlock(d)
  BY <1>1, <1>2 DEF InBlock, ChainKept
<1>4. Height(tip)' = Height(tip)
  BY <1>1, <1>2
<1>5. CASE InBlock(d) = {}
  BY <1>3, <1>4, <1>5 DEF Confirmations
<1>6. CASE InBlock(d) # {}
  <2>1. PICK b : InBlock(d) = {b} /\ b \in Blocks /\ Confirmations(d) = Height(tip) - Height(b) + 1
    BY <1>6, OnceActive
  <2>2. Highest(InBlock(d))' = b
    BY <1>3, <2>1 DEF Highest
  <2>3. Height(Highest(InBlock(d)))' = Height(b)' /\ Height(b)' = Height(b)
    BY <2>1, <2>2 DEF Height, ChainKept
  <2> QED BY <1>3, <1>4, <1>6, <2>1, <2>3 DEF Confirmations
<1> QED BY <1>3, <1>4, <1>5, <1>6

LEMMA AnswerStays ==
  ASSUME ChainKept, FinalKept, NEW d \in Payments, NEW status, AnswerHolds(d, status)
  PROVE  AnswerHolds(d, status)'
BY DEF ChainKept, FinalKept, AnswerHolds

LEMMA SamePoll ==
  ASSUME WatcherInv, ChainKept, MoreDeposits, FinalKept, NEW v \in Watchers, Same(v)
  PROVE  PollInv(v)'
<1>1. PICK p \in PollRecord : p = poll[v] /\ p = poll'[v]
  BY DEF WatcherInv, Same
<1>2. mem'[v] = mem[v] /\ start'[v] = start[v]
  BY DEF Same
<1>3. /\ p # Idle =>
           /\ p.added \subseteq Branch(p.tip) /\ p.tip \in mem[v].window \cup Left(p)
           /\ ~mem[v].held => \A c \in Branch(p.tip) \ Left(p) : Done(v, c)
      /\ p.pc \notin {"idle", "orphans"} =>
           p.block \in Branch(p.tip) /\ \A c \in p.added : Height(p.block) < Height(c)
      /\ p.pc = "record" => p.todo \subseteq PaidIn(p.block)
      /\ p.pc = "record" /\ p.complete => \A d \in PaidIn(p.block) \ p.todo : Accounted(d)
      /\ p.pc \in Advancing =>
           /\ p.complete => \A d \in PaidIn(p.block) : Accounted(d)
           /\ \A r \in p.rows : deposit[r.id] # Unseen
      /\ p.pc \in Asked => deposit[p.ask.id] # Unseen /\ AnswerHolds(p.ask.id, p.status)
      /\ p.pc = "moved" => p.status.confs >= 1
  BY <1>1 DEF WatcherInv, PollInv
<1>4. p # Idle => start[v] # -1
  BY <1>1 DEF WatcherInv, MemInv
<1>5. p # Idle => p.tip \in Blocks /\ p.added \subseteq Blocks
  BY DEF PollRecord
<1>6. p.pc \notin {"idle", "orphans"} => p # Idle /\ p.block \in Blocks
  BY DEF PollRecord, Idle
<1>7. /\ p.pc \in Advancing => \A r \in p.rows : r.id \in Payments
      /\ p.pc \in Asked => p.ask.id \in Payments
  BY DEF PollRecord, Idle, Row, Advancing, Asked
<1>8. p # Idle => Branch(p.tip)' = Branch(p.tip) /\ Branch(p.tip) \subseteq Blocks
  BY <1>5 DEF ChainKept, WatcherInv, TreeInv
<1>9. p # Idle /\ ~mem'[v].held => \A c \in Branch(p.tip)' \ Left(p) : Done(v, c)'
  BY <1>2, <1>3, <1>4, <1>8, DoneStays
<1>10. p.pc \notin {"idle", "orphans"} => \A c \in p.added : Height(p.block)' < Height(c)'
  BY <1>3, <1>5, <1>6 DEF ChainKept
<1>11. p.pc \notin {"idle", "orphans"} =>
         PaidIn(p.block)' = PaidIn(p.block) /\ PaidIn(p.block) \subseteq Payments
  BY <1>6, BlockFacts DEF ChainKept, WatcherInv
<1>12. p.pc = "record" => p.todo \subseteq PaidIn(p.block)'
  BY <1>3, <1>11
<1>13. p.pc = "record" /\ p.complete => \A d \in PaidIn(p.block)' \ p.todo : Accounted(d)'
  BY <1>3, <1>11, AccountedStays
<1>14. p.pc \in Advancing /\ p.complete => \A d \in PaidIn(p.block)' : Accounted(d)'
  BY <1>3, <1>11, AccountedStays DEF Advancing, Asked
<1>15. p.pc \in Advancing => \A r \in p.rows : deposit'[r.id] # Unseen
  BY <1>3, <1>7 DEF MoreDeposits
<1>16. p.pc \in Asked => deposit'[p.ask.id] # Unseen /\ AnswerHolds(p.ask.id, p.status)'
  BY <1>3, <1>7, AnswerStays DEF MoreDeposits
<1>17. Left(p)' = Left(p)
  BY DEF Left
<1> HIDE DEF PollRecord
<1> QED
  <2>1. p # Idle =>
           /\ p.added \subseteq Branch(p.tip)' /\ p.tip \in mem'[v].window \cup Left(p)
           /\ ~mem'[v].held => \A c \in Branch(p.tip)' \ Left(p) : Done(v, c)'
    BY <1>2, <1>3, <1>8, <1>9
  <2>2. p.pc \notin {"idle", "orphans"} =>
           p.block \in Branch(p.tip)' /\ \A c \in p.added : Height(p.block)' < Height(c)'
    BY <1>3, <1>6, <1>8, <1>10
  <2> QED BY <1>1, <1>3, <1>12, <1>13, <1>14, <1>15, <1>16, <2>1, <2>2, Zenon DEF PollInv, Left

(* What a watcher has seen of the tip, another does not change. *)
LEMMA SameTip ==
  ASSUME WatcherInv, ChainKept, stale' = 0 => stale = 0, NEW v \in Watchers, Same(v)
  PROVE  TipInv(v)'
<1>1. /\ mem[v] \in MemRecord /\ poll[v] \in PollRecord /\ cursor[v] \in Blocks \cup {-1}
      /\ TipInv(v) /\ TreeInv
  BY DEF WatcherInv
<1>2. mem'[v] = mem[v] /\ poll'[v] = poll[v] /\ cursor'[v] = cursor[v]
  BY DEF Same
<1>3. CASE tip' = tip
  <2>1. \A d \in Payments : Confirmations(d)' = Confirmations(d)
    BY <1>1, <1>3, ConfirmationsKept
  <2> QED BY <1>1, <1>2, <1>3, <2>1 DEF TipInv
<1>4. CASE tip' # tip
  <2>1. tip' \in Nat /\ tip' \notin Blocks
    BY <1>4 DEF ChainKept
  <2>2. mem[v].window \subseteq Blocks /\ (poll[v].pc \in Asked => poll[v].tip \in Blocks)
    BY <1>1 DEF MemRecord, PollRecord, Idle, Asked
  <2> QED BY <1>1, <1>2, <2>1, <2>2 DEF TipInv
<1> QED BY <1>3, <1>4

LEMMA SameNotYet ==
  ASSUME NEW v \in Watchers, Same(v), tip' = tip, NEW d
  PROVE  NotYet(v, d)' = NotYet(v, d)
BY DEF Same, NotYet

(* An action of w disturbs no other watcher. *)
LEMMA Untouched ==
  ASSUME WatcherInv, ChainKept, MoreDeposits, FinalKept, stale' = 0 => stale = 0,
         NEW v \in Watchers, Same(v)
  PROVE  MemInv(v)' /\ PollInv(v)' /\ TipInv(v)'
<1>1. poll[v] # Idle => start[v] # -1
  BY DEF WatcherInv, MemInv
<1>2. /\ mem'[v] = mem[v] /\ poll'[v] = poll[v] /\ cursor'[v] = cursor[v] /\ start'[v] = start[v]
  BY DEF Same
<1> QED BY <1>1, <1>2, SameMem, SamePoll, SameTip

-------------------------------------------------------------------------------
(* New blocks.                                                             *)

(* A payment that is final keeps its block. *)
LEMMA FinalStays ==
  ASSUME TreeInv, ChainAssumption, NEW d, Confirmations(d) >= FinalConfirmations,
         NEW p \in Blocks, NEW paid \in SUBSET Payments, Mine(p, paid)
  PROVE  Confirmations(d)' >= FinalConfirmations
<1>0. PICK n : n = Len(blocks) + 1
  OBVIOUS
<1>1. /\ n \notin Blocks /\ n # 0 /\ n \in Nat /\ Blocks' = Blocks \cup {n}
      /\ \A b \in Blocks : Height(b)' = Height(b) /\ Branch(b)' = Branch(b) /\ PaidIn(b)' = PaidIn(b)
      /\ Height(n)' = Height(p) + 1 /\ Branch(n)' = Branch(p) \cup {n}
  BY <1>0, MineFacts
<1>2. TreeInv' /\ (tip' = tip \/ (tip' = n /\ Height(p) = Height(tip)))
  BY <1>0, TreeMine
<1>3. FinalConfirmations \in Nat \ {0} /\ tip \in Blocks
  BY DEF ChainAssumption, TreeInv
<1>4. PICK b \in InBlock(d) : TRUE
  BY <1>3, ConfirmationsType
<1>5. /\ b \in Blocks /\ b \in Branch(tip) /\ d \in PaidIn(b)
      /\ Confirmations(d) = Height(tip) - Height(b) + 1
  BY <1>4, OnceActive DEF InBlock
<1>6. Height(b) \in Nat /\ Height(tip) \in Nat /\ Height(p) \in Nat
  BY <1>3, <1>5, BlockFacts
<1>7. b \in Branch(p)
  <2> DEFINE Common == Branch(p) \cap Branch(tip)
  <2>1. Common \in SUBSET Blocks /\ Common # {}
    BY <1>3 DEF TreeInv
  <2>2. PICK f : f = ForkPoint(p, tip)
    OBVIOUS
  <2>3. f \in Common
    BY <2>1, <2>2, HighestOf DEF ForkPoint
  <2>4. Height(tip) - Height(f) < FinalConfirmations
    BY <2>2 DEF Mine
  <2>5. f \in Blocks /\ Height(f) \in Nat
    BY <2>1, <2>3, BlockFacts
  <2>6. Height(b) <= Height(f)
    BY <1>3, <1>5, <1>6, <2>4, <2>5
  <2>7. b \in Branch(f)
    BY <1>3, <1>5, <2>3, <2>6, OnBranch
  <2>8. Branch(f) \subseteq Branch(p)
    BY <2>3 DEF TreeInv
  <2> QED BY <2>7, <2>8
<1>8. PICK t : t = tip' /\ b \in Branch(t)' /\ Height(t)' \in Nat /\ Height(t)' >= Height(tip)
  BY <1>1, <1>2, <1>3, <1>5, <1>6, <1>7
<1>9. b \in InBlock(d)'
  BY <1>1, <1>5, <1>8 DEF InBlock
<1>10. Confirmations(d)' = Height(t)' - Height(b) + 1
  <2>1. InBlock(d)' = {b}
    BY <1>2, <1>8, <1>9 DEF InBlock, TreeInv
  <2>2. Highest(InBlock(d))' = b
    BY <2>1 DEF Highest
  <2>3. Height(Highest(InBlock(d)))' = Height(b)' /\ Height(b)' = Height(b) /\ Height(tip)' = Height(t)'
    BY <1>1, <1>5, <1>8, <2>2 DEF Height
  <2> QED BY <2>1, <2>3 DEF Confirmations
<1> QED BY <1>3, <1>5, <1>6, <1>8, <1>10

(* A new block leaves what watchers know true. *)
LEMMA GrowKeeps ==
  ASSUME WatcherInv, Grow
  PROVE  WatcherInv'
<1>1. TreeInv /\ DepositsInv /\ CacheInv
  BY DEF WatcherInv
<1>2. PICK p \in Blocks, paid \in SUBSET Payments : Mine(p, paid)
  BY DEF Grow, ChainNext
<1>3. /\ deposit' = deposit /\ cursor' = cursor /\ mem' = mem /\ poll' = poll /\ cache' = cache
      /\ start' = start /\ stale' = stale /\ errors' = errors
  BY DEF Grow, watcherVars
<1>4. TreeInv' /\ (tip' = tip \/ (tip' \in Blocks' \ Blocks /\ tip' = Len(blocks) + 1))
  BY <1>1, <1>2, TreeMine
<1>5. ChainKept
  <2>1. PICK n : n = Len(blocks) + 1
    OBVIOUS
  <2> QED BY <1>1, <1>2, <1>4, <2>1, MineFacts DEF ChainKept
<1>6. MoreDeposits
  BY <1>3 DEF MoreDeposits
<1>7. Clean' => Clean
  BY <1>3 DEF Clean, FromGenesis
<1>8. LostInv'
  <2>1. SUFFICES ASSUME Clean', NEW d \in Payments, Lost(d)'
                 PROVE  \E v \in Watchers : NotYet(v, d)'
    BY DEF LostInv
  <2>2. CASE tip' = tip
    <3>1. Lost(d)
      BY <1>1, <1>3, <1>5, <2>1, <2>2, ConfirmationsKept DEF Lost
    <3>2. PICK v \in Watchers : NotYet(v, d)
      BY <1>7, <2>1, <3>1 DEF WatcherInv, LostInv
    <3>3. Same(v)
      BY <1>3 DEF Same
    <3> QED BY <2>2, <3>2, <3>3, SameNotYet
  <2>3. CASE tip' # tip
    <3>1. PICK v \in Watchers : TRUE
      BY IngestAssumption DEF IngestAssumption
    <3>2. tip' \in Nat /\ tip' \notin Blocks
      BY <1>5, <2>3 DEF ChainKept
    <3>3. /\ mem[v] \in MemRecord /\ poll[v] \in PollRecord /\ cursor[v] \in Blocks \cup {-1}
      BY DEF WatcherInv
    <3>4. mem[v].window \subseteq Blocks /\ (poll[v].pc \in Advancing => poll[v].block \in Blocks)
      BY <3>3 DEF MemRecord, PollRecord, Idle, Advancing, Asked
    <3>5. NotYet(v, d)'
      BY <1>3, <3>2, <3>3, <3>4 DEF NotYet
    <3> QED BY <3>5
  <2> QED BY <2>2, <2>3
<1>9. \A d \in Payments : Confirmations(d) >= FinalConfirmations => Confirmations(d)' >= FinalConfirmations
  BY <1>1, <1>2, ChainAssumption, FinalStays
<1>14. \A v \in Watchers : MemInv(v)' /\ PollInv(v)' /\ TipInv(v)'
  BY <1>3, <1>5, <1>6, <1>7, <1>9, Untouched DEF Same, FinalKept
<1>10. Height(tip)' >= Height(tip) /\ Height(tip)' \in Nat /\ Height(tip) \in Nat
  <2>1. PICK t : t = tip /\ t \in Blocks /\ t \in Blocks' /\ Height(t)' = Height(t) /\ Height(t) \in Nat
    BY <1>1, <1>5, BlockFacts DEF TreeInv, ChainKept
  <2>2. Height(t)' <= Height(tip)'
    BY <1>4, <2>1 DEF TreeInv
  <2>3. CASE tip' = tip
    BY <2>1, <2>3
  <2>4. CASE tip' # tip
    <3>1. PICK n : n = Len(blocks) + 1 /\ n = tip'
      BY <1>4, <2>4
    <3>2. Height(n)' = Height(p) + 1 /\ Height(p) \in Nat
      BY <1>1, <1>2, <3>1, MineFacts, BlockFacts
    <3> QED BY <2>1, <2>2, <3>1, <3>2
  <2> QED BY <2>3, <2>4
<1>11. DepositsInv'
  BY <1>1, <1>3, <1>5, <1>9, <1>10 DEF DepositsInv, ChainKept
<1>12. CacheInv'
  BY <1>1, <1>3, <1>5, <1>9 DEF CacheInv, ChainKept
<1>13. /\ mem' \in [Watchers -> MemRecord'] /\ poll' \in [Watchers -> PollRecord']
       /\ cursor' \in [Watchers -> Blocks' \cup {-1}] /\ start' \in [Watchers -> Blocks' \cup {-1}]
       /\ errors' \in Nat /\ stale' \in Nat
  <2>1. Blocks \subseteq Blocks'
    BY <1>5 DEF ChainKept
  <2>2. MemRecord \subseteq MemRecord'
    BY <2>1 DEF MemRecord
  <2>3. PollRecord \subseteq PollRecord'
    BY <2>1 DEF PollRecord
  <2> QED BY <1>3, <2>1, <2>2, <2>3 DEF WatcherInv
<1> QED BY <1>4, <1>8, <1>11, <1>12, <1>13, <1>14 DEF WatcherInv

-------------------------------------------------------------------------------
(* Steps of one watcher.                                                   *)

LEMMA QuietChain ==
  ASSUME WatcherInv, UNCHANGED chainVars
  PROVE  /\ TreeInv /\ TreeInv' /\ ChainKept /\ tip' = tip /\ Blocks' = Blocks /\ Height(tip)' = Height(tip)
         /\ \A d \in Payments : Confirmations(d)' = Confirmations(d) /\ TxStatus(d)' = TxStatus(d)
<1>1. blocks' = blocks /\ tip' = tip /\ TreeInv
  BY DEF chainVars, WatcherInv
<1>2. Blocks' = Blocks /\ TreeInv'
  BY <1>1 DEF Blocks, TreeInv, Height, Branch, PaidIn
<1>3. ChainKept
  BY <1>1, <1>2 DEF ChainKept, Height, Branch, PaidIn
<1>4. \A d \in Payments : Confirmations(d)' = Confirmations(d) /\ InBlock(d)' = InBlock(d)
  BY <1>1, <1>3, ConfirmationsKept
<1>5. Height(tip)' = Height(tip)
  BY <1>1 DEF Height
<1>6. ASSUME NEW d \in Payments PROVE TxStatus(d)' = TxStatus(d)
  <2>1. Highest(InBlock(d))' = Highest(InBlock(d))
    BY <1>1, <1>4 DEF Highest, Height
  <2> QED BY <1>4, <1>6, <2>1 DEF TxStatus
<1> QED BY <1>1, <1>2, <1>3, <1>4, <1>5, <1>6

(* A step that leaves deposits, or the answers about them, alone. *)
LEMMA QuietDeposits ==
  ASSUME WatcherInv, UNCHANGED chainVars
  PROVE  /\ deposit' = deposit =>
              DepositsInv' /\ MoreDeposits /\ \A d \in Payments : Lost(d)' => Lost(d)
         /\ cache' = cache => CacheInv'
<1>1. UNCHANGED chainVars
  OBVIOUS
<1>2. /\ ChainKept /\ Blocks' = Blocks /\ Height(tip)' = Height(tip)
      /\ \A d \in Payments : Confirmations(d)' = Confirmations(d)
  BY <1>1, QuietChain
<1>3. DepositsInv /\ CacheInv
  BY DEF WatcherInv
<1>4. deposit' = deposit => DepositsInv'
  BY <1>2, <1>3 DEF DepositsInv, ChainKept
<1>5. cache' = cache => CacheInv'
  BY <1>2, <1>3 DEF CacheInv, ChainKept
<1> QED BY <1>2, <1>4, <1>5 DEF MoreDeposits, Lost

(* What is left to show of a step that changes deposits. *)
LEMMA DepositsHold ==
  ASSUME WatcherInv, UNCHANGED chainVars, deposit' \in [Payments -> DepositRecord],
         \A d \in Payments :
           /\ deposit'[d].state = "UNSEEN" => deposit'[d] = Unseen
           /\ deposit'[d] # Unseen =>
                \E b \in Blocks : /\ b = deposit'[d].block /\ d \in PaidIn(b)
                                  /\ deposit'[d].height \in 1 .. Height(tip)
           /\ deposit'[d].state = "FINALIZED" => Confirmations(d) >= FinalConfirmations
  PROVE  DepositsInv'
<1>1. /\ ChainKept /\ Blocks' = Blocks /\ Height(tip)' = Height(tip)
      /\ \A d \in Payments : Confirmations(d)' = Confirmations(d)
  BY QuietChain
<1>2. ASSUME NEW d \in Payments, deposit'[d] # Unseen
      PROVE  /\ deposit'[d].block \in Blocks' /\ (d \in PaidIn(deposit[d].block))'
             /\ deposit'[d].height \in 1 .. Height(tip)'
  <2>1. PICK b \in Blocks : /\ b = deposit'[d].block /\ d \in PaidIn(b)
                            /\ deposit'[d].height \in 1 .. Height(tip)
    BY <1>2
  <2>2. d \in PaidIn(b)'
    BY <1>1, <2>1 DEF ChainKept
  <2>3. (d \in PaidIn(deposit[d].block))'
    BY <2>1, <2>2 DEF PaidIn
  <2> QED BY <1>1, <2>1, <2>3
<1> QED BY <1>1, <1>2 DEF DepositsInv

(* What is left to show of a step of w. *)
LEMMA StepOf ==
  ASSUME WatcherInv, NEW w \in Watchers, UNCHANGED chainVars,
         mem' \in [Watchers -> MemRecord], poll' \in [Watchers -> PollRecord],
         cursor' \in [Watchers -> Blocks \cup {-1}], start' \in [Watchers -> Blocks \cup {-1}],
         errors' \in Nat, stale' \in Nat, \A v \in Watchers \ {w} : Same(v),
         MoreDeposits, LossKept(w), stale' = 0 => stale = 0, DepositsInv', CacheInv',
         MemInv(w)' /\ PollInv(w)' /\ TipInv(w)'
  PROVE  WatcherInv'
<1>1. TreeInv' /\ ChainKept /\ FinalKept /\ Blocks' = Blocks /\ tip' = tip
  BY QuietChain DEF FinalKept
<1>2. \A v \in Watchers \ {w} : MemInv(v)' /\ PollInv(v)' /\ TipInv(v)'
  BY <1>1, Untouched
<1>3. MemRecord' = MemRecord /\ PollRecord' = PollRecord
  BY <1>1 DEF MemRecord, PollRecord
<1>4. LostInv'
  <2>1. SUFFICES ASSUME Clean', NEW d \in Payments, Lost(d)', ~NotYet(w, d)'
                 PROVE  \E v \in Watchers : NotYet(v, d)'
    BY DEF LostInv
  <2>2. Clean /\ Lost(d) /\ ~NotYet(w, d)
    BY <2>1 DEF LossKept
  <2>3. PICK v \in Watchers : NotYet(v, d)
    BY <2>2 DEF WatcherInv, LostInv
  <2>4. NotYet(v, d)'
    BY <1>1, <2>2, <2>3, SameNotYet
  <2> QED BY <2>4
<1> QED BY <1>1, <1>2, <1>3, <1>4 DEF WatcherInv

(* A step of w before it advances deposits. *)
LEMMA QuietLoss ==
  ASSUME WatcherInv, NEW w \in Watchers, UNCHANGED chainVars, Clean' => Clean, stale' = stale,
         \A d \in Payments : Lost(d)' => Lost(d), mem'[w].window = mem[w].window,
         cursor'[w] = cursor[w], poll'[w].pc \notin Advancing,
         \/ poll'[w] = Idle \/ poll'[w].tip = tip
         \/ poll[w] # Idle /\ poll'[w].tip = poll[w].tip
  PROVE  TipInv(w)' /\ LossKept(w)
<1>1. tip' = tip
  BY DEF chainVars
<1>2. TipInv(w)
  BY DEF WatcherInv
<1>3. TipInv(w)'
  BY <1>1, <1>2 DEF TipInv, Advancing, Asked
<1>4. \A d \in Payments : NotYet(w, d) => NotYet(w, d)'
  BY <1>1 DEF NotYet
<1> QED BY <1>3, <1>4 DEF LossKept

(* A watcher sets its tip and its window. *)
Moved(w, t, window, up) == [mem EXCEPT ![w].tip = t, ![w].window = window, ![w].up = up]

LEMMA MemMoves ==
  ASSUME mem \in [Watchers -> MemRecord], NEW w \in Watchers, NEW t \in Blocks \cup {-1},
         NEW window \in SUBSET Blocks, NEW up \in BOOLEAN,
         mem' = Moved(w, t, window, up)
  PROVE  /\ mem' \in [Watchers -> MemRecord] /\ mem'[w].tip = t /\ mem'[w].window = window
         /\ mem'[w].held = mem[w].held /\ \A v \in Watchers \ {w} : mem'[v] = mem[v]
<1>1. PICK f : f = [mem EXCEPT ![w].tip = t]
  OBVIOUS
<1>2. /\ f \in [Watchers -> MemRecord] /\ f[w].tip = t /\ f[w].held = mem[w].held
      /\ \A v \in Watchers \ {w} : f[v] = mem[v]
  BY <1>1 DEF MemRecord
<1>3. PICK g : g = [f EXCEPT ![w].window = window]
  OBVIOUS
<1>4. /\ g \in [Watchers -> MemRecord] /\ g[w].tip = t /\ g[w].held = mem[w].held
      /\ g[w].window = window /\ \A v \in Watchers \ {w} : g[v] = mem[v]
  BY <1>2, <1>3 DEF MemRecord
<1>5. PICK h : h = [g EXCEPT ![w].up = up]
  OBVIOUS
<1>6. mem' = h
  BY <1>1, <1>3, <1>5 DEF Moved
<1>7. /\ h \in [Watchers -> MemRecord] /\ h[w].tip = t /\ h[w].held = mem[w].held
      /\ h[w].window = window /\ \A v \in Watchers \ {w} : h[v] = mem[v]
  BY <1>4, <1>5 DEF MemRecord
<1> QED BY <1>6, <1>7

LEMMA BootstrapKeeps ==
  ASSUME WatcherInv, NEW w \in Watchers, Bootstrap(w)
  PROVE  WatcherInv'
<1>1. /\ UNCHANGED <<chainVars, deposit, cache>> /\ UNCHANGED chainVars
      /\ cursor' = cursor /\ poll' = poll /\ stale' = stale /\ errors' = errors
      /\ poll[w] = Idle /\ cursor[w] = -1
      /\ start' = [start EXCEPT ![w] = tip]
      /\ mem' = [mem EXCEPT ![w].tip = tip, ![w].window = {tip}, ![w].up = TRUE]
  BY DEF Bootstrap
<1>2. /\ mem \in [Watchers -> MemRecord] /\ poll \in [Watchers -> PollRecord]
      /\ cursor \in [Watchers -> Blocks \cup {-1}] /\ start \in [Watchers -> Blocks \cup {-1}]
      /\ errors \in Nat /\ stale \in Nat /\ tip \in Blocks
  BY DEF WatcherInv, TreeInv
<1>3. /\ TreeInv /\ TreeInv' /\ ChainKept /\ tip' = tip /\ Blocks' = Blocks
      /\ DepositsInv' /\ CacheInv' /\ MoreDeposits /\ \A d \in Payments : Lost(d)' => Lost(d)
  BY <1>1, QuietChain, QuietDeposits
<1>4. /\ mem' \in [Watchers -> MemRecord] /\ start' \in [Watchers -> Blocks \cup {-1}]
      /\ mem'[w].tip = tip /\ mem'[w].window = {tip} /\ start'[w] = tip
  <2>1. PICK t \in Blocks \cup {-1}, window \in SUBSET Blocks, up \in BOOLEAN :
          t = tip /\ window = {tip} /\ up = TRUE
    BY <1>2
  <2>4. mem' = Moved(w, t, window, up)
    BY <1>1, <2>1, Zenon DEF Moved
  <2>2. mem' \in [Watchers -> MemRecord] /\ mem'[w].tip = t /\ mem'[w].window = window
    BY <1>2, <2>4, MemMoves
  <2>3. start' \in [Watchers -> Blocks \cup {-1}] /\ start'[w] = tip
    BY <1>1, <1>2
  <2> QED BY <2>1, <2>2, <2>3
<1>5. \A v \in Watchers \ {w} : Same(v)
  BY <1>1, <1>2 DEF Same
<1>6. ASSUME Clean', NEW d \in Payments PROVE ~Lost(d)
  <2>1. tip = 0
    BY <1>4, <1>6 DEF Clean, FromGenesis
  <2>2. Height(tip) = 0
    BY <2>1 DEF Height
  <2>3. deposit[d] # Unseen => deposit[d].height \in 1 .. Height(tip)
    BY DEF WatcherInv, DepositsInv
  <2> QED BY <2>2, <2>3 DEF Lost, Unseen
<1>7. LossKept(w)
  BY <1>3, <1>6 DEF LossKept
<1>8. MemInv(w)'
  <2>1. PICK t \in Blocks : t = tip
    BY <1>2
  <2>2. Covered(w, t)'
    <3>1. Branch(start[w])' = Branch(t)'
      BY <1>4, <2>1 DEF Branch
    <3> QED BY <3>1 DEF Covered, Done
  <2>3. tip \in Int /\ tip # -1
    BY <1>2, BlockFacts, <1>3 DEF Blocks
  <2> QED BY <1>1, <1>4, <2>1, <2>2, <2>3 DEF MemInv
<1>9. PollInv(w)'
  BY <1>1 DEF PollInv, Idle, Advancing, Asked
<1>10. TipInv(w)'
  BY <1>1 DEF TipInv, Idle, Asked
<1> QED BY <1>1, <1>2, <1>3, <1>4, <1>5, <1>7, <1>8, <1>9, <1>10, StepOf

(* A poll goes back to a block it knows, and takes all blocks above it. *)
LEMMA DiffFacts ==
  ASSUME TreeInv, NEW window \in SUBSET Blocks, Branch(tip) \cap window # {},
         NEW p, p = Diff(window, tip)
  PROVE  /\ p \in PollRecord /\ p # Idle /\ p.pc = "orphans" /\ p.tip = tip /\ Left(p) = p.added
         /\ p.added \subseteq Branch(tip) /\ tip \in window \cup p.added
         /\ \A c \in Branch(tip) \ p.added : \E b \in window : c \in Branch(b)
<1> DEFINE Common == Branch(tip) \cap window
<1>1. Common \in SUBSET Blocks /\ Common # {} /\ tip \in Blocks
  BY DEF TreeInv
<1>2. PICK a : a = Highest(Branch(tip) \cap window)
  OBVIOUS
<1>3. a \in Branch(tip) /\ a \in window /\ a \in Blocks
  BY <1>1, <1>2, HighestOf
<1>4. p = [pc |-> "orphans", tip |-> tip, orphaned |-> {b \in window : Height(b) > Height(a)},
           added |-> {b \in Branch(tip) : Height(b) > Height(a)}]
  BY <1>2 DEF Diff
<1>5. p.pc = "orphans" /\ p.tip = tip /\ p.added = {b \in Branch(tip) : Height(b) > Height(a)}
  BY <1>4
<1>6. p \in PollRecord /\ p # Idle
  <2>1. Branch(tip) \subseteq Blocks
    BY <1>1 DEF TreeInv
  <2> QED BY <1>1, <1>4, <2>1 DEF PollRecord, Idle
<1>7. \A c \in Branch(tip) : c \in Blocks /\ Height(c) \in Nat /\ Height(a) \in Nat
  BY <1>1, <1>3, BlockFacts DEF TreeInv
<1>8. ASSUME NEW c \in Branch(tip), c \notin p.added PROVE c \in Branch(a)
  <2>1. Height(c) <= Height(a)
    BY <1>5, <1>7, <1>8
  <2> QED BY <1>1, <1>3, <2>1, OnBranch
<1>9. tip \in window \cup p.added
  <2>1. SUFFICES ASSUME tip \notin p.added PROVE tip = a
    BY <1>3
  <2>2. tip \in Branch(tip)
    BY <1>1 DEF TreeInv
  <2>3. tip \in Branch(a)
    BY <1>8, <2>1, <2>2
  <2>4. tip # a => Height(tip) < Height(a)
    BY <1>3, <2>3 DEF TreeInv
  <2> QED BY <1>1, <1>3, <1>7, <2>2, <2>4 DEF TreeInv
<1> QED BY <1>3, <1>5, <1>6, <1>8, <1>9 DEF Left

(* A poll that starts, or a catch-up, has its blocks left. *)
LEMMA DiffPollInv ==
  ASSUME WatcherInv, NEW w \in Watchers, UNCHANGED <<chainVars, deposit, cache>>,
         start'[w] = start[w], start[w] # -1, NEW window \in SUBSET Blocks, mem'[w].window = window,
         Branch(tip) \cap window # {}, poll'[w] = Diff(window, tip),
         ~mem'[w].held => \A b \in window : Covered(w, b)
  PROVE  PollInv(w)'
<1>1. PICK p : p = Diff(window, tip)
  OBVIOUS
<1>2. TreeInv /\ ChainKept /\ MoreDeposits /\ UNCHANGED chainVars
  BY QuietChain, QuietDeposits
<1>3. /\ p \in PollRecord /\ p # Idle /\ p.pc = "orphans" /\ p.tip = tip /\ Left(p) = p.added
      /\ p.added \subseteq Branch(tip) /\ tip \in window \cup p.added
      /\ \A c \in Branch(tip) \ p.added : \E b \in window : c \in Branch(b)
  BY <1>1, <1>2, DiffFacts
<1>4. PICK t \in Blocks : t = tip
  BY <1>2 DEF TreeInv
<1>5. Branch(t)' = Branch(t) /\ Branch(t) \subseteq Blocks
  BY <1>2, <1>4 DEF ChainKept, TreeInv
<1>6. ASSUME ~mem'[w].held, NEW c \in Branch(t) \ p.added PROVE Done(w, c)'
  <2>1. PICK b \in window : c \in Branch(b)
    BY <1>3, <1>4
  <2>2. Done(w, c)
    BY <1>6, <2>1 DEF Covered
  <2> QED BY <1>2, <1>5, <2>2, DoneStays
<1> HIDE DEF PollRecord
<1> QED BY <1>1, <1>3, <1>4, <1>5, <1>6 DEF PollInv, Left, Advancing, Asked

LEMMA CatchUpKeeps ==
  ASSUME WatcherInv, NEW w \in Watchers, CatchUp(w)
  PROVE  WatcherInv'
<1>1. /\ UNCHANGED <<chainVars, deposit, cache>> /\ UNCHANGED chainVars
      /\ cursor' = cursor /\ start' = start /\ stale' = stale /\ errors' = errors
      /\ poll[w] = Idle /\ cursor[w] # -1
      /\ mem' = Advance(w, Branch(cursor[w]), cursor[w])
      /\ poll' = [poll EXCEPT ![w] = IF tip = cursor[w] THEN Idle ELSE Diff(Branch(cursor[w]), tip)]
  BY DEF CatchUp
<1>2. /\ mem \in [Watchers -> MemRecord] /\ poll \in [Watchers -> PollRecord]
      /\ cursor \in [Watchers -> Blocks \cup {-1}] /\ start \in [Watchers -> Blocks \cup {-1}]
      /\ errors \in Nat /\ stale \in Nat /\ MemInv(w) /\ TreeInv
  BY DEF WatcherInv
<1>3. /\ TreeInv' /\ ChainKept /\ tip' = tip /\ Blocks' = Blocks
      /\ DepositsInv' /\ CacheInv' /\ MoreDeposits /\ \A d \in Payments : Lost(d)' => Lost(d)
  BY <1>1, QuietChain, QuietDeposits
<1>4. PICK c \in Blocks : c = cursor[w] /\ c = cursor'[w]
  BY <1>1, <1>2
<1>5. Branch(c) \in SUBSET Blocks /\ c \in Branch(c) /\ 0 \in Branch(c) /\ 0 \in Branch(tip) /\ tip \in Blocks
  BY <1>2 DEF TreeInv
<1>6. /\ mem' \in [Watchers -> MemRecord] /\ mem'[w].tip = c /\ mem'[w].window = Branch(c)
      /\ mem'[w].held = mem[w].held
  <2>1. PICK t \in Blocks \cup {-1}, window \in SUBSET Blocks, up \in BOOLEAN :
          t = c /\ window = Branch(c) /\ up = (tip = c)
    BY <1>5
  <2>2. mem' = Moved(w, t, window, up)
    BY <1>1, <1>4, <2>1, Zenon DEF Advance, Moved
  <2>3. /\ mem' \in [Watchers -> MemRecord] /\ mem'[w].tip = t /\ mem'[w].window = window
        /\ mem'[w].held = mem[w].held
    BY <1>2, <2>2, MemMoves
  <2> QED BY <2>1, <2>3
<1>7. start[w] # -1 /\ Covered(w, c) /\ c # -1
  BY <1>1, <1>2, <1>4 DEF MemInv
<1>8. \A b \in Branch(c) : Covered(w, b)
  <2>1. \A b \in Branch(c) : Branch(b) \subseteq Branch(c)
    BY <1>2 DEF TreeInv
  <2> QED BY <1>7, <2>1 DEF Covered
<1>9. poll'[w] = IF tip = c THEN Idle ELSE Diff(Branch(c), tip)
  BY <1>1, <1>2, <1>4
<1>10. Diff(Branch(c), tip) \in PollRecord /\ Diff(Branch(c), tip).pc = "orphans"
  BY <1>2, <1>5, DiffFacts
<1>11. poll' \in [Watchers -> PollRecord] /\ poll'[w].pc # "advance"
  <2>1. Idle \in PollRecord /\ Idle.pc = "idle"
    BY DEF PollRecord, Idle
  <2> HIDE DEF PollRecord
  <2> QED BY <1>1, <1>2, <1>4, <1>9, <1>10, <2>1
<1>12. \A v \in Watchers \ {w} : Same(v)
  BY <1>1, <1>2 DEF Same, Advance
<1>13. Clean' => Clean
  BY <1>1 DEF Clean, FromGenesis
<1>14. MemInv(w)'
  <2>1. Covered(w, c)' /\ \A b \in Branch(c) : Covered(w, b)'
    BY <1>1, <1>3, <1>5, <1>7, <1>8, CoveredStays
  <2> QED BY <1>1, <1>4, <1>5, <1>6, <1>7, <2>1 DEF MemInv
<1>15. PollInv(w)'
  <2>1. CASE tip = c
    BY <1>9, <2>1 DEF PollInv, Idle, Advancing, Asked
  <2>2. CASE tip # c
    BY <1>1, <1>5, <1>6, <1>7, <1>8, <1>9, <2>2, DiffPollInv
  <2> QED BY <2>1, <2>2
<1>16. TipInv(w)' /\ LossKept(w)
  <2>1. ASSUME tip \in Branch(c) PROVE tip = c
    <3>1. tip # c => Height(tip) < Height(c)
      BY <1>2, <2>1 DEF TreeInv
    <3>2. Height(c) <= Height(tip) /\ Height(c) \in Nat /\ Height(tip) \in Nat
      BY <1>2, <1>5, BlockFacts DEF TreeInv
    <3> QED BY <3>1, <3>2
  <2>2. poll'[w] = Idle \/ (poll'[w].tip = tip /\ poll'[w].pc = "orphans")
    BY <1>2, <1>5, <1>9, DiffFacts
  <2>3. \A d \in Payments : NotYet(w, d) => NotYet(w, d)'
    BY <1>1, <1>3, <1>4, <1>6, <2>1, <2>2 DEF NotYet, Idle, Advancing, Asked
  <2>4. TipInv(w)'
    BY <1>3, <2>2 DEF TipInv, Idle, Asked
  <2> QED BY <1>3, <1>13, <2>3, <2>4 DEF LossKept
<1> QED BY <1>1, <1>2, <1>3, <1>6, <1>11, <1>12, <1>13, <1>14, <1>15, <1>16, StepOf

LEMMA PollKeeps ==
  ASSUME WatcherInv, NEW w \in Watchers, Poll(w)
  PROVE  WatcherInv'
<1>1. /\ UNCHANGED <<chainVars, deposit, cache>> /\ UNCHANGED chainVars
      /\ cursor' = cursor /\ start' = start /\ mem' = mem /\ stale' = stale /\ errors' = errors
      /\ poll[w] = Idle /\ Branch(tip) \cap mem[w].window # {}
      /\ poll' = [poll EXCEPT ![w] = Diff(mem[w].window, tip)]
  BY DEF Poll
<1>2. /\ mem \in [Watchers -> MemRecord] /\ poll \in [Watchers -> PollRecord]
      /\ cursor \in [Watchers -> Blocks \cup {-1}] /\ start \in [Watchers -> Blocks \cup {-1}]
      /\ errors \in Nat /\ stale \in Nat /\ MemInv(w) /\ TreeInv
  BY DEF WatcherInv
<1>3. /\ ChainKept /\ tip' = tip /\ DepositsInv' /\ CacheInv' /\ MoreDeposits
      /\ \A d \in Payments : Lost(d)' => Lost(d)
  BY <1>1, QuietChain, QuietDeposits
<1>4. PICK window \in SUBSET Blocks : window = mem[w].window
  BY <1>2 DEF MemRecord
<1>5. start[w] # -1 /\ (~mem[w].held => \A b \in window : Covered(w, b))
  BY <1>1, <1>2, <1>4 DEF MemInv
<1>6. poll'[w] = Diff(window, tip)
  BY <1>1, <1>2, <1>4
<1>7. Diff(window, tip) \in PollRecord /\ Diff(window, tip).pc = "orphans"
  BY <1>1, <1>2, <1>4, DiffFacts
<1>8. poll' \in [Watchers -> PollRecord]
  BY <1>1, <1>2, <1>4, <1>7
<1>9. \A v \in Watchers \ {w} : Same(v)
  BY <1>1, <1>2 DEF Same
<1>10. Clean' => Clean
  BY <1>1 DEF Clean, FromGenesis
<1>11. MemInv(w)'
  BY <1>1, <1>3, <1>5, SameMem
<1>12. PollInv(w)'
  BY <1>1, <1>4, <1>5, <1>6, DiffPollInv
<1>13. TipInv(w)' /\ LossKept(w)
  <2>1. poll'[w].tip = tip
    BY <1>1, <1>2, <1>4, <1>6, DiffFacts
  <2> QED BY <1>1, <1>3, <1>6, <1>7, <1>10, <2>1, QuietLoss DEF Advancing, Asked
<1> QED BY <1>1, <1>2, <1>3, <1>8, <1>9, <1>10, <1>11, <1>12, <1>13, StepOf

(* What a poll is, by what it is in the middle of. *)
LEMMA PollIs ==
  ASSUME WatcherInv, NEW w \in Watchers, NEW p, p = poll[w]
  PROVE  /\ p \in PollRecord /\ (p.pc # "idle" => p # Idle /\ start[w] # -1) /\ (p = Idle <=> p.pc = "idle")
         /\ p.pc = "orphans" =>
              p \in [pc : {"orphans"}, tip : Blocks, orphaned : SUBSET Blocks, added : SUBSET Blocks]
         /\ p.pc = "record" =>
              p \in [pc : {"record"}, tip : Blocks, added : SUBSET Blocks, block : Blocks,
                     todo : SUBSET Payments, complete : BOOLEAN]
         /\ p.pc = "advance" =>
              p \in [pc : {"advance"}, tip : Blocks, added : SUBSET Blocks, block : Blocks,
                     complete : BOOLEAN, rows : SUBSET Row]
         /\ p.pc \in Asked =>
              p \in [pc : Asked, tip : Blocks, added : SUBSET Blocks, block : Blocks,
                     complete : BOOLEAN, rows : SUBSET Row, ask : Row, status : Answer]
<1>1. p \in PollRecord /\ (p # Idle => start[w] # -1)
  BY DEF WatcherInv, MemInv
<1> QED BY <1>1 DEF PollRecord, Idle, Asked

LEMMA NextBlockKeeps ==
  ASSUME WatcherInv, NEW w \in Watchers, NextBlock(w)
  PROVE  WatcherInv'
<1>1. /\ UNCHANGED <<chainVars, deposit, cache>> /\ UNCHANGED chainVars
      /\ cursor' = cursor /\ start' = start /\ stale' = stale /\ errors' = errors
  BY DEF NextBlock
<1>2. /\ mem \in [Watchers -> MemRecord] /\ poll \in [Watchers -> PollRecord]
      /\ cursor \in [Watchers -> Blocks \cup {-1}] /\ start \in [Watchers -> Blocks \cup {-1}]
      /\ errors \in Nat /\ stale \in Nat /\ MemInv(w) /\ PollInv(w) /\ TreeInv
  BY DEF WatcherInv
<1>3. /\ TreeInv' /\ ChainKept /\ tip' = tip /\ Blocks' = Blocks
      /\ DepositsInv' /\ CacheInv' /\ MoreDeposits /\ \A d \in Payments : Lost(d)' => Lost(d)
  BY <1>1, QuietChain, QuietDeposits
<1>4. PICK p \in [pc : {"orphans"}, tip : Blocks, orphaned : SUBSET Blocks, added : SUBSET Blocks] :
        p = poll[w] /\ p # Idle /\ p.pc = "orphans" /\ start[w] # -1
  BY PollIs DEF NextBlock
<1>5. /\ p.added \subseteq Branch(p.tip) /\ p.tip \in mem[w].window \cup p.added
      /\ ~mem[w].held => \A c \in Branch(p.tip) \ p.added : Done(w, c)
  BY <1>2, <1>4 DEF PollInv, Left
<1>6. Clean' => Clean
  BY <1>1 DEF Clean, FromGenesis
<1>7. CASE p.added = {}
  <2>1. /\ mem' = [mem EXCEPT ![w].tip = p.tip, ![w].up = TRUE]
        /\ poll' = [poll EXCEPT ![w] = Idle]
    BY <1>4, <1>7 DEF NextBlock
  <2>2. /\ mem' \in [Watchers -> MemRecord] /\ mem'[w].tip = p.tip
        /\ mem'[w].window = mem[w].window /\ mem'[w].held = mem[w].held
    <3>1. PICK t \in Blocks : t = p.tip
      BY <1>4
    <3>2. PICK f : f = [mem EXCEPT ![w].tip = t]
      OBVIOUS
    <3>3. /\ f \in [Watchers -> MemRecord] /\ f[w].tip = t
          /\ f[w].window = mem[w].window /\ f[w].held = mem[w].held
      BY <1>2, <3>2 DEF MemRecord
    <3>4. mem' = [f EXCEPT ![w].up = TRUE]
      BY <2>1, <3>1, <3>2
    <3> QED BY <3>1, <3>3, <3>4 DEF MemRecord
  <2>3. poll' \in [Watchers -> PollRecord] /\ poll'[w] = Idle
    BY <1>2, <2>1 DEF PollRecord
  <2>4. \A v \in Watchers \ {w} : Same(v)
    BY <1>1, <1>2, <2>1 DEF Same
  <2>5. MemInv(w)'
    <3>1. cursor[w] # -1 => Covered(w, cursor[w])'
      BY <1>1, <1>2, <1>3, <1>4, CoveredStays DEF MemInv
    <3>2. ~mem[w].held => \A b \in mem[w].window : Covered(w, b)'
      BY <1>1, <1>2, <1>3, <1>4, CoveredStays DEF MemInv, MemRecord
    <3>3. cursor'[w] # -1 => Covered(w, cursor[w])'
      BY <1>1, <3>1
    <3> QED BY <1>1, <1>4, <1>5, <1>7, <2>2, <2>3, <3>2, <3>3 DEF MemInv
  <2>6. PollInv(w)'
    BY <2>3 DEF PollInv, Idle, Advancing, Asked
  <2>7. TipInv(w)' /\ LossKept(w)
    BY <1>1, <1>3, <1>6, <2>2, <2>3, QuietLoss DEF Idle, Advancing, Asked
  <2> QED BY <1>1, <1>2, <1>3, <1>6, <2>2, <2>3, <2>4, <2>5, <2>6, <2>7, StepOf
<1>8. CASE p.added # {}
  <2> DEFINE Lowest(b) == b \in p.added /\ \A c \in p.added : Height(b) <= Height(c)
  <2>1. \A c \in p.added : c \in Blocks /\ Height(c) \in Nat
    BY <1>2, BlockFacts
  <2>2. \E b : Lowest(b)
    <3> DEFINE Heights == {Height(c) : c \in p.added}
    <3>1. Heights \in SUBSET Nat /\ Heights # {}
      BY <1>8, <2>1
    <3>2. PICK h \in Heights : \A g \in Heights : h <= g
      <4> HIDE DEF Heights
      <4> QED BY <3>1, LeastOf
    <3>3. PICK b \in p.added : h = Height(b)
      BY <3>2
    <3> QED BY <3>2, <3>3
  <2>3. PICK b : b = CHOOSE e \in p.added : \A c \in p.added : Height(e) <= Height(c)
    OBVIOUS
  <2>4. Lowest(b)
    BY <2>2, <2>3
  <2>5. PICK q : q = [pc |-> "record", tip |-> p.tip, added |-> p.added \ {b}, block |-> b,
                      todo |-> PaidIn(b), complete |-> TRUE]
    OBVIOUS
  <2>6. poll' = [poll EXCEPT ![w] = q] /\ mem' = mem
    BY <1>4, <1>8, <2>3, <2>5 DEF NextBlock
  <2>7. /\ q.pc = "record" /\ q.tip = p.tip /\ q.added = p.added \ {b} /\ q.block = b
        /\ q.todo = PaidIn(b) /\ q.complete = TRUE
    BY <2>5
  <2>8. q \in PollRecord /\ q # Idle
    <3>1. b \in Blocks /\ PaidIn(b) \in SUBSET Payments
      BY <1>2, <2>1, <2>4, BlockFacts
    <3> QED BY <2>5, <3>1 DEF PollRecord, Idle
  <2>9. poll'[w] = q /\ poll' \in [Watchers -> PollRecord]
    BY <1>2, <2>6, <2>8
  <2>10. \A v \in Watchers \ {w} : Same(v)
    BY <1>1, <1>2, <2>6 DEF Same
  <2>11. MemInv(w)'
    BY <1>1, <1>3, <1>4, <2>6, SameMem
  <2>12. TipInv(w)' /\ LossKept(w)
    BY <1>1, <1>3, <1>4, <1>6, <2>6, <2>7, <2>9, QuietLoss DEF Advancing, Asked
  <2>13. /\ q.added \subseteq Branch(q.tip)' /\ q.tip \in mem[w].window \cup q.added \cup {q.block}
         /\ q.block \in Branch(q.tip)'
    <3>1. Branch(p.tip)' = Branch(p.tip)
      BY <1>3 DEF ChainKept
    <3>2. Branch(q.tip)' = Branch(p.tip)'
      BY <2>7
    <3> QED BY <1>5, <2>4, <2>7, <3>1, <3>2
  <2>14. ~mem[w].held => \A c \in Branch(q.tip)' \ (q.added \cup {q.block}) : Done(w, c)'
    <3>1. Branch(q.tip)' = Branch(p.tip) /\ Branch(p.tip) \subseteq Blocks
      BY <1>2, <1>3, <2>7 DEF ChainKept, TreeInv
    <3>2. q.added \cup {q.block} = p.added
      BY <2>4, <2>7
    <3> QED BY <1>1, <1>3, <1>4, <1>5, <3>1, <3>2, DoneStays
  <2>15. \A c \in q.added : Height(q.block)' < Height(c)'
    <3>1. SUFFICES ASSUME NEW c \in p.added, c # b PROVE Height(b)' < Height(c)'
      BY <2>7
    <3>2. Height(b) # Height(c)
      BY <1>2, <1>5, <2>4, <3>1, OnBranch
    <3>3. Height(b) < Height(c)
      BY <2>1, <2>4, <3>1, <3>2
    <3> QED BY <1>3, <2>1, <2>4, <3>3 DEF ChainKept
  <2>16. PollInv(w)'
    <3>1. q.todo \subseteq PaidIn(q.block)' /\ \A d \in PaidIn(q.block)' \ q.todo : Accounted(d)'
      <4>1. PaidIn(q.block)' = PaidIn(b)
        BY <1>3, <2>1, <2>4, <2>7 DEF ChainKept
      <4> QED BY <2>7, <4>1
    <3>2. Left(q) = q.added \cup {q.block}
      BY <2>7 DEF Left
    <3> HIDE DEF Lowest
    <3> QED BY <2>6, <2>7, <2>8, <2>9, <2>13, <2>14, <2>15, <3>1, <3>2 DEF PollInv, Left, Advancing, Asked
  <2> QED BY <1>1, <1>2, <1>3, <1>6, <2>6, <2>9, <2>10, <2>11, <2>12, <2>16, StepOf
<1> QED BY <1>7, <1>8

LEMMA SelectPendingKeeps ==
  ASSUME WatcherInv, NEW w \in Watchers, SelectPending(w)
  PROVE  WatcherInv'
<1>1. /\ UNCHANGED <<chainVars, deposit, cache>> /\ UNCHANGED chainVars
      /\ cursor' = cursor /\ start' = start /\ mem' = mem /\ stale' = stale /\ errors' = errors
      /\ deposit' = deposit
  BY DEF SelectPending
<1>2. /\ mem \in [Watchers -> MemRecord] /\ poll \in [Watchers -> PollRecord]
      /\ cursor \in [Watchers -> Blocks \cup {-1}] /\ start \in [Watchers -> Blocks \cup {-1}]
      /\ errors \in Nat /\ stale \in Nat /\ MemInv(w) /\ PollInv(w) /\ TipInv(w) /\ TreeInv /\ DepositsInv
  BY DEF WatcherInv
<1>3. /\ TreeInv' /\ ChainKept /\ tip' = tip /\ Blocks' = Blocks /\ Height(tip)' = Height(tip)
      /\ DepositsInv' /\ CacheInv' /\ MoreDeposits /\ \A d \in Payments : Lost(d)' => Lost(d)
  BY <1>1, QuietChain, QuietDeposits
<1>4. PICK p \in [pc : {"record"}, tip : Blocks, added : SUBSET Blocks, block : Blocks,
                  todo : SUBSET Payments, complete : BOOLEAN] :
        p = poll[w] /\ p # Idle /\ p.pc = "record" /\ start[w] # -1 /\ p.todo = {}
  BY PollIs DEF SelectPending
<1>5. PICK rows : rows = {[id |-> d, row |-> deposit[d]] : d \in Pending(p.block)}
  OBVIOUS
<1>6. PICK q : q = [pc |-> "advance", tip |-> p.tip, added |-> p.added, block |-> p.block,
                    complete |-> p.complete, rows |-> rows]
  OBVIOUS
<1>7. poll' = [poll EXCEPT ![w] = q]
  BY <1>2, <1>4, <1>5, <1>6 DEF SelectPending, ToAdvance
<1>8. /\ q.pc = "advance" /\ q.tip = p.tip /\ q.added = p.added /\ q.block = p.block
      /\ q.complete = p.complete /\ q.rows = rows
  BY <1>6
<1>9. \A r \in rows : /\ r \in Row /\ deposit[r.id] # Unseen
                      /\ r.row = deposit[r.id]
  <2>1. \A d \in Pending(p.block) : deposit[d] \in PendingRecord /\ deposit[d] # Unseen
    BY <1>2 DEF Pending, DepositsInv, DepositRecord, PendingRecord, Unseen
  <2>2. Pending(p.block) \subseteq Payments
    BY DEF Pending
  <2> QED BY <1>5, <2>1, <2>2 DEF Row
<1>10. q \in PollRecord /\ q # Idle
  BY <1>4, <1>6, <1>9 DEF PollRecord, Idle
<1>11. poll' \in [Watchers -> PollRecord] /\ poll'[w] = q
  BY <1>2, <1>7, <1>10
<1>12. \A v \in Watchers \ {w} : Same(v)
  BY <1>1, <1>2, <1>7 DEF Same
<1>13. Clean' => Clean
  BY <1>1 DEF Clean, FromGenesis
<1>14. MemInv(w)'
  BY <1>1, <1>3, <1>4, SameMem
<1>15. /\ p.added \subseteq Branch(p.tip) /\ p.tip \in mem[w].window \cup p.added \cup {p.block}
       /\ ~mem[w].held => \A c \in Branch(p.tip) \ (p.added \cup {p.block}) : Done(w, c)
       /\ p.block \in Branch(p.tip) /\ \A c \in p.added : Height(p.block) < Height(c)
       /\ p.complete => \A d \in PaidIn(p.block) : Accounted(d)
  BY <1>2, <1>4 DEF PollInv, Left
<1>16. PollInv(w)'
  <2>1. Branch(p.tip)' = Branch(p.tip) /\ Branch(p.tip) \subseteq Blocks
    BY <1>2, <1>3 DEF ChainKept, TreeInv
  <2>2. Branch(q.tip)' = Branch(p.tip)' /\ PaidIn(q.block)' = PaidIn(p.block)
    BY <1>3, <1>8 DEF ChainKept
  <2>3. ~mem'[w].held => \A c \in Branch(q.tip)' \ (q.added \cup {q.block}) : Done(w, c)'
    BY <1>1, <1>3, <1>4, <1>8, <1>15, <2>1, <2>2, DoneStays
  <2>4. \A c \in q.added : Height(q.block)' < Height(c)'
    BY <1>3, <1>8, <1>15 DEF ChainKept
  <2>5. q.complete => \A d \in PaidIn(q.block)' : Accounted(d)'
    BY <1>2, <1>3, <1>8, <1>15, <2>2, BlockFacts, AccountedStays
  <2>6. \A r \in q.rows : deposit'[r.id] # Unseen
    BY <1>1, <1>8, <1>9
  <2>7. Left(q) = q.added \cup {q.block}
    BY <1>8 DEF Left
  <2> QED BY <1>1, <1>8, <1>11, <1>15, <2>1, <2>2, <2>3, <2>4, <2>5, <2>6, <2>7 DEF PollInv, Left, Advancing, Asked
<1>17. TipInv(w)'
  BY <1>1, <1>2, <1>3, <1>4, <1>8, <1>11 DEF TipInv, Asked
<1>18. LossKept(w)
  <2>1. SUFFICES ASSUME NEW d \in Payments, Lost(d), NotYet(w, d), q.block = tip
                 PROVE  \E r \in q.rows : r.id = d /\ r.row.state = "CONFIRMED"
    BY <1>1, <1>3, <1>11, <1>13 DEF LossKept, NotYet
  <2>2. deposit[d].state = "CONFIRMED" /\ deposit[d].height <= Height(p.block)
    BY <1>2, <1>8, <2>1 DEF Lost, DepositsInv, Unseen
  <2>3. d \in Pending(p.block)
    BY <2>2 DEF Pending
  <2>4. [id |-> d, row |-> deposit[d]] \in rows
    BY <1>5, <2>3
  <2> QED BY <1>8, <2>2, <2>4
<1> QED BY <1>1, <1>2, <1>3, <1>11, <1>12, <1>13, <1>14, <1>16, <1>17, <1>18, StepOf

(* Nothing is above the tip. *)
LEMMA TipOnly ==
  ASSUME TreeInv, NEW t \in Blocks, tip \in Branch(t)
  PROVE  t = tip
<1>1. tip # t => Height(tip) < Height(t)
  BY DEF TreeInv
<1>2. Height(t) <= Height(tip) /\ Height(t) \in Nat /\ Height(tip) \in Nat
  BY BlockFacts DEF TreeInv
<1> QED BY <1>1, <1>2

(* The cursor moves to a block below which nothing is missing. *)
LEMMA FinishBlockKeeps ==
  ASSUME WatcherInv, NEW w \in Watchers, FinishBlock(w)
  PROVE  WatcherInv'
<1>1. /\ UNCHANGED <<chainVars, deposit, cache>> /\ UNCHANGED chainVars
      /\ start' = start /\ stale' = stale /\ errors' = errors
  BY DEF FinishBlock
<1>2. /\ mem \in [Watchers -> MemRecord] /\ poll \in [Watchers -> PollRecord]
      /\ cursor \in [Watchers -> Blocks \cup {-1}] /\ start \in [Watchers -> Blocks \cup {-1}]
      /\ errors \in Nat /\ stale \in Nat /\ MemInv(w) /\ PollInv(w) /\ TipInv(w) /\ TreeInv
  BY DEF WatcherInv
<1>3. /\ TreeInv' /\ ChainKept /\ tip' = tip /\ Blocks' = Blocks
      /\ DepositsInv' /\ CacheInv' /\ MoreDeposits /\ \A d \in Payments : Lost(d)' => Lost(d)
  BY <1>1, QuietChain, QuietDeposits
<1>4. PICK p \in [pc : {"advance"}, tip : Blocks, added : SUBSET Blocks, block : Blocks,
                  complete : BOOLEAN, rows : SUBSET Row] :
        p = poll[w] /\ p # Idle /\ p.pc = "advance" /\ start[w] # -1 /\ p.rows = {}
  BY PollIs DEF FinishBlock
<1>5. PICK held \in BOOLEAN : held = Holding(w) /\ held = (mem[w].held \/ ~p.complete)
  BY <1>4 DEF Holding
<1>6. PICK q : q = [pc |-> "orphans", tip |-> p.tip, orphaned |-> {}, added |-> p.added]
  OBVIOUS
<1>7. PICK b \in Blocks : b = p.block
  BY <1>4
<1>8. /\ cursor' = IF held THEN cursor ELSE [cursor EXCEPT ![w] = b]
      /\ mem' = [mem EXCEPT ![w].held = held, ![w].window = @ \cup {b}]
      /\ poll' = [poll EXCEPT ![w] = q]
  BY <1>4, <1>5, <1>6, <1>7 DEF FinishBlock
<1>9. q.pc = "orphans" /\ q.tip = p.tip /\ q.added = p.added /\ q \in PollRecord /\ q # Idle
  BY <1>4, <1>6 DEF PollRecord, Idle
<1>10. /\ mem' \in [Watchers -> MemRecord] /\ mem'[w].held = held /\ mem'[w].tip = mem[w].tip
       /\ mem'[w].window = mem[w].window \cup {b} /\ mem[w].window \subseteq Blocks
  <2>0. PICK window \in SUBSET Blocks : window = mem[w].window \cup {b}
    BY <1>2, <1>7 DEF MemRecord
  <2>1. PICK m \in MemRecord : m = [mem[w] EXCEPT !.held = held, !.window = window]
    <3>1. mem[w] \in MemRecord /\ held \in BOOLEAN /\ window \in SUBSET Blocks
      BY <1>2, <1>5, <2>0
    <3> QED BY <3>1 DEF MemRecord
  <2>2. mem' = [mem EXCEPT ![w] = m]
    BY <1>2, <1>8, <2>0, <2>1
  <2>3. /\ m.held = held /\ m.tip = mem[w].tip
        /\ m.window = mem[w].window \cup {b} /\ mem[w].window \subseteq Blocks
    BY <1>2, <2>0, <2>1 DEF MemRecord
  <2> QED BY <1>2, <2>2, <2>3
<1>11. poll' \in [Watchers -> PollRecord] /\ poll'[w] = q
  BY <1>2, <1>8, <1>9
<1>12. cursor' \in [Watchers -> Blocks \cup {-1}] /\ cursor'[w] = (IF held THEN cursor[w] ELSE b)
  BY <1>2, <1>7, <1>8
<1>13. \A v \in Watchers \ {w} : Same(v)
  BY <1>1, <1>2, <1>8 DEF Same
<1>14. Clean' => Clean
  BY <1>1 DEF Clean, FromGenesis
<1>15. /\ p.added \subseteq Branch(p.tip) /\ p.tip \in mem[w].window \cup p.added \cup {b}
       /\ ~mem[w].held => \A c \in Branch(p.tip) \ (p.added \cup {b}) : Done(w, c)
       /\ b \in Branch(p.tip) /\ \A c \in p.added : Height(b) < Height(c)
       /\ p.complete => \A d \in PaidIn(b) : Accounted(d)
  BY <1>2, <1>4, <1>7 DEF PollInv, Left, Advancing
<1>16. p.complete => Done(w, b)
  BY <1>15 DEF Done
<1>17. ~held => Covered(w, b)
  <2>1. SUFFICES ASSUME ~held, NEW c \in Branch(b) PROVE Done(w, c)
    BY DEF Covered
  <2>2. ~mem[w].held /\ p.complete
    BY <1>5, <2>1
  <2>3. c \in Branch(p.tip) /\ (c # b => Height(c) < Height(b))
    BY <1>2, <1>7, <1>15, <2>1 DEF TreeInv
  <2>4. c \in Blocks /\ Height(c) \in Nat /\ Height(b) \in Nat
    BY <1>2, <1>7, <2>1, BlockFacts DEF TreeInv
  <2>5. c # b => c \notin p.added
    BY <1>15, <2>3, <2>4
  <2> QED BY <1>15, <1>16, <2>2, <2>3, <2>5
<1>18. ~held => Covered(w, b)'
  BY <1>1, <1>3, <1>4, <1>17, CoveredStays
<1>19. MemInv(w)'
  <2>1. cursor'[w] # -1 => Covered(w, cursor[w])'
    <3>1. CASE ~held
      BY <1>12, <1>18, <3>1
    <3>2. CASE held
      <4>1. SUFFICES ASSUME cursor[w] # -1 PROVE Covered(w, cursor[w])'
        BY <1>12, <3>2
      <4>2. PICK c \in Blocks : c = cursor[w]
        BY <1>2, <4>1
      <4>3. Covered(w, c)'
        BY <1>1, <1>2, <1>3, <1>4, <4>1, <4>2, CoveredStays DEF MemInv
      <4> QED BY <1>12, <3>2, <4>2, <4>3
    <3> QED BY <3>1, <3>2
  <2>2. ~mem'[w].held => \A c \in mem'[w].window : Covered(w, c)'
    <3>1. SUFFICES ASSUME ~held, NEW c \in mem[w].window PROVE Covered(w, c)'
      BY <1>10, <1>18
    <3>2. Covered(w, c) /\ c \in Blocks
      BY <1>2, <1>5, <1>10, <3>1 DEF MemInv
    <3> QED BY <1>1, <1>3, <1>4, <3>2, CoveredStays
  <2>3. mem'[w].tip \in mem'[w].window \cup {-1}
    BY <1>2, <1>10 DEF MemInv
  <2> QED BY <1>1, <1>4, <2>1, <2>2, <2>3 DEF MemInv
<1>20. PollInv(w)'
  <2>1. Branch(p.tip)' = Branch(p.tip) /\ Branch(p.tip) \subseteq Blocks /\ Branch(q.tip)' = Branch(p.tip)'
    BY <1>2, <1>3, <1>9 DEF ChainKept, TreeInv
  <2>2. ~held => \A c \in Branch(q.tip)' \ q.added : Done(w, c)'
    <3>1. SUFFICES ASSUME ~held, NEW c \in Branch(p.tip) \ p.added PROVE Done(w, c)'
      BY <1>9, <2>1
    <3>2. Done(w, c)
      BY <1>5, <1>15, <1>16, <3>1
    <3> QED BY <1>1, <1>3, <1>4, <2>1, <3>2, DoneStays
  <2>3. Left(q) = q.added
    BY <1>9 DEF Left
  <2> QED BY <1>9, <1>10, <1>11, <1>15, <2>1, <2>2, <2>3 DEF PollInv, Left, Advancing, Asked
<1>21. b = tip => p.tip = tip
  BY <1>2, <1>4, <1>7, <1>15, TipOnly
<1>22. TipInv(w)'
  BY <1>2, <1>3, <1>4, <1>9, <1>10, <1>11, <1>12, <1>21 DEF TipInv, Asked
<1>23. LossKept(w)
  <2>1. SUFFICES ASSUME NEW d \in Payments, NotYet(w, d) PROVE NotYet(w, d)'
    BY <1>3, <1>14 DEF LossKept
  <2>2. tip # b
    BY <1>4, <1>7, <2>1 DEF NotYet, Advancing
  <2> QED BY <1>3, <1>9, <1>10, <1>11, <1>12, <2>1, <2>2 DEF NotYet, Advancing, Asked
<1> QED BY <1>1, <1>2, <1>3, <1>10, <1>11, <1>12, <1>13, <1>14, <1>19, <1>20, <1>22, <1>23, StepOf

(* An ended poll keeps the window, the cursor and whether it is held. *)
LEMMA AbortKeeps ==
  ASSUME WatcherInv, NEW w \in Watchers, Abort(w) \/ RecordThrows(w)
  PROVE  WatcherInv'
<1>1. /\ UNCHANGED <<chainVars, deposit, cache>> /\ UNCHANGED chainVars
      /\ cursor' = cursor /\ start' = start /\ mem' = mem /\ stale' = stale /\ errors' = errors
      /\ poll' = [poll EXCEPT ![w] = Idle]
  BY DEF Abort, RecordThrows
<1>2. /\ mem \in [Watchers -> MemRecord] /\ poll \in [Watchers -> PollRecord]
      /\ cursor \in [Watchers -> Blocks \cup {-1}] /\ start \in [Watchers -> Blocks \cup {-1}]
      /\ errors \in Nat /\ stale \in Nat
  BY DEF WatcherInv
<1>3. /\ ChainKept /\ DepositsInv' /\ CacheInv' /\ MoreDeposits
      /\ \A d \in Payments : Lost(d)' => Lost(d)
  BY <1>1, QuietChain, QuietDeposits
<1>4. poll' \in [Watchers -> PollRecord] /\ poll'[w] = Idle
  BY <1>1, <1>2 DEF PollRecord
<1>5. \A v \in Watchers \ {w} : Same(v)
  BY <1>1, <1>2 DEF Same
<1>6. Clean' => Clean
  BY <1>1 DEF Clean, FromGenesis
<1>7. MemInv(w)'
  BY <1>1, <1>3, <1>4, SameMem
<1>8. PollInv(w)'
  BY <1>4 DEF PollInv, Idle, Advancing, Asked
<1>9. TipInv(w)' /\ LossKept(w)
  BY <1>1, <1>3, <1>4, <1>6, QuietLoss DEF Idle, Advancing, Asked
<1> QED BY <1>1, <1>2, <1>3, <1>4, <1>5, <1>6, <1>7, <1>8, <1>9, StepOf

(* A restart keeps the cursor only. *)
LEMMA RestartKeeps ==
  ASSUME WatcherInv, NEW w \in Watchers, Restart(w)
  PROVE  WatcherInv'
<1>1. /\ UNCHANGED <<chainVars, deposit>> /\ UNCHANGED chainVars
      /\ cursor' = cursor /\ start' = start /\ stale' = stale /\ errors' = errors
      /\ poll' = [poll EXCEPT ![w] = Idle] /\ mem' = [mem EXCEPT ![w] = Starting]
      /\ cache' = [cache EXCEPT ![w] = [d \in Payments |-> NoAnswer]]
  BY DEF Restart
<1>2. /\ mem \in [Watchers -> MemRecord] /\ poll \in [Watchers -> PollRecord]
      /\ cursor \in [Watchers -> Blocks \cup {-1}] /\ start \in [Watchers -> Blocks \cup {-1}]
      /\ errors \in Nat /\ stale \in Nat /\ MemInv(w) /\ CacheInv
  BY DEF WatcherInv
<1>3. /\ ChainKept /\ DepositsInv' /\ MoreDeposits /\ tip' = tip
      /\ \A d \in Payments : (Lost(d)' => Lost(d)) /\ Confirmations(d)' = Confirmations(d)
  BY <1>1, QuietChain, QuietDeposits
<1>4. /\ poll' \in [Watchers -> PollRecord] /\ poll'[w] = Idle
      /\ mem' \in [Watchers -> MemRecord] /\ mem'[w] = Starting
  BY <1>1, <1>2 DEF PollRecord, MemRecord, Starting
<1>5. \A v \in Watchers \ {w} : Same(v)
  BY <1>1, <1>2 DEF Same
<1>6. Clean' => Clean
  BY <1>1 DEF Clean, FromGenesis
<1>7. CacheInv'
  <2>1. [d \in Payments |-> NoAnswer] \in [Payments -> Answer] /\ FinalConfirmations \in Nat \ {0}
    BY ChainAssumption DEF NoAnswer, Answer, ChainAssumption
  <2>2. /\ cache' \in [Watchers -> [Payments -> Answer]]
        /\ \A v \in Watchers, d \in Payments : cache'[v][d] = IF v = w THEN NoAnswer ELSE cache[v][d]
    BY <1>1, <1>2, <2>1 DEF CacheInv
  <2> QED BY <1>2, <1>3, <2>1, <2>2 DEF CacheInv, NoAnswer, ChainKept
<1>8. MemInv(w)'
  <2>1. cursor[w] # -1 => Covered(w, cursor[w])' /\ start[w] # -1
    <3>1. SUFFICES ASSUME cursor[w] # -1 PROVE Covered(w, cursor[w])' /\ start[w] # -1
      OBVIOUS
    <3>2. PICK c \in Blocks : c = cursor[w] /\ c = cursor'[w]
      BY <1>1, <1>2, <3>1
    <3>3. Covered(w, c)' /\ start[w] # -1
      BY <1>1, <1>2, <1>3, <3>1, <3>2, CoveredStays DEF MemInv
    <3> QED BY <1>1, <3>2, <3>3
  <2>2. cursor'[w] # -1 => Covered(w, cursor[w])'
    BY <1>1, <2>1
  <2> QED BY <1>1, <1>4, <2>1, <2>2 DEF MemInv, Starting
<1>9. PollInv(w)'
  BY <1>4 DEF PollInv, Idle, Advancing, Asked
<1>10. TipInv(w)'
  BY <1>4 DEF TipInv, Idle, Asked
<1>11. LossKept(w)
  <2>1. \A d \in Payments : NotYet(w, d) => NotYet(w, d)'
    BY <1>1, <1>3, <1>4 DEF NotYet, Idle, Starting, Advancing, Asked
  <2> QED BY <1>3, <1>6, <2>1 DEF LossKept
<1> QED BY <1>1, <1>2, <1>3, <1>4, <1>5, <1>6, <1>7, <1>8, <1>9, <1>10, <1>11, StepOf

(* A rollback unconfirms; one that fails is an error. *)
LEMMA OrphanKeeps ==
  ASSUME WatcherInv, NEW w \in Watchers, Orphan(w)
  PROVE  WatcherInv'
<1>1. /\ UNCHANGED chainVars /\ cursor' = cursor /\ start' = start /\ mem' = mem /\ stale' = stale
      /\ cache' = cache
  BY DEF Orphan
<1>2. /\ mem \in [Watchers -> MemRecord] /\ poll \in [Watchers -> PollRecord]
      /\ cursor \in [Watchers -> Blocks \cup {-1}] /\ start \in [Watchers -> Blocks \cup {-1}]
      /\ errors \in Nat /\ stale \in Nat /\ MemInv(w) /\ PollInv(w) /\ TreeInv /\ DepositsInv
  BY DEF WatcherInv
<1>3. PICK p \in [pc : {"orphans"}, tip : Blocks, orphaned : SUBSET Blocks, added : SUBSET Blocks] :
        p = poll[w] /\ p # Idle /\ p.pc = "orphans" /\ start[w] # -1
  BY PollIs DEF Orphan
<1>4. PICK b \in p.orphaned, failed \in SUBSET Payments :
        /\ Error(Cardinality(failed))
        /\ \A d \in failed : deposit[d].state = "CONFIRMED"
        /\ deposit' = [d \in Payments |->
             IF d \in {e \in Payments : deposit[e].state = "CONFIRMED" /\ deposit[e].block = b} \ failed
             THEN [deposit[d] EXCEPT !.state = "SEEN_MEMPOOL"] ELSE deposit[d]]
        /\ poll' = [poll EXCEPT ![w].orphaned = @ \ {b}]
  BY <1>3 DEF Orphan
<1>5. errors' \in Nat /\ (errors' = 0 => errors = 0)
  <2>1. Cardinality(failed) \in Nat
    BY ChainAssumption, FS_Subset, FS_CardinalityType DEF ChainAssumption
  <2>2. errors' = errors + Cardinality(failed)
    BY <1>4 DEF Error
  <2> QED BY <1>2, <2>1, <2>2
<1>6. /\ TreeInv' /\ ChainKept /\ tip' = tip /\ Blocks' = Blocks /\ CacheInv' /\ Height(tip)' = Height(tip)
      /\ \A d \in Payments : Confirmations(d)' = Confirmations(d)
  BY <1>1, QuietChain, QuietDeposits
<1>7. ASSUME NEW d \in Payments
      PROVE  /\ deposit'[d] \in DepositRecord /\ deposit'[d].block = deposit[d].block
             /\ deposit'[d].height = deposit[d].height
             /\ \/ deposit'[d] = deposit[d]
                \/ deposit[d].state = "CONFIRMED" /\ deposit'[d].state = "SEEN_MEMPOOL"
  BY <1>2, <1>4 DEF DepositsInv, DepositRecord, DepositStates
<1>8. MoreDeposits
  BY <1>7 DEF MoreDeposits, Unseen
<1>9. (Clean' => Clean) /\ \A d \in Payments : Lost(d)' => Lost(d)
  BY <1>1, <1>5, <1>6, <1>7 DEF Clean, FromGenesis, Lost
<1>10. DepositsInv'
  <2>1. deposit' \in [Payments -> DepositRecord]
    BY <1>4, <1>7
  <2>2. ASSUME NEW d \in Payments
        PROVE  /\ deposit'[d].state = "UNSEEN" => deposit'[d] = Unseen
               /\ deposit'[d] # Unseen =>
                    \E c \in Blocks : /\ c = deposit'[d].block /\ d \in PaidIn(c)
                                      /\ deposit'[d].height \in 1 .. Height(tip)
               /\ deposit'[d].state = "FINALIZED" => Confirmations(d) >= FinalConfirmations
    BY <1>2, <1>7 DEF DepositsInv, Unseen
  <2> QED BY <1>1, <2>1, <2>2, DepositsHold
<1>11. PICK q : q = [p EXCEPT !.orphaned = p.orphaned \ {b}]
  OBVIOUS
<1>12. q.pc = "orphans" /\ q.tip = p.tip /\ q.added = p.added /\ q \in PollRecord /\ q # Idle
  BY <1>3, <1>11 DEF PollRecord, Idle
<1>13. poll' \in [Watchers -> PollRecord] /\ poll'[w] = q
  BY <1>2, <1>3, <1>4, <1>11, <1>12
<1>14. \A v \in Watchers \ {w} : Same(v)
  BY <1>1, <1>2, <1>4 DEF Same
<1>15. MemInv(w)'
  BY <1>1, <1>3, <1>6, <1>8, SameMem
<1>16. PollInv(w)'
  <2>1. /\ p.added \subseteq Branch(p.tip) /\ p.tip \in mem[w].window \cup p.added
        /\ ~mem[w].held => \A c \in Branch(p.tip) \ p.added : Done(w, c)
    BY <1>2, <1>3 DEF PollInv, Left
  <2>2. Branch(p.tip)' = Branch(p.tip) /\ Branch(p.tip) \subseteq Blocks /\ Branch(q.tip)' = Branch(p.tip)'
    BY <1>2, <1>6, <1>12 DEF ChainKept, TreeInv
  <2>3. ~mem[w].held => \A c \in Branch(q.tip)' \ q.added : Done(w, c)'
    BY <1>1, <1>3, <1>6, <1>8, <1>12, <2>1, <2>2, DoneStays
  <2> QED BY <1>1, <1>12, <1>13, <2>1, <2>2, <2>3 DEF PollInv, Left, Advancing, Asked
<1>17. TipInv(w)' /\ LossKept(w)
  BY <1>1, <1>3, <1>9, <1>12, <1>13, QuietLoss DEF Advancing, Asked
<1> QED BY <1>1, <1>2, <1>5, <1>6, <1>8, <1>9, <1>10, <1>13, <1>14, <1>15, <1>16, <1>17, StepOf

(* A payment is recorded in the block that pays it, or the block is not    *)
(* complete.                                                               *)
LEMMA RecordKeeps ==
  ASSUME WatcherInv, NEW w \in Watchers, Record(w)
  PROVE  WatcherInv'
<1>1. /\ UNCHANGED chainVars /\ cursor' = cursor /\ start' = start /\ mem' = mem /\ stale' = stale
      /\ cache' = cache
  BY DEF Record
<1>2. /\ mem \in [Watchers -> MemRecord] /\ poll \in [Watchers -> PollRecord]
      /\ cursor \in [Watchers -> Blocks \cup {-1}] /\ start \in [Watchers -> Blocks \cup {-1}]
      /\ errors \in Nat /\ stale \in Nat /\ MemInv(w) /\ PollInv(w) /\ TreeInv /\ DepositsInv
  BY DEF WatcherInv
<1>3. PICK p \in [pc : {"record"}, tip : Blocks, added : SUBSET Blocks, block : Blocks,
                  todo : SUBSET Payments, complete : BOOLEAN] :
        p = poll[w] /\ p # Idle /\ p.pc = "record" /\ start[w] # -1
  BY PollIs DEF Record
<1>4. /\ p.added \subseteq Branch(p.tip) /\ p.tip \in mem[w].window \cup p.added \cup {p.block}
      /\ ~mem[w].held => \A c \in Branch(p.tip) \ (p.added \cup {p.block}) : Done(w, c)
      /\ p.block \in Branch(p.tip) /\ \A c \in p.added : Height(p.block) < Height(c)
      /\ p.todo \subseteq PaidIn(p.block)
      /\ p.complete => \A d \in PaidIn(p.block) \ p.todo : Accounted(d)
  BY <1>2, <1>3 DEF PollInv, Left
<1>5. PICK d \in p.todo :
        \/ /\ deposit' = IF Recordable(d)
                         THEN [deposit EXCEPT ![d] = [state |-> "SEEN_MEMPOOL", block |-> p.block,
                                                      height |-> Height(p.block)]]
                         ELSE deposit
           /\ poll' = [poll EXCEPT ![w].todo = @ \ {d}]
           /\ errors' = errors
        \/ /\ Error(1)
           /\ poll' = [poll EXCEPT ![w].todo = @ \ {d}, ![w].complete = FALSE]
           /\ deposit' = deposit
  BY <1>3 DEF Record
<1>6. errors' \in Nat /\ (errors' = 0 => errors = 0)
  BY <1>2, <1>5 DEF Error
<1>7. /\ TreeInv' /\ ChainKept /\ tip' = tip /\ Blocks' = Blocks /\ CacheInv' /\ Height(tip)' = Height(tip)
      /\ \A e \in Payments : Confirmations(e)' = Confirmations(e)
  BY <1>1, QuietChain, QuietDeposits
<1>8. d \in Payments /\ d \in PaidIn(p.block) /\ p.block \in Blocks
  BY <1>3, <1>4
<1>9. Height(p.block) \in 1 .. Height(tip)
  <2>1. p.block # 0
    BY <1>8 DEF PaidIn
  <2> QED BY <1>2, <1>8, <2>1, BlockFacts DEF TreeInv
<1>10. PICK rec \in DepositRecord :
         /\ rec = [state |-> "SEEN_MEMPOOL", block |-> p.block, height |-> Height(p.block)]
         /\ rec.state = "SEEN_MEMPOOL" /\ rec.block = p.block /\ rec.height = Height(p.block)
  <2>1. p.block \in Nat /\ Height(p.block) \in Nat
    BY <1>2, <1>8, BlockFacts DEF Blocks
  <2>2. PICK rec : rec = [state |-> "SEEN_MEMPOOL", block |-> p.block, height |-> Height(p.block)]
    OBVIOUS
  <2>3. rec.state = "SEEN_MEMPOOL" /\ rec.block = p.block /\ rec.height = Height(p.block)
    BY <2>2
  <2>4. rec \in DepositRecord
    BY <2>1, <2>2 DEF DepositRecord, DepositStates
  <2> QED BY <2>2, <2>3, <2>4
<1>11. /\ deposit' \in [Payments -> DepositRecord]
       /\ \A e \in Payments :
            deposit'[e] = deposit[e] \/ (e = d /\ deposit[e] = Unseen /\ deposit'[e] = rec)
  <2>1. Recordable(d) => deposit[d] = Unseen
    BY DEF Recordable
  <2>2. deposit' = deposit \/ (Recordable(d) /\ deposit' = [deposit EXCEPT ![d] = rec])
    BY <1>5, <1>10
  <2>3. deposit \in [Payments -> DepositRecord]
    BY <1>2 DEF DepositsInv
  <2> QED BY <1>8, <2>1, <2>2, <2>3
<1>12. MoreDeposits
  BY <1>11 DEF MoreDeposits
<1>13. (Clean' => Clean) /\ \A e \in Payments : Lost(e)' => Lost(e)
  BY <1>1, <1>6, <1>7, <1>10, <1>11 DEF Clean, FromGenesis, Lost
<1>14. DepositsInv'
  <2>1. ASSUME NEW e \in Payments
        PROVE  /\ deposit'[e].state = "UNSEEN" => deposit'[e] = Unseen
               /\ deposit'[e] # Unseen =>
                    \E c \in Blocks : /\ c = deposit'[e].block /\ e \in PaidIn(c)
                                      /\ deposit'[e].height \in 1 .. Height(tip)
               /\ deposit'[e].state = "FINALIZED" => Confirmations(e) >= FinalConfirmations
    BY <1>2, <1>8, <1>9, <1>10, <1>11 DEF DepositsInv
  <2> QED BY <1>1, <1>11, <2>1, DepositsHold
<1>15. PICK q \in PollRecord :
         /\ poll' = [poll EXCEPT ![w] = q] /\ q # Idle
         /\ q.pc = "record" /\ q.tip = p.tip /\ q.added = p.added /\ q.block = p.block
         /\ q.todo = p.todo \ {d}
         /\ q.complete =>
              p.complete /\ deposit' = IF Recordable(d) THEN [deposit EXCEPT ![d] = rec] ELSE deposit
  <2>1. CASE /\ deposit' = IF Recordable(d)
                           THEN [deposit EXCEPT ![d] = [state |-> "SEEN_MEMPOOL", block |-> p.block,
                                                        height |-> Height(p.block)]]
                           ELSE deposit
             /\ poll' = [poll EXCEPT ![w].todo = @ \ {d}]
    <3>1. PICK q : q = [p EXCEPT !.todo = p.todo \ {d}]
      OBVIOUS
    <3>2. /\ q.pc = "record" /\ q.tip = p.tip /\ q.added = p.added /\ q.block = p.block
          /\ q.todo = p.todo \ {d} /\ q.complete = p.complete /\ q \in PollRecord /\ q # Idle
      BY <1>3, <3>1 DEF PollRecord, Idle
    <3>3. poll' = [poll EXCEPT ![w] = q]
      BY <1>2, <1>3, <2>1, <3>1
    <3> QED BY <1>10, <2>1, <3>2, <3>3
  <2>2. CASE poll' = [poll EXCEPT ![w].todo = @ \ {d}, ![w].complete = FALSE]
    <3>1. PICK q : q = [p EXCEPT !.todo = p.todo \ {d}, !.complete = FALSE]
      OBVIOUS
    <3>2. /\ q.pc = "record" /\ q.tip = p.tip /\ q.added = p.added /\ q.block = p.block
          /\ q.todo = p.todo \ {d} /\ q.complete = FALSE /\ q \in PollRecord /\ q # Idle
      BY <1>3, <3>1 DEF PollRecord, Idle
    <3>3. poll' = [poll EXCEPT ![w] = q]
      BY <1>2, <1>3, <2>2, <3>1
    <3> QED BY <3>2, <3>3
  <2> QED BY <1>5, <2>1, <2>2
<1>16. poll' \in [Watchers -> PollRecord] /\ poll'[w] = q
  BY <1>2, <1>15
<1>17. \A v \in Watchers \ {w} : Same(v)
  BY <1>1, <1>2, <1>15 DEF Same
<1>18. MemInv(w)'
  BY <1>1, <1>3, <1>7, <1>12, SameMem
<1>19. PollInv(w)'
  <2>1. /\ Branch(p.tip)' = Branch(p.tip) /\ Branch(p.tip) \subseteq Blocks
        /\ Branch(q.tip)' = Branch(p.tip)' /\ PaidIn(q.block)' = PaidIn(p.block)
    BY <1>2, <1>3, <1>7, <1>15 DEF ChainKept, TreeInv
  <2>2. ~mem[w].held => \A c \in Branch(q.tip)' \ (q.added \cup {q.block}) : Done(w, c)'
    BY <1>1, <1>3, <1>4, <1>7, <1>12, <1>15, <2>1, DoneStays
  <2>3. \A c \in q.added : Height(q.block)' < Height(c)'
    BY <1>3, <1>4, <1>7, <1>15 DEF ChainKept
  <2>4. q.todo \subseteq PaidIn(q.block)'
    BY <1>4, <1>15, <2>1
  <2>5. q.complete => \A e \in PaidIn(q.block)' \ q.todo : Accounted(e)'
    <3>1. SUFFICES ASSUME q.complete, NEW e \in PaidIn(p.block), e \notin q.todo PROVE Accounted(e)'
      BY <2>1
    <3>2. e \in Payments
      BY <1>2, <1>8, BlockFacts
    <3>3. CASE e = d
      <4>1. CASE Recordable(d)
        <5>1. deposit'[d] = rec
          BY <1>2, <1>8, <1>15, <3>1, <4>1 DEF DepositsInv
        <5> QED BY <1>10, <3>3, <5>1 DEF Accounted, Recordable, Unseen
      <4>2. CASE ~Recordable(d)
        BY <1>12, <3>2, <3>3, <4>2, AccountedStays DEF Accounted
      <4> QED BY <4>1, <4>2
    <3>4. CASE e # d
      <4>1. Accounted(e)
        BY <1>4, <1>15, <3>1, <3>4
      <4> QED BY <1>12, <3>2, <4>1, AccountedStays
    <3> QED BY <3>3, <3>4
  <2>6. Left(q) = q.added \cup {q.block}
    BY <1>15 DEF Left
  <2> QED BY <1>1, <1>4, <1>15, <1>16, <2>1, <2>2, <2>3, <2>4, <2>5, <2>6 DEF PollInv, Left, Advancing, Asked
<1>20. TipInv(w)' /\ LossKept(w)
  BY <1>1, <1>3, <1>13, <1>15, <1>16, QuietLoss DEF Advancing, Asked
<1> QED BY <1>1, <1>2, <1>6, <1>7, <1>12, <1>13, <1>14, <1>16, <1>17, <1>18, <1>19, <1>20, StepOf

LEMMA FreshHolds ==
  ASSUME WatcherInv, NEW d \in Payments
  PROVE  AnswerHolds(d, TxStatus(d)) /\ TxStatus(d).confs = Confirmations(d) /\ Confirmations(d) \in Nat
<1>1. TreeInv
  BY DEF WatcherInv
<1>2. /\ Confirmations(d) \in Nat /\ (Confirmations(d) > 0 <=> InBlock(d) # {})
      /\ TxStatus(d).confs = Confirmations(d) /\ TxStatus(d).block \in Blocks
  BY <1>1, ConfirmationsType
<1>3. ASSUME InBlock(d) # {} PROVE d \in PaidIn(TxStatus(d).block)
  <2>1. PICK b \in InBlock(d) : TRUE
    BY <1>3
  <2>2. Highest(InBlock(d)) = b
    BY <1>1, <2>1, OnceActive
  <2>3. TxStatus(d).block = b
    BY <1>3, <2>2 DEF TxStatus
  <2> QED BY <2>1, <2>3 DEF InBlock
<1>4. TxStatus(d) \in Answer
  <2>1. Blocks \subseteq Nat
    BY <1>1, BlockFacts DEF Blocks
  <2>2. PICK k : TxStatus(d) = [confs |-> Confirmations(d), block |-> k]
    BY DEF TxStatus
  <2>3. TxStatus(d).block = k
    BY <2>2
  <2>4. k \in Nat /\ Confirmations(d) \in Int
    <3>1. k \in Blocks
      BY <1>2, <2>3
    <3> QED BY <1>2, <2>1, <3>1
  <2> QED BY <2>2, <2>4 DEF Answer
<1> QED BY <1>2, <1>3, <1>4 DEF AnswerHolds

(* A poll that advances deposits keeps to its block. *)
LEMMA AdvancingPoll ==
  ASSUME WatcherInv, NEW w \in Watchers, UNCHANGED chainVars, MoreDeposits,
         start'[w] = start[w], mem'[w] = mem[w], NEW p, p = poll[w], p.pc \in Advancing,
         NEW q, poll'[w] = q, q.pc \in Advancing, q # Idle, q.tip = p.tip, q.added = p.added,
         q.block = p.block, q.complete = p.complete, q.rows \subseteq p.rows,
         q.pc \in Asked => \E d \in Payments :
           d = q.ask.id /\ deposit'[d] # Unseen /\ AnswerHolds(d, q.status),
         q.pc = "moved" => q.status.confs >= 1
  PROVE  PollInv(w)'
<1>1. /\ TreeInv /\ PollInv(w) /\ ChainKept /\ UNCHANGED chainVars
      /\ FinalKept
  BY QuietChain DEF WatcherInv, FinalKept
<1>2. /\ p \in PollRecord /\ p # Idle /\ start[w] # -1
      /\ p.tip \in Blocks /\ p.added \subseteq Blocks /\ p.block \in Blocks /\ p.rows \subseteq Row
  BY PollIs DEF Advancing, Asked
<1>3. /\ p.added \subseteq Branch(p.tip) /\ p.tip \in mem[w].window \cup p.added \cup {p.block}
      /\ ~mem[w].held => \A c \in Branch(p.tip) \ (p.added \cup {p.block}) : Done(w, c)
      /\ p.block \in Branch(p.tip) /\ \A c \in p.added : Height(p.block) < Height(c)
      /\ p.complete => \A d \in PaidIn(p.block) : Accounted(d)
      /\ \A r \in p.rows : deposit[r.id] # Unseen
  BY <1>1, <1>2 DEF PollInv, Left, Advancing, Asked
<1>4. /\ Branch(p.tip)' = Branch(p.tip) /\ Branch(p.tip) \subseteq Blocks
      /\ Branch(q.tip)' = Branch(p.tip)' /\ PaidIn(q.block)' = PaidIn(p.block)
  BY <1>1, <1>2 DEF ChainKept, TreeInv
<1>5. ~mem[w].held => \A c \in Branch(q.tip)' \ (q.added \cup {q.block}) : Done(w, c)'
  BY <1>1, <1>2, <1>3, <1>4, DoneStays
<1>6. \A c \in q.added : Height(q.block)' < Height(c)'
  BY <1>1, <1>2, <1>3 DEF ChainKept
<1>7. q.complete => \A e \in PaidIn(q.block)' : Accounted(e)'
  BY <1>1, <1>2, <1>3, <1>4, BlockFacts, AccountedStays
<1>8. \A s \in q.rows : deposit'[s.id] # Unseen
  BY <1>2, <1>3 DEF MoreDeposits, Row
<1>9. Left(q) = q.added \cup {q.block}
  BY DEF Left, Advancing, Asked
<1>10. q.pc \in Asked => deposit'[q.ask.id] # Unseen /\ AnswerHolds(q.ask.id, q.status)'
  BY <1>1, AnswerStays
<1> HIDE DEF PollRecord
<1> QED
  <2>1. /\ q.added \subseteq Branch(q.tip)' /\ q.tip \in mem'[w].window \cup Left(q)
        /\ ~mem'[w].held => \A c \in Branch(q.tip)' \ Left(q) : Done(w, c)'
    BY <1>3, <1>4, <1>5, <1>9
  <2>2. q.block \in Branch(q.tip)' /\ \A c \in q.added : Height(q.block)' < Height(c)'
    BY <1>3, <1>4, <1>6
  <2>3. q.pc # "record"
    BY DEF Advancing, Asked
  <2> QED BY <1>7, <1>8, <1>10, <2>1, <2>2, <2>3, Zenon DEF PollInv, Left

(* What the poll is with these rows left. *)
LEMMA ToAdvanceIs ==
  ASSUME WatcherInv, NEW w \in Watchers, NEW p, p = poll[w], p.pc \in Advancing,
         NEW rows \in SUBSET p.rows, NEW q, q = ToAdvance(p, rows)
  PROVE  /\ q \in PollRecord /\ q # Idle /\ q.pc = "advance" /\ q.tip = p.tip /\ q.added = p.added
         /\ q.block = p.block /\ q.complete = p.complete /\ q.rows = rows
<1>1. /\ p.tip \in Blocks /\ p.added \subseteq Blocks /\ p.block \in Blocks /\ p.complete \in BOOLEAN
      /\ rows \subseteq Row
  BY PollIs DEF Advancing, Asked
<1> QED BY <1>1 DEF ToAdvance, PollRecord, Idle

(* The node answers for a deposit off its branch that it is not confirmed. *)
LEMMA AskNodeKeeps ==
  ASSUME WatcherInv, NEW w \in Watchers, AskNode(w)
  PROVE  WatcherInv'
<1>1. /\ UNCHANGED chainVars /\ cursor' = cursor /\ start' = start /\ mem' = mem /\ deposit' = deposit
  BY DEF AskNode
<1>2. /\ mem \in [Watchers -> MemRecord] /\ poll \in [Watchers -> PollRecord]
      /\ cursor \in [Watchers -> Blocks \cup {-1}] /\ start \in [Watchers -> Blocks \cup {-1}]
      /\ errors \in Nat /\ stale \in Nat /\ PollInv(w) /\ TipInv(w)
      /\ TreeInv /\ DepositsInv /\ CacheInv
  BY DEF WatcherInv
<1>3. PICK p \in [pc : {"advance"}, tip : Blocks, added : SUBSET Blocks, block : Blocks,
                  complete : BOOLEAN, rows : SUBSET Row] :
        p = poll[w] /\ p # Idle /\ p.pc = "advance" /\ p.pc \in Advancing /\ start[w] # -1
  BY PollIs DEF AskNode, Advancing
<1>4. PICK r \in p.rows :
        \/ /\ poll' = [poll EXCEPT ![w] = Answered(p, r, TxStatus(r.id))]
           /\ cache' = IF MaxStale = 0 THEN cache ELSE [cache EXCEPT ![w][r.id] = TxStatus(r.id)]
           /\ UNCHANGED <<stale, errors>>
        \/ /\ poll' = [poll EXCEPT ![w] = Answered(p, r, cache[w][r.id])]
           /\ stale' = stale + 1
           /\ UNCHANGED <<cache, errors>>
        \/ /\ Error(1)
           /\ poll' = [poll EXCEPT ![w] = ToAdvance(p, p.rows \ {r})]
           /\ UNCHANGED <<cache, stale>>
  BY <1>3 DEF AskNode
<1>5. PICK d \in Payments : d = r.id /\ deposit[d] # Unseen /\ r \in Row
  BY <1>2, <1>3 DEF PollInv, Row, Advancing
<1>6. PICK fresh, known :
        /\ fresh = TxStatus(r.id) /\ known = cache[w][r.id]
        /\ AnswerHolds(d, fresh) /\ fresh.confs = Confirmations(d) /\ Confirmations(d) \in Nat
        /\ AnswerHolds(d, known)
  <2>1. AnswerHolds(d, cache[w][d])
    BY <1>2 DEF CacheInv, AnswerHolds
  <2> QED BY <1>5, <2>1, FreshHolds
<1>7. /\ TreeInv' /\ ChainKept /\ tip' = tip /\ Blocks' = Blocks
      /\ DepositsInv' /\ MoreDeposits /\ \A e \in Payments : Lost(e)' => Lost(e)
      /\ \A e \in Payments : Confirmations(e)' = Confirmations(e)
      /\ cache' = cache => CacheInv'
  BY <1>1, QuietChain, QuietDeposits
<1>8. errors' \in Nat /\ stale' \in Nat /\ (errors' = 0 => errors = 0) /\ (stale' = 0 => stale = 0)
  BY <1>2, <1>4 DEF Error
<1>9. Clean' => Clean /\ errors' = 0 /\ stale' = 0
  BY <1>1, <1>8 DEF Clean, FromGenesis
<1>10. PICK q \in PollRecord :
         /\ poll' = [poll EXCEPT ![w] = q] /\ q # Idle /\ q.pc \in Advancing
         /\ q.tip = p.tip /\ q.added = p.added /\ q.block = p.block
         /\ q.complete = p.complete /\ q.rows = p.rows \ {r}
         /\ q.pc \in Asked => q.ask = r /\ AnswerHolds(d, q.status)
         /\ q.pc = "moved" => q.status.confs >= 1
         /\ stale' = 0 /\ q.pc \in Asked => q.status = fresh
         /\ errors' = 0 /\ stale' = 0 => q.pc \in Asked /\ (q.pc = "answered" \/ fresh.confs >= 1)
  <2>1. ASSUME NEW status, AnswerHolds(d, status), NEW q, q = Answered(p, r, status)
        PROVE  /\ q \in PollRecord /\ q # Idle /\ q.pc \in Asked /\ q.pc \in Advancing
               /\ q.tip = p.tip /\ q.added = p.added /\ q.block = p.block
               /\ q.complete = p.complete /\ q.rows = p.rows \ {r} /\ q.ask = r /\ q.status = status
               /\ q.pc = "answered" \/ status.confs >= 1
    <3>1. PICK pc \in Asked :
            /\ pc = IF status.confs >= 1 /\ status.block # r.row.block THEN "moved" ELSE "answered"
      BY DEF Asked
    <3>2. q = [pc |-> pc, tip |-> p.tip, added |-> p.added, block |-> p.block,
               complete |-> p.complete, rows |-> p.rows \ {r}, ask |-> r, status |-> status]
      BY <2>1, <3>1 DEF Answered
    <3>3. status \in Answer
      BY <2>1 DEF AnswerHolds
    <3>4. q \in PollRecord /\ q # Idle
      BY <1>3, <1>5, <3>1, <3>2, <3>3 DEF PollRecord, Idle, Asked
    <3>5. pc = "answered" \/ status.confs >= 1
      BY <3>1
    <3> QED BY <3>1, <3>2, <3>4, <3>5 DEF Advancing
  <2>2. CASE poll' = [poll EXCEPT ![w] = Answered(p, r, TxStatus(r.id))]
    BY <1>6, <2>1, <2>2
  <2>3. CASE stale' = stale + 1 /\ poll' = [poll EXCEPT ![w] = Answered(p, r, cache[w][r.id])]
    <3>1. stale' # 0
      BY <1>2, <2>3
    <3> QED BY <1>6, <2>1, <2>3, <3>1
  <2>4. CASE Error(1) /\ poll' = [poll EXCEPT ![w] = ToAdvance(p, p.rows \ {r})]
    <3>1. errors' # 0
      BY <1>2, <2>4 DEF Error
    <3>2. PICK q : q = ToAdvance(p, p.rows \ {r})
      OBVIOUS
    <3>3. /\ q \in PollRecord /\ q # Idle /\ q.pc = "advance" /\ q.tip = p.tip /\ q.added = p.added
          /\ q.block = p.block /\ q.complete = p.complete /\ q.rows = p.rows \ {r}
      BY <1>3, <3>2, ToAdvanceIs
    <3> QED BY <2>4, <3>1, <3>2, <3>3 DEF Advancing, Asked
  <2> QED BY <1>4, <2>2, <2>3, <2>4
<1>11. CacheInv'
  <2>1. CASE cache' = cache
    BY <1>7, <2>1
  <2>2. CASE cache' = [cache EXCEPT ![w][r.id] = fresh]
    <3>1. cache \in [Watchers -> [Payments -> Answer]] /\ fresh \in Answer
      BY <1>2, <1>6 DEF CacheInv, AnswerHolds
    <3>2. cache' \in [Watchers -> [Payments -> Answer]]
      BY <1>5, <2>2, <3>1
    <3>3. ASSUME NEW v \in Watchers, NEW e \in Payments
          PROVE  cache'[v][e] = IF v = w /\ e = d THEN fresh ELSE cache[v][e]
      BY <1>5, <2>2, <3>1
    <3>4. ASSUME NEW v \in Watchers, NEW e \in Payments
          PROVE  AnswerHolds(e, cache'[v][e])
      <4>1. AnswerHolds(e, cache[v][e])
        BY <1>2, <3>1 DEF CacheInv, AnswerHolds
      <4> QED BY <1>6, <3>3, <4>1
    <3>5. ASSUME NEW v \in Watchers, NEW e \in Payments, cache'[v][e].confs >= 1
          PROVE  cache'[v][e].block \in Blocks' /\ (e \in PaidIn(cache[v][e].block))'
      <4>1. PICK b \in Blocks : b = cache'[v][e].block /\ e \in PaidIn(b)
        BY <3>4, <3>5 DEF AnswerHolds
      <4>2. e \in PaidIn(b)'
        BY <1>7, <4>1 DEF ChainKept
      <4>3. (e \in PaidIn(cache[v][e].block))'
        BY <4>1, <4>2 DEF PaidIn
      <4> QED BY <1>7, <4>1, <4>3
    <3>6. \A v \in Watchers, e \in Payments :
            cache'[v][e].confs >= FinalConfirmations => Confirmations(e)' >= FinalConfirmations
      BY <1>7, <3>4 DEF AnswerHolds
    <3> QED BY <3>2, <3>5, <3>6 DEF CacheInv
  <2> QED BY <1>4, <1>6, <2>1, <2>2
<1>12. poll' \in [Watchers -> PollRecord] /\ poll'[w] = q
  BY <1>2, <1>10
<1>13. \A v \in Watchers \ {w} : Same(v)
  BY <1>1, <1>2, <1>10 DEF Same
<1>14. MemInv(w)'
  BY <1>1, <1>3, <1>7, SameMem
<1>15. PollInv(w)'
  BY <1>1, <1>3, <1>5, <1>7, <1>10, <1>12, AdvancingPoll
<1>16. TipInv(w)'
  <2>1. tip' \in mem'[w].window \cup {cursor'[w]} => q.tip = tip'
    BY <1>1, <1>2, <1>3, <1>7, <1>10 DEF TipInv
  <2>2. ASSUME stale' = 0, q.status.confs >= 1, NEW e \in Payments, e = q.ask.id, q.pc \in Asked
        PROVE  Confirmations(e)' > 0
    BY <1>5, <1>6, <1>7, <1>10, <2>2
  <2> QED BY <1>12, <2>1, <2>2 DEF TipInv
<1>17. LossKept(w)
  <2>1. SUFFICES ASSUME Clean', NEW e \in Payments, Lost(e), NotYet(w, e) PROVE NotYet(w, e)'
    BY <1>7, <1>9 DEF LossKept
  <2>2. CASE p.block # tip
    BY <1>1, <1>7, <1>10, <1>12, <2>1, <2>2 DEF NotYet
  <2>3. CASE p.block = tip
    <3>1. PICK s \in p.rows : s.id = e /\ s.row.state = "CONFIRMED"
      BY <1>3, <2>1, <2>3 DEF NotYet
    <3>2. CASE s = r
      <4>1. q.pc = "answered" /\ q.status.confs < 1 /\ q.ask = r /\ r.id = e
        BY <1>5, <1>6, <1>9, <1>10, <2>1, <3>1, <3>2 DEF Lost
      <4> QED BY <1>1, <1>7, <1>12, <2>1, <3>1, <3>2, <4>1 DEF NotYet
    <3>3. CASE s # r
      BY <1>1, <1>7, <1>10, <1>12, <2>1, <3>1, <3>3 DEF NotYet
    <3> QED BY <3>2, <3>3
  <2> QED BY <2>2, <2>3
<1> QED BY <1>1, <1>2, <1>7, <1>8, <1>9, <1>11, <1>12, <1>13, <1>14, <1>15, <1>16, <1>17, StepOf

(* A poll with an answer in hand. *)
LEMMA InHand ==
  ASSUME WatcherInv, NEW w \in Watchers, poll[w].pc \in Asked
  PROVE  \E p \in [pc : Asked, tip : Blocks, added : SUBSET Blocks, block : Blocks,
                   complete : BOOLEAN, rows : SUBSET Row, ask : Row, status : Answer], d \in Payments :
           /\ p = poll[w] /\ p # Idle /\ p.pc \in Asked /\ p.pc \in Advancing /\ start[w] # -1
           /\ d = p.ask.id /\ p.ask.row \in PendingRecord
           /\ deposit[d] # Unseen /\ AnswerHolds(d, p.status)
           /\ p.pc = "moved" => p.status.confs >= 1
<1>1. PICK p \in [pc : Asked, tip : Blocks, added : SUBSET Blocks, block : Blocks,
                  complete : BOOLEAN, rows : SUBSET Row, ask : Row, status : Answer] :
        p = poll[w] /\ p # Idle /\ p.pc \in Asked /\ start[w] # -1
  BY PollIs DEF Asked
<1>2. PICK d \in Payments : d = p.ask.id /\ p.ask.row \in PendingRecord
  BY DEF Row
<1>3. deposit[d] # Unseen /\ AnswerHolds(d, p.status) /\ (p.pc = "moved" => p.status.confs >= 1)
  BY <1>1, <1>2 DEF WatcherInv, PollInv
<1> QED BY <1>1, <1>2, <1>3 DEF Advancing

(* A deposit follows its payment to a block that pays it, in its state. *)
LEMMA FollowMoveKeeps ==
  ASSUME WatcherInv, NEW w \in Watchers, FollowMove(w)
  PROVE  WatcherInv'
<1>1. /\ UNCHANGED chainVars /\ cursor' = cursor /\ start' = start /\ mem' = mem
      /\ stale' = stale /\ cache' = cache
  BY DEF FollowMove
<1>2. /\ mem \in [Watchers -> MemRecord] /\ poll \in [Watchers -> PollRecord]
      /\ cursor \in [Watchers -> Blocks \cup {-1}] /\ start \in [Watchers -> Blocks \cup {-1}]
      /\ errors \in Nat /\ stale \in Nat /\ TipInv(w) /\ TreeInv /\ DepositsInv
  BY DEF WatcherInv
<1>3. PICK p \in [pc : Asked, tip : Blocks, added : SUBSET Blocks, block : Blocks,
                  complete : BOOLEAN, rows : SUBSET Row, ask : Row, status : Answer], d \in Payments :
        /\ p = poll[w] /\ p # Idle /\ p.pc \in Asked /\ p.pc \in Advancing /\ start[w] # -1
        /\ d = p.ask.id /\ p.ask.row \in PendingRecord /\ p.pc = "moved" /\ p.status.confs >= 1
        /\ deposit[d] # Unseen /\ AnswerHolds(d, p.status)
  BY InHand DEF FollowMove, Asked
<1>4. \/ /\ deposit' = [deposit EXCEPT ![d].block = p.status.block]
         /\ poll' = [poll EXCEPT ![w].pc = "answered"]
         /\ UNCHANGED errors
         /\ p.status.confs >= 1
      \/ /\ Error(1)
         /\ poll' = [poll EXCEPT ![w] = ToAdvance(p, p.rows)]
         /\ UNCHANGED deposit
  BY <1>3 DEF FollowMove
<1>5. /\ TreeInv' /\ ChainKept /\ tip' = tip /\ Blocks' = Blocks /\ CacheInv'
      /\ \A e \in Payments : Confirmations(e)' = Confirmations(e)
  BY <1>1, QuietChain, QuietDeposits
<1>6. errors' \in Nat /\ (errors' = 0 => errors = 0)
  BY <1>2, <1>4 DEF Error
<1>7. ASSUME NEW e \in Payments
      PROVE  /\ deposit'[e] \in DepositRecord /\ deposit'[e].state = deposit[e].state
             /\ deposit'[e].height = deposit[e].height
             /\ \/ deposit'[e] = deposit[e]
                \/ /\ e = d /\ deposit'[e].block = p.status.block
                   /\ p.status.block \in Blocks /\ d \in PaidIn(p.status.block)
  <2>1. deposit \in [Payments -> DepositRecord] /\ p.status.block \in Nat
    BY <1>2, <1>3 DEF DepositsInv, Answer
  <2>2. CASE deposit' = deposit
    BY <2>1, <2>2
  <2>3. CASE deposit' = [deposit EXCEPT ![d].block = p.status.block] /\ p.status.confs >= 1
    BY <1>3, <2>1, <2>3 DEF AnswerHolds, DepositRecord
  <2> QED BY <1>4, <2>2, <2>3
<1>8. deposit' \in [Payments -> DepositRecord]
  <2>1. deposit' = [e \in Payments |-> deposit'[e]]
    BY <1>2, <1>4 DEF DepositsInv
  <2> QED BY <1>7, <2>1
<1>9. MoreDeposits
  BY <1>2, <1>7 DEF MoreDeposits, DepositsInv, Unseen
<1>10. DepositsInv'
  <2>1. ASSUME NEW e \in Payments
        PROVE  /\ deposit'[e].state = "UNSEEN" => deposit'[e] = Unseen
               /\ deposit'[e] # Unseen =>
                    \E c \in Blocks : /\ c = deposit'[e].block /\ e \in PaidIn(c)
                                      /\ deposit'[e].height \in 1 .. Height(tip)
               /\ deposit'[e].state = "FINALIZED" => Confirmations(e) >= FinalConfirmations
    BY <1>2, <1>3, <1>7 DEF DepositsInv
  <2> QED BY <1>1, <1>8, <2>1, DepositsHold
<1>11. (Clean' => Clean) /\ \A e \in Payments : Lost(e)' => Lost(e)
  BY <1>1, <1>5, <1>6, <1>7 DEF Clean, FromGenesis, Lost
<1>12. PICK q \in PollRecord :
         /\ poll' = [poll EXCEPT ![w] = q] /\ q # Idle /\ q.pc \in Advancing
         /\ q.tip = p.tip /\ q.added = p.added /\ q.block = p.block
         /\ q.complete = p.complete /\ q.rows = p.rows
         /\ q.pc \in Asked => q.pc = "answered" /\ q.ask = p.ask /\ q.status = p.status
  <2>1. CASE poll' = [poll EXCEPT ![w].pc = "answered"]
    <3>1. PICK q : q = [p EXCEPT !.pc = "answered"]
      OBVIOUS
    <3>2. /\ q.pc = "answered" /\ q.tip = p.tip /\ q.added = p.added /\ q.block = p.block
          /\ q.complete = p.complete /\ q.rows = p.rows /\ q.ask = p.ask /\ q.status = p.status
          /\ q \in PollRecord /\ q # Idle
      BY <1>3, <3>1 DEF PollRecord, Idle, Asked
    <3>3. poll' = [poll EXCEPT ![w] = q]
      BY <1>2, <1>3, <2>1, <3>1
    <3> QED BY <3>2, <3>3 DEF Advancing, Asked
  <2>2. CASE poll' = [poll EXCEPT ![w] = ToAdvance(p, p.rows)]
    <3>1. PICK q : q = ToAdvance(p, p.rows)
      OBVIOUS
    <3>2. /\ q \in PollRecord /\ q # Idle /\ q.pc = "advance" /\ q.tip = p.tip /\ q.added = p.added
          /\ q.block = p.block /\ q.complete = p.complete /\ q.rows = p.rows
      BY <1>3, <3>1, ToAdvanceIs
    <3> QED BY <2>2, <3>1, <3>2 DEF Advancing, Asked
  <2> QED BY <1>4, <2>1, <2>2
<1>13. poll' \in [Watchers -> PollRecord] /\ poll'[w] = q
  BY <1>2, <1>12
<1>14. \A v \in Watchers \ {w} : Same(v)
  BY <1>1, <1>2, <1>12 DEF Same
<1>15. MemInv(w)'
  BY <1>1, <1>3, <1>5, <1>9, SameMem
<1>16. PollInv(w)'
  <2>1. deposit'[d] # Unseen
    BY <1>3, <1>9 DEF MoreDeposits
  <2> QED BY <1>1, <1>3, <1>9, <1>12, <1>13, <2>1, AdvancingPoll
<1>17. TipInv(w)'
  BY <1>1, <1>2, <1>3, <1>5, <1>11, <1>12, <1>13 DEF TipInv
<1>18. LossKept(w)
  <2>1. ASSUME NEW e \in Payments, NotYet(w, e) PROVE NotYet(w, e)'
    BY <1>1, <1>3, <1>5, <1>12, <1>13, <2>1 DEF NotYet
  <2> QED BY <1>11, <2>1 DEF LossKept
<1> QED BY <1>1, <1>2, <1>5, <1>6, <1>9, <1>10, <1>11, <1>13, <1>14, <1>15, <1>16, <1>17, <1>18, StepOf

(* An answer makes a deposit final if the payment is, and without a        *)
(* confirmation rolls it back.                                             *)
LEMMA FollowFacts ==
  ASSUME WatcherInv, NEW d \in Payments, NEW row \in PendingRecord, NEW b \in Blocks,
         NEW status, AnswerHolds(d, status), NEW new, new = Follow(b, row, status)
  PROVE  /\ new \in DepositStates /\ new # "UNSEEN"
         /\ new = "FINALIZED" => Confirmations(d) >= FinalConfirmations
         /\ new = "CONFIRMED" => status.confs >= 1
<1>1. /\ row.state \in {"SEEN_MEMPOOL", "CONFIRMED"} /\ row.height \in Nat
      /\ status.confs \in Int /\ Height(b) \in Nat
  BY BlockFacts DEF WatcherInv, PendingRecord, AnswerHolds, Answer
<1>2. Confs(b, row, status) \in Int /\ Confs(b, row, status) <= status.confs
  BY <1>1 DEF Confs
<1>3. FinalConfirmations \in Nat
  BY ChainAssumption DEF ChainAssumption
<1> QED BY <1>1, <1>2, <1>3 DEF Follow, Target, DepositStates, AnswerHolds

(* A watcher that confirms what is lost by an older answer is not yet at   *)
(* the tip, where it will roll it back.                                    *)
LEMMA AdvanceDepositKeeps ==
  ASSUME WatcherInv, NEW w \in Watchers, AdvanceDeposit(w)
  PROVE  WatcherInv'
<1>1. /\ UNCHANGED chainVars /\ cursor' = cursor /\ start' = start /\ mem' = mem
      /\ stale' = stale /\ cache' = cache
  BY DEF AdvanceDeposit
<1>2. /\ mem \in [Watchers -> MemRecord] /\ poll \in [Watchers -> PollRecord]
      /\ cursor \in [Watchers -> Blocks \cup {-1}] /\ start \in [Watchers -> Blocks \cup {-1}]
      /\ errors \in Nat /\ stale \in Nat /\ PollInv(w) /\ TipInv(w) /\ TreeInv /\ DepositsInv
  BY DEF WatcherInv
<1>3. PICK p \in [pc : Asked, tip : Blocks, added : SUBSET Blocks, block : Blocks,
                  complete : BOOLEAN, rows : SUBSET Row, ask : Row, status : Answer], d \in Payments :
        /\ p = poll[w] /\ p # Idle /\ p.pc \in Asked /\ p.pc \in Advancing /\ start[w] # -1
        /\ d = p.ask.id /\ p.ask.row \in PendingRecord /\ p.pc = "answered"
        /\ deposit[d] # Unseen /\ AnswerHolds(d, p.status)
  BY InHand DEF AdvanceDeposit, Asked
<1>4. PICK new : new = Follow(p.block, p.ask.row, p.status)
  OBVIOUS
<1>5. /\ \/ /\ deposit' = IF deposit[d].state # p.ask.row.state THEN deposit
                          ELSE [deposit EXCEPT ![d].state = new]
            /\ UNCHANGED errors
         \/ Error(1) /\ UNCHANGED deposit
      /\ poll' = [poll EXCEPT ![w] = ToAdvance(p, p.rows)]
  BY <1>3, <1>4 DEF AdvanceDeposit
<1>6. /\ new \in DepositStates /\ new # "UNSEEN"
      /\ new = "FINALIZED" => Confirmations(d) >= FinalConfirmations
      /\ new = "CONFIRMED" => p.status.confs >= 1
  BY <1>3, <1>4, FollowFacts
<1>7. /\ TreeInv' /\ ChainKept /\ tip' = tip /\ Blocks' = Blocks /\ CacheInv'
      /\ \A e \in Payments : Confirmations(e)' = Confirmations(e)
  BY <1>1, QuietChain, QuietDeposits
<1>8. errors' \in Nat /\ (errors' = 0 => errors = 0)
  BY <1>2, <1>5 DEF Error
<1>9. Clean' => Clean /\ errors' = 0
  BY <1>1, <1>8 DEF Clean, FromGenesis
<1>10. /\ deposit' \in [Payments -> DepositRecord]
       /\ \A e \in Payments :
            /\ deposit'[e].block = deposit[e].block /\ deposit'[e].height = deposit[e].height
            /\ \/ deposit'[e] = deposit[e]
               \/ e = d /\ deposit'[e].state = new
       /\ errors' = 0 /\ deposit[d].state = p.ask.row.state => deposit'[d].state = new
  <2>1. deposit \in [Payments -> DepositRecord]
    BY <1>2 DEF DepositsInv
  <2>2. CASE deposit' = deposit /\ Error(1)
    <3>1. errors' # 0
      BY <1>2, <2>2 DEF Error
    <3> QED BY <2>1, <2>2, <3>1
  <2>3. CASE deposit' = deposit /\ deposit[d].state # p.ask.row.state
    BY <2>1, <2>3
  <2>4. CASE deposit' = [deposit EXCEPT ![d].state = new]
    BY <1>3, <1>6, <2>1, <2>4 DEF DepositRecord
  <2> QED BY <1>5, <2>2, <2>3, <2>4
<1>11. MoreDeposits
  BY <1>2, <1>6, <1>10 DEF MoreDeposits, DepositsInv, Unseen
<1>12. DepositsInv'
  <2>1. ASSUME NEW e \in Payments
        PROVE  /\ deposit'[e].state = "UNSEEN" => deposit'[e] = Unseen
               /\ deposit'[e] # Unseen =>
                    \E c \in Blocks : /\ c = deposit'[e].block /\ e \in PaidIn(c)
                                      /\ deposit'[e].height \in 1 .. Height(tip)
               /\ deposit'[e].state = "FINALIZED" => Confirmations(e) >= FinalConfirmations
    BY <1>2, <1>3, <1>6, <1>10 DEF DepositsInv
  <2> QED BY <1>1, <1>10, <2>1, DepositsHold
<1>13. PICK q \in PollRecord :
         /\ poll' = [poll EXCEPT ![w] = q] /\ q # Idle /\ q.pc = "advance"
         /\ q.tip = p.tip /\ q.added = p.added /\ q.block = p.block
         /\ q.complete = p.complete /\ q.rows = p.rows
  <2>1. PICK q : q = ToAdvance(p, p.rows)
    OBVIOUS
  <2>2. /\ q \in PollRecord /\ q # Idle /\ q.pc = "advance" /\ q.tip = p.tip /\ q.added = p.added
        /\ q.block = p.block /\ q.complete = p.complete /\ q.rows = p.rows
    BY <1>3, <2>1, ToAdvanceIs
  <2> QED BY <1>5, <2>1, <2>2
<1>14. poll' \in [Watchers -> PollRecord] /\ poll'[w] = q
  BY <1>2, <1>13
<1>15. \A v \in Watchers \ {w} : Same(v)
  BY <1>1, <1>2, <1>13 DEF Same
<1>16. MemInv(w)'
  BY <1>1, <1>3, <1>7, <1>11, SameMem
<1>17. PollInv(w)'
  BY <1>1, <1>3, <1>11, <1>13, <1>14, AdvancingPoll DEF Advancing, Asked
<1>18. TipInv(w)'
  BY <1>1, <1>2, <1>3, <1>7, <1>13, <1>14 DEF TipInv, Asked
<1>19. LossKept(w)
  <2>1. SUFFICES ASSUME Clean', NEW e \in Payments, Lost(e)', ~NotYet(w, e)'
                 PROVE  Lost(e) /\ ~NotYet(w, e)
    BY <1>9 DEF LossKept
  <2>2. Clean /\ errors' = 0 /\ Confirmations(e) = 0 /\ deposit'[e].state = "CONFIRMED"
    BY <1>7, <1>9, <2>1 DEF Lost
  <2>3. Lost(e)
    <3>1. SUFFICES ASSUME e = d, new = "CONFIRMED" PROVE FALSE
      BY <1>10, <2>2 DEF Lost
    <3>2. p.tip # tip
      BY <1>2, <1>3, <1>6, <2>2, <3>1 DEF TipInv, Clean
    <3>3. tip \notin mem[w].window \cup {cursor[w]}
      BY <1>2, <1>3, <3>2 DEF TipInv
    <3>4. p.block # tip
      BY <1>2, <1>3, <3>2, TipOnly DEF PollInv, Asked
    <3>5. NotYet(w, e)'
      BY <1>1, <1>7, <1>13, <1>14, <3>3, <3>4 DEF NotYet
    <3> QED BY <2>1, <3>5
  <2>4. ~NotYet(w, e)
    <3>1. SUFFICES ASSUME NotYet(w, e) PROVE FALSE
      OBVIOUS
    <3>2. /\ p.block = tip /\ ~\E r \in p.rows : r.id = e /\ r.row.state = "CONFIRMED"
      BY <1>1, <1>3, <1>7, <1>13, <1>14, <2>1, <3>1 DEF NotYet, Advancing
    <3>3. p.status.confs < 1 /\ d = e /\ p.ask.row.state = "CONFIRMED"
      BY <1>3, <3>1, <3>2 DEF NotYet
    <3>4. deposit[d].state = "CONFIRMED"
      BY <2>3, <3>3 DEF Lost
    <3>5. new = "CONFIRMED"
      BY <1>10, <2>2, <3>3, <3>4
    <3>6. p.status.confs \in Int
      BY <1>3 DEF Answer
    <3> QED BY <1>6, <3>3, <3>5, <3>6
  <2> QED BY <2>3, <2>4
<1> QED BY <1>1, <1>2, <1>7, <1>8, <1>9, <1>11, <1>12, <1>14, <1>15, <1>16, <1>17, <1>18, <1>19, StepOf

-------------------------------------------------------------------------------
(* The invariant holds throughout.                                         *)

LEMMA InitKeeps ==
  ASSUME Init
  PROVE  WatcherInv
<1>1. /\ blocks = << >> /\ tip = 0 /\ deposit = [d \in Payments |-> Unseen]
      /\ cursor \in [Watchers -> {-1, 0}] /\ start = cursor
      /\ mem = [w \in Watchers |-> Starting] /\ poll = [w \in Watchers |-> Idle]
      /\ cache = [w \in Watchers |-> [d \in Payments |-> NoAnswer]]
      /\ stale = 0 /\ errors = 0
  BY DEF Init, ChainInit
<1>2. Blocks = {0} /\ blocks \in Seq(BlockRecord)
  BY <1>1, EmptySeq DEF Blocks
<1>3. Height(0) = 0 /\ Branch(0) = {0} /\ PaidIn(0) = {}
  BY DEF Height, Branch, PaidIn
<1>4. TreeInv
  BY <1>1, <1>2, <1>3 DEF TreeInv
<1>5. DepositsInv
  BY <1>1 DEF DepositsInv, DepositRecord, DepositStates, Unseen
<1>6. CacheInv
  BY <1>1, ChainAssumption DEF CacheInv, NoAnswer, Answer, ChainAssumption
<1>7. /\ mem \in [Watchers -> MemRecord] /\ poll \in [Watchers -> PollRecord]
      /\ cursor \in [Watchers -> Blocks \cup {-1}] /\ start \in [Watchers -> Blocks \cup {-1}]
  BY <1>1, <1>2 DEF MemRecord, PollRecord, Starting
<1>8. ASSUME NEW w \in Watchers PROVE MemInv(w) /\ PollInv(w) /\ TipInv(w)
  <2>1. mem[w] = Starting /\ poll[w] = Idle /\ start[w] = cursor[w] /\ cursor[w] \in {-1, 0}
    BY <1>1
  <2>2. cursor[w] # -1 => Covered(w, cursor[w])
    BY <1>3, <2>1 DEF Covered, Done
  <2>3. MemInv(w)
    BY <2>1, <2>2 DEF MemInv, Starting
  <2>4. PollInv(w)
    BY <2>1 DEF PollInv, Idle, Advancing, Asked
  <2>5. TipInv(w)
    BY <2>1 DEF TipInv, Idle, Asked
  <2> QED BY <2>3, <2>4, <2>5
<1>9. LostInv
  BY <1>1 DEF LostInv, Lost, Unseen
<1> QED BY <1>1, <1>4, <1>5, <1>6, <1>7, <1>8, <1>9 DEF WatcherInv

LEMMA NextKeeps ==
  ASSUME WatcherInv, [Next]_vars
  PROVE  WatcherInv'
<1>1. CASE UNCHANGED vars
  <2>1. /\ UNCHANGED chainVars /\ deposit' = deposit /\ cache' = cache /\ cursor' = cursor
        /\ start' = start /\ mem' = mem /\ poll' = poll /\ stale' = stale /\ errors' = errors
    BY <1>1 DEF vars, watcherVars
  <2>2. /\ TreeInv' /\ ChainKept /\ Blocks' = Blocks /\ DepositsInv' /\ CacheInv' /\ MoreDeposits
        /\ \A d \in Payments : Lost(d)' => Lost(d)
    BY <2>1, QuietChain, QuietDeposits
  <2>3. PICK w \in Watchers : TRUE
    BY IngestAssumption DEF IngestAssumption
  <2>4. \A v \in Watchers : Same(v)
    BY <2>1 DEF Same
  <2>5. FinalKept /\ (Clean' => Clean) /\ tip' = tip
    BY <2>1, QuietChain DEF FinalKept, Clean, FromGenesis
  <2>6. MemInv(w)' /\ PollInv(w)' /\ TipInv(w)'
    BY <2>1, <2>2, <2>4, <2>5, Untouched
  <2>7. LossKept(w)
    BY <2>2, <2>4, <2>5, SameNotYet DEF LossKept
  <2>8. /\ mem' \in [Watchers -> MemRecord] /\ poll' \in [Watchers -> PollRecord]
        /\ cursor' \in [Watchers -> Blocks \cup {-1}] /\ start' \in [Watchers -> Blocks \cup {-1}]
        /\ errors' \in Nat /\ stale' \in Nat
    BY <2>1 DEF WatcherInv
  <2> QED BY <2>1, <2>2, <2>4, <2>5, <2>6, <2>7, <2>8, StepOf
<1>2. CASE Grow
  BY <1>2, GrowKeeps
<1>3. CASE \E w \in Watchers : Follows(w) \/ Abort(w) \/ Restart(w)
  <2>1. PICK w \in Watchers : Follows(w) \/ Abort(w) \/ Restart(w)
    BY <1>3
  <2>2. CASE Bootstrap(w)
    BY <2>2, BootstrapKeeps
  <2>3. CASE CatchUp(w)
    BY <2>3, CatchUpKeeps
  <2>4. CASE Poll(w)
    BY <2>4, PollKeeps
  <2>5. CASE Orphan(w)
    BY <2>5, OrphanKeeps
  <2>6. CASE NextBlock(w)
    BY <2>6, NextBlockKeeps
  <2>7. CASE Record(w)
    BY <2>7, RecordKeeps
  <2>8. CASE SelectPending(w)
    BY <2>8, SelectPendingKeeps
  <2>9. CASE AdvanceDeposit(w)
    BY <2>9, AdvanceDepositKeeps
  <2>13. CASE AskNode(w)
    BY <2>13, AskNodeKeeps
  <2>14. CASE FollowMove(w)
    BY <2>14, FollowMoveKeeps
  <2>15. CASE RecordThrows(w)
    BY <2>15, AbortKeeps
  <2>10. CASE FinishBlock(w)
    BY <2>10, FinishBlockKeeps
  <2>11. CASE Abort(w)
    BY <2>11, AbortKeeps
  <2>12. CASE Restart(w)
    BY <2>12, RestartKeeps
  <2> QED BY <2>1, <2>2, <2>3, <2>4, <2>5, <2>6, <2>7, <2>8, <2>9, <2>10, <2>11, <2>12, <2>13, <2>14, <2>15
       DEF Follows
<1> QED BY <1>1, <1>2, <1>3 DEF Next

(* What watchers hold in memory, in the database and in a poll fits the    *)
(* block tree, and each other, at every step.                              *)
THEOREM WatcherInvariant == Spec => []WatcherInv
<1>1. Init => WatcherInv
  BY InitKeeps
<1>2. WatcherInv /\ [Next]_vars => WatcherInv'
  BY NextKeeps
<1> QED BY <1>1, <1>2, PTL DEF Spec

(* block-handler.ts:74: a final deposit has all its confirmations, through *)
(* every reorganisation the fork rule allows, stale answer and restart.    *)
THEOREM FinalPermanent == Spec => []FinalizedIsPermanent
<1>1. WatcherInv => FinalizedIsPermanent
  BY DEF WatcherInv, DepositsInv, FinalizedIsPermanent
<1> QED BY <1>1, WatcherInvariant, PTL

(* migration 011: between a watcher's start without a cursor and its       *)
(* cursor no payment is missing, however many watchers write, whatever     *)
(* fails.                                                                  *)
THEOREM CursorCovers == Spec => []CursorCoversPayments
<1>1. WatcherInv => CursorCoversPayments
  <2>1. SUFFICES ASSUME WatcherInv, NEW w \in Watchers, cursor[w] # -1,
                        NEW b \in Branch(cursor[w]) \ Branch(start[w]), NEW d \in PaidIn(b)
                 PROVE  Accounted(d)
    BY DEF CursorCoversPayments, PaidOn
  <2>2. Covered(w, cursor[w])
    BY <2>1 DEF WatcherInv, MemInv
  <2> QED BY <2>1, <2>2 DEF Covered, Done
<1> QED BY <1>1, WatcherInvariant, PTL

(* block-handler.ts:302: while no error was logged and no cached answer     *)
(* used, every confirmed deposit is on the active chain once every watcher *)
(* has worked through the node's tip, whatever forks, ended polls and      *)
(* restarts there were and whichever watcher used an older answer last.    *)
THEOREM LostRolledBack == Spec => [](errors = 0 => LostIsRolledBack)
<1>1. WatcherInv => (errors = 0 => LostIsRolledBack)
  <2>1. SUFFICES ASSUME WatcherInv, errors = 0, \A w \in Watchers : AtTip(w), FromGenesis, stale = 0,
                        NEW d \in Payments, deposit[d].state = "CONFIRMED"
                 PROVE  Confirmations(d) > 0
    BY DEF LostIsRolledBack
  <2>2. tip # -1 /\ TreeInv
    BY <2>1, BlockFacts DEF WatcherInv, TreeInv, Blocks
  <2>3. \A w \in Watchers : tip \in mem[w].window
    BY <2>1, <2>2 DEF WatcherInv, MemInv, AtTip
  <2>4. ~Lost(d)
    BY <2>1, <2>3 DEF WatcherInv, LostInv, NotYet, Clean
  <2> QED BY <2>1, <2>2, <2>4, ConfirmationsType DEF Lost
<1> QED BY <1>1, WatcherInvariant, PTL

(* Every variable has its type, and a recorded deposit names a block that  *)
(* pays it.                                                                *)
THEOREM WatcherTypes == Spec => []TypeOK
<1>1. WatcherInv => TypeOK \/ ~ChainTypeOK
  BY DEF WatcherInv, DepositsInv, DepositRecord, MemRecord, TypeOK
<1>2. Init => ChainTypeOK
  BY ChainAssumption DEF Init, ChainInit, ChainTypeOK, ChainAssumption, Blocks
<1>3. WatcherInv /\ ChainTypeOK /\ [Next]_vars => ChainTypeOK'
  <2>1. SUFFICES ASSUME WatcherInv, ChainTypeOK, [Next]_vars PROVE ChainTypeOK'
    OBVIOUS
  <2>2. CASE UNCHANGED chainVars
    BY <2>1, <2>2 DEF chainVars, ChainTypeOK, Blocks
  <2>3. CASE ChainNext
    <3>1. PICK p \in Blocks, paid \in SUBSET Payments : Mine(p, paid)
      BY <2>3 DEF ChainNext
    <3>2. TreeInv /\ TreeInv'
      BY <2>1, <3>1, TreeMine DEF WatcherInv
    <3>3. /\ blocks \in Seq(BlockRecord) /\ Len(blocks) \in Nat /\ DOMAIN blocks = 1 .. Len(blocks)
          /\ Height(p) \in Nat /\ Branch(p) \subseteq Blocks /\ MaxBlocks \in Nat /\ MaxForks \in Nat
      BY <3>2, BlockFacts, ChainAssumption DEF TreeInv, ChainAssumption
    <3>4. PICK n, rec :
            /\ n = Len(blocks) + 1
            /\ rec = [height |-> Height(p) + 1, branch |-> Branch(p) \cup {n}, paid |-> paid]
      OBVIOUS
    <3>5. /\ rec \in BlockRecord /\ rec.height = Height(p) + 1
          /\ rec.branch = Branch(p) \cup {n} /\ rec.paid = paid
      BY <3>3, <3>4 DEF BlockRecord, Blocks
    <3>6. /\ blocks' = Append(blocks, rec) /\ Len(blocks) < MaxBlocks
          /\ p # tip => forks < MaxForks
          /\ forks' = forks + (IF p = tip THEN 0 ELSE 1)
      BY <3>1, <3>4 DEF Mine
    <3>7. /\ Len(blocks') = n /\ DOMAIN blocks' = 1 .. n /\ blocks'[n] = rec
          /\ \A b \in 1 .. Len(blocks) : blocks'[b] = blocks[b]
      BY <3>3, <3>4, <3>5, <3>6, AppendProperties
    <3>8. Height(p) \in 0 .. Len(blocks)
      BY <2>1, <3>1, <3>3 DEF ChainTypeOK, Blocks, Height
    <3>9. ASSUME NEW b \in 1 .. n
          PROVE  /\ blocks'[b].height \in 1 .. b /\ blocks'[b].branch \subseteq 0 .. b
                 /\ blocks'[b].paid \subseteq Payments
      <4>1. CASE b = n
        <5>1. blocks'[b] = rec /\ Height(p) + 1 \in 1 .. n /\ Branch(p) \cup {n} \subseteq 0 .. n
          BY <3>3, <3>4, <3>7, <3>8, <4>1 DEF Blocks
        <5> QED BY <3>1, <3>5, <4>1, <5>1
      <4>2. CASE b # n
        <5>1. b \in 1 .. Len(blocks)
          BY <3>3, <3>4, <3>9, <4>2
        <5> QED BY <2>1, <3>3, <3>7, <5>1 DEF ChainTypeOK
      <4> QED BY <4>1, <4>2
    <3>10. forks' \in 0 .. MaxForks
      BY <2>1, <3>3, <3>6 DEF ChainTypeOK
    <3>11. Len(blocks') <= MaxBlocks /\ tip' \in Blocks'
      BY <3>2, <3>3, <3>4, <3>6, <3>7 DEF TreeInv
    <3> QED BY <3>7, <3>9, <3>10, <3>11 DEF ChainTypeOK
  <2> QED BY <2>1, <2>2, <2>3
       DEF Next, Grow, Follows, Abort, Restart, Bootstrap, CatchUp, Poll, Orphan, NextBlock, Record,
           RecordThrows, SelectPending, AskNode, FollowMove, AdvanceDeposit, FinishBlock, vars
<1> QED BY <1>1, <1>2, <1>3, WatcherInvariant, PTL DEF Spec
===============================================================================
