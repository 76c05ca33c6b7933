----------------------------- MODULE GnosisProofs -----------------------------
(***************************************************************************)
(* Proofs about the Gnosis event watcher, for any number of processes, any *)
(* depth, chunk and poison, and every bound.                               *)
(***************************************************************************)
EXTENDS GnosisEventWatcher, SetFacts, SequenceTheorems, TLAPS

-------------------------------------------------------------------------------
(***************************************************************************)
(* The inductive invariant of the Gnosis event watcher, for any number of  *)
(* processes over one database.                                            *)
(***************************************************************************)

(* Burns with a row, and those somebody else is to blame for.              *)
Known == Recorded \cup omitted \cup deleted

(* Up to block b every burn is known, but perhaps those in S.              *)
KnownUpTo(b, S) == \A w \in DOMAIN burned : burned[w] <= b => w \in Known \cup S

(* What no reorganisation removes. *)
FinalLogs == Logs(1, final)

Ids(logs) == {l.id : l \in logs}

-------------------------------------------------------------------------------
(* The chain keeps Depth blocks back what may yet change, and burns are    *)
(* numbered in its order.                                                  *)
ChainInv ==
  /\ SafeTip <= final
  /\ \A v, w \in DOMAIN burned : v <= w => burned[v] <= burned[w]

(* A scan is ahead of no unknown burn but those it has in hand, and what   *)
(* it has in hand is final.                                                *)
ScanInv(p) ==
  /\ p.pc \in {"idle", "read", "logs", "insert", "halt", "stop", "clear",
               "select", "confirm", "queue"}
  /\ p.pc \in {"read", "logs", "insert"} => p.from \in 1 .. p.tip /\ p.tip \in 1 .. final
  /\ p.pc = "read" => p.start \in p.from .. p.tip /\ KnownUpTo(p.start - 1, {})
  /\ p.pc \in {"logs", "insert"} =>
       /\ p.end \in p.from .. p.tip
       /\ p.todo \subseteq FinalLogs /\ \A l \in p.todo : l.block <= p.end
       /\ KnownUpTo(p.end, Ids(p.todo))
  /\ p.pc = "insert" => p.todo # {}
  /\ p.pc \in {"halt", "stop"} =>
       p.from \in 1 .. final /\ p.block \in 1 .. final /\ KnownUpTo(p.block - 1, {})
  /\ p.pc \in {"confirm", "queue"} => p.burns \subseteq WithdrawalIds
  /\ p.pc = "queue" => p.burn \in WithdrawalIds

(* A recount with its cursor at a block looks at final blocks only. *)
RecountInv(p, at) ==
  /\ p.pc \in {"idle", "read", "missing", "insert", "alert"}
  /\ p.pc \in {"read", "missing", "insert"} => p.end \in at .. final
  /\ p.pc \in {"missing", "insert"} => p.to \in at .. p.end /\ p.todo \subseteq FinalLogs
  /\ p.pc = "insert" => p.todo # {}
  /\ p.pc # "idle" => p.missing \subseteq WithdrawalIds

(* What the watermark leaves behind is known, what is recorded is final,   *)
(* and so is whatever a process is about to record (event-watcher.ts).     *)
GnosisInv ==
  /\ TypeOK /\ {DOMAIN scan, DOMAIN recount} = {Instances}
  /\ ChainInv
  /\ watermark <= final /\ KnownUpTo(watermark, {})
  /\ RecordedIsOnChain
  /\ \A i \in Instances : ScanInv(scan[i]) /\ RecountInv(recount[i], cursor[i])

-------------------------------------------------------------------------------
(* What the types say of the numbers. *)
LEMMA Numbers ==
  ASSUME GnosisInv
  PROVE  /\ head \in Nat /\ final \in Nat /\ final <= head /\ head <= MaxBlock /\ MaxBlock \in Nat
         /\ Depth \in Nat \ {0} /\ Chunk \in Nat \ {0} /\ SafeTip \in Int /\ SafeTip <= final
         /\ watermark \in Nat /\ watermark <= final
         /\ burned \in Seq(1 .. head) /\ Len(burned) \in Nat /\ DOMAIN burned = 1 .. Len(burned)
         /\ DOMAIN burned \subseteq WithdrawalIds
         /\ \A w \in DOMAIN burned : burned[w] \in 1 .. head
         /\ WithdrawalIds \subseteq Nat /\ Known \subseteq WithdrawalIds
<1>1. burned \in Seq(1 .. head) /\ Len(burned) <= MaxBurns
  BY DEF GnosisInv, TypeOK
<1>2. /\ head \in Nat /\ final \in Nat /\ final <= head /\ head <= MaxBlock
      /\ watermark \in Nat /\ watermark <= final
  BY WatcherAssumption DEF GnosisInv, TypeOK
<1>3. SafeTip \in Int /\ SafeTip <= final
  BY <1>2, WatcherAssumption DEF GnosisInv, ChainInv, SafeTip
<1>4. DOMAIN burned \subseteq WithdrawalIds /\ \A w \in DOMAIN burned : burned[w] \in 1 .. head
  BY <1>1, <1>2, WatcherAssumption DEF WithdrawalIds
<1>5. Known \subseteq WithdrawalIds
  BY DEF GnosisInv, TypeOK, Known, Recorded
<1> QED BY <1>1, <1>2, <1>3, <1>4, <1>5, WatcherAssumption DEF WithdrawalIds

LEMMA LogFacts ==
  ASSUME GnosisInv, NEW l \in FinalLogs
  PROVE  /\ l.id \in DOMAIN burned /\ l.block = burned[l.id] /\ l.block \in 1 .. final
         /\ l.id \in WithdrawalIds
BY Numbers DEF FinalLogs, Logs

LEMMA LogsAreFinal ==
  ASSUME GnosisInv, NEW from \in Nat \ {0}, NEW to \in Nat, to <= final
  PROVE  Logs(from, to) \subseteq FinalLogs
BY Numbers DEF FinalLogs, Logs

LEMMA FirstIsLeast ==
  ASSUME GnosisInv, NEW logs \in SUBSET FinalLogs, logs # {}
  PROVE  FirstOf(logs) \in logs /\ \A m \in logs : FirstOf(logs).id <= m.id
<1> DEFINE T == Ids(logs)
<1>1. T \in SUBSET Nat /\ T # {}
  BY LogFacts, Numbers DEF Ids
<1>2. PICK n \in T : \A m \in T : n <= m
  <2> HIDE DEF T
  <2> QED BY <1>1, LeastOf
<1>3. PICK l \in logs : l.id = n
  BY <1>2 DEF Ids
<1>4. \A m \in logs : l.id <= m.id
  BY <1>2, <1>3 DEF Ids
<1> QED BY <1>4 DEF FirstOf

-------------------------------------------------------------------------------
(* What every step does to what has become final or known.                 *)

Later ==
  /\ final' \in Nat /\ final <= final'
  /\ \A w \in DOMAIN burned' : burned'[w] \in Nat
  /\ \A w \in DOMAIN burned :
       burned[w] <= final => w \in DOMAIN burned' /\ burned'[w] = burned[w]
  /\ \A w \in DOMAIN burned' :
       burned'[w] <= final => w \in DOMAIN burned /\ burned'[w] = burned[w]
  /\ Known \subseteq Known'

LEMMA LogsStay ==
  ASSUME GnosisInv, Later
  PROVE  FinalLogs \subseteq FinalLogs'
<1> SUFFICES ASSUME NEW l \in FinalLogs PROVE l \in FinalLogs'
  OBVIOUS
<1>1. PICK w \in DOMAIN burned : burned[w] \in 1 .. final /\ l = [id |-> w, block |-> burned[w]]
  BY DEF FinalLogs, Logs
<1>2. w \in DOMAIN burned' /\ burned'[w] = burned[w] /\ burned'[w] \in 1 .. final'
  BY <1>1, Numbers DEF Later
<1>3. FinalLogs' = {[id |-> v, block |-> burned'[v]] : v \in {u \in DOMAIN burned' : burned'[u] \in 1 .. final'}}
  BY DEF FinalLogs, Logs
<1> QED BY <1>1, <1>2, <1>3

LEMMA KnownStays ==
  ASSUME GnosisInv, Later, NEW b \in Int, b <= final, NEW S, KnownUpTo(b, S)
  PROVE  KnownUpTo(b, S)'
<1> SUFFICES ASSUME NEW w \in DOMAIN burned', burned'[w] <= b PROVE w \in Known' \cup S
  BY DEF KnownUpTo
<1>1. w \in DOMAIN burned /\ burned'[w] = burned[w]
  <2>1. burned'[w] \in Nat /\ final \in Nat
    BY Numbers DEF Later
  <2>2. burned'[w] <= final
    BY <2>1
  <2> QED BY <2>2 DEF Later
<1> QED BY <1>1 DEF KnownUpTo, Later

(* So what a process has in hand stays good while others go on. *)
LEMMA ScanLater ==
  ASSUME GnosisInv, Later, NEW p, ScanInv(p)
  PROVE  ScanInv(p)'
<1>1. p.pc = "read" => KnownUpTo(p.start - 1, {})'
  BY KnownStays, Numbers DEF ScanInv
<1>2. ASSUME p.pc \in {"logs", "insert"}, NEW S, S = Ids(p.todo)
      PROVE  KnownUpTo(p.end, S)' /\ p.todo \subseteq FinalLogs'
  <2>1. p.end \in Int /\ p.end <= final /\ KnownUpTo(p.end, S) /\ p.todo \subseteq FinalLogs
    BY <1>2, Numbers DEF ScanInv
  <2>2. KnownUpTo(p.end, S)'
    BY <2>1, KnownStays
  <2> QED BY <2>1, <2>2, LogsStay
<1>3. p.pc \in {"halt", "stop"} => KnownUpTo(p.block - 1, {})'
  BY KnownStays, Numbers DEF ScanInv
<1>4. 1 .. final \subseteq 1 .. final'
  BY Numbers DEF Later
<1> QED BY <1>1, <1>2, <1>3, <1>4 DEF ScanInv

LEMMA RecountLater ==
  ASSUME GnosisInv, Later, NEW p, NEW at \in Nat, RecountInv(p, at)
  PROVE  RecountInv(p, at)'
<1>1. at .. final \subseteq at .. final'
  BY Numbers DEF Later
<1> QED BY <1>1, LogsStay DEF RecountInv

(* Nobody but i moves. *)
Others(i, f) == DOMAIN f' = Instances /\ \A j \in Instances \ {i} : f'[j] = f[j]

LEMMA Assemble ==
  ASSUME GnosisInv, Later, TypeOK', ChainInv', RecordedIsOnChain',
         watermark' <= final', KnownUpTo(watermark, {})',
         NEW i, Others(i, scan), Others(i, recount), Others(i, cursor),
         i \in Instances => ScanInv(scan[i])' /\ RecountInv(recount[i], cursor[i])'
  PROVE  GnosisInv'
<1>1. ASSUME NEW j \in Instances PROVE ScanInv(scan[j])' /\ RecountInv(recount[j], cursor[j])'
  <2>1. CASE j = i
    BY <2>1
  <2>2. CASE j # i
    <3>1. scan'[j] = scan[j] /\ recount'[j] = recount[j] /\ cursor'[j] = cursor[j]
      BY <2>2 DEF Others
    <3>2. ASSUME NEW p, NEW q, NEW at, p = scan[j], q = recount[j], at = cursor[j]
          PROVE  ScanInv(p)' /\ RecountInv(q, at)'
      <4>1. at \in Nat /\ ScanInv(p) /\ RecountInv(q, at)
        <5>1. cursor[j] \in 1 .. MaxBlock + 1
          BY DEF GnosisInv, TypeOK
        <5>2. ScanInv(scan[j]) /\ RecountInv(recount[j], cursor[j])
          BY DEF GnosisInv
        <5> QED BY <3>2, <5>1, <5>2
      <4> QED BY <4>1, ScanLater, RecountLater
    <3> QED BY <3>1, <3>2
  <2> QED BY <2>1, <2>2
<1> QED BY <1>1 DEF GnosisInv, Others

(* A step that leaves the chain alone. *)
LEMMA ChainAlone ==
  ASSUME GnosisInv, UNCHANGED chainVars, Known \subseteq Known'
  PROVE  Later /\ ChainInv' /\ FinalLogs' = FinalLogs
<1>1. head' = head /\ final' = final /\ burned' = burned
  BY DEF chainVars
<1>2. Later
  BY <1>1, Numbers DEF Later
<1>3. FinalLogs' = FinalLogs
  BY <1>1 DEF FinalLogs, Logs
<1> QED BY <1>1, <1>2, <1>3 DEF ChainInv, SafeTip, GnosisInv

OrderStates == {"NONE", "BURN_TX_SEEN", "BURN_CONFIRMED", "PAYOUT_QUEUED"}

(* Rows stay as they are or are added, with their orders. *)
RowsGrow ==
  /\ row' \in [WithdrawalIds -> 0 .. MaxBlock]
  /\ order' \in [WithdrawalIds -> OrderStates]
  /\ \A w \in WithdrawalIds : order'[w] = "NONE" <=> row'[w] = 0
  /\ RecordedIsOnChain' /\ Recorded \subseteq Recorded'

LEMMA SameRows ==
  ASSUME GnosisInv, UNCHANGED chainVars, UNCHANGED row, order' \in [WithdrawalIds -> OrderStates],
         \A w \in WithdrawalIds : order'[w] = "NONE" <=> order[w] = "NONE"
  PROVE  RowsGrow
<1>1. RecordedIsOnChain'
  BY DEF GnosisInv, RecordedIsOnChain, Recorded, chainVars
<1> QED BY <1>1 DEF RowsGrow, GnosisInv, TypeOK, Recorded

LEMMA NewRow ==
  ASSUME GnosisInv, UNCHANGED chainVars, NEW l \in FinalLogs, CanInsert(l), InsertRow(l)
  PROVE  RowsGrow /\ l.id \in Recorded'
<1>1. /\ l.id \in DOMAIN burned /\ l.block = burned[l.id] /\ l.block \in 1 .. final
      /\ l.id \in WithdrawalIds
  BY LogFacts
<1>2. l.block \in 1 .. MaxBlock
  BY <1>1, Numbers
<1>3. /\ row \in [WithdrawalIds -> 0 .. MaxBlock] /\ order \in [WithdrawalIds -> OrderStates]
      /\ \A w \in WithdrawalIds : order[w] = "NONE" <=> row[w] = 0
      /\ RecordedIsOnChain
  BY DEF GnosisInv, TypeOK, OrderStates
<1>4. /\ row' \in [WithdrawalIds -> 0 .. MaxBlock]
      /\ order' \in [WithdrawalIds -> OrderStates]
      /\ \A w \in WithdrawalIds : order'[w] = "NONE" <=> row'[w] = 0
  BY <1>1, <1>2, <1>3 DEF InsertRow, OrderStates
<1>5. Recorded' = Recorded \cup {l.id}
  BY <1>1, <1>2, <1>3 DEF InsertRow, Recorded
<1>6. RecordedIsOnChain'
  <2> SUFFICES ASSUME NEW w \in Recorded'
               PROVE  w \in DOMAIN burned' /\ burned'[w] = row'[w] /\ row'[w] <= final'
    BY DEF RecordedIsOnChain
  <2>1. burned' = burned /\ final' = final /\ w \in WithdrawalIds
    BY DEF chainVars, Recorded
  <2>2. CASE w = l.id
    BY <1>1, <1>3, <2>1, <2>2, Numbers DEF InsertRow
  <2>3. CASE w # l.id
    BY <1>3, <1>5, <2>1, <2>3 DEF InsertRow, RecordedIsOnChain
  <2> QED BY <2>2, <2>3
<1> QED BY <1>4, <1>5, <1>6 DEF RowsGrow

(* A step of a scan. *)
LEMMA ScanStep ==
  ASSUME GnosisInv, NEW i \in Instances, NEW p, scan' = [scan EXCEPT ![i] = p],
         UNCHANGED <<chainVars, recountVars, deleted>>, RowsGrow,
         omitted \subseteq omitted', omitted' \subseteq WithdrawalIds,
         halt' \in [block : 0 .. MaxBlock, count : 0 .. HaltThreshold],
         watermark' \in 0 .. final, KnownUpTo(watermark, {})', ScanInv(p)'
  PROVE  GnosisInv'
<1>1. Later /\ ChainInv' /\ RecordedIsOnChain' /\ final' = final
  <2>1. Known \subseteq Known' /\ UNCHANGED chainVars
    BY DEF Known, RowsGrow
  <2> QED BY <2>1, ChainAlone DEF chainVars, RowsGrow
<1>2. TypeOK'
  <2>1. UNCHANGED <<head, final, burned, cursor, recounted, alerted, deleted>>
    BY DEF chainVars, recountVars
  <2>2. 0 .. final \subseteq 0 .. MaxBlock
    BY Numbers
  <2>3. {omitted', recounted, alerted, deleted} \subseteq SUBSET WithdrawalIds
    BY DEF GnosisInv, TypeOK
  <2>4. halt' \in [block : 0 .. MaxBlock, count : 0 .. HaltThreshold] /\ watermark' \in 0 .. MaxBlock
    BY <2>2
  <2>5. /\ row' \in [WithdrawalIds -> 0 .. MaxBlock] /\ order' \in [WithdrawalIds -> OrderStates]
        /\ \A w \in WithdrawalIds : order'[w] = "NONE" <=> row'[w] = 0
    BY DEF RowsGrow
  <2> QED BY <2>1, <2>3, <2>4, <2>5 DEF GnosisInv, TypeOK, OrderStates
<1>3. Others(i, scan) /\ Others(i, recount) /\ Others(i, cursor) /\ scan'[i] = p
  BY DEF Others, GnosisInv, TypeOK, recountVars
<1>4. RecountInv(recount[i], cursor[i])'
  <2>1. ASSUME NEW q, NEW at, q = recount[i], at = cursor[i] PROVE RecountInv(q, at)'
    <3>1. at \in Nat /\ RecountInv(q, at)
      BY <2>1, WatcherAssumption DEF GnosisInv, TypeOK
    <3> QED BY <1>1, <3>1, RecountLater
  <2> QED BY <2>1 DEF recountVars
<1>5. watermark' <= final'
  BY <1>1, Numbers
<1> QED BY <1>1, <1>2, <1>3, <1>4, <1>5, Assemble

(* ... and changes nothing shared. *)
LEMMA ScanMoves ==
  ASSUME GnosisInv, NEW i \in Instances, NEW p, scan' = [scan EXCEPT ![i] = p], ScanInv(p),
         UNCHANGED <<chainVars, rowVars, watermark, halt, recountVars, omitted, deleted>>
  PROVE  GnosisInv'
<1>1. UNCHANGED <<chainVars, row, order, recountVars, deleted, head, final, burned>>
  BY DEF rowVars, chainVars
<1>2. Known \subseteq Known'
  BY <1>1 DEF Known, Recorded
<1>3. ScanInv(p)'
  BY <1>1, <1>2, ChainAlone, ScanLater
<1>4. KnownUpTo(watermark, {})'
  BY <1>1, <1>2 DEF GnosisInv, KnownUpTo
<1>5. watermark \in 0 .. final
  BY Numbers
<1>6. /\ order \in [WithdrawalIds -> OrderStates] /\ omitted \subseteq WithdrawalIds
      /\ halt \in [block : 0 .. MaxBlock, count : 0 .. HaltThreshold]
  BY DEF GnosisInv, TypeOK, OrderStates
<1>7. RowsGrow
  BY <1>1, <1>6, SameRows
<1> QED BY <1>1, <1>3, <1>4, <1>5, <1>6, <1>7, ScanStep

-------------------------------------------------------------------------------
(* The scan.                                                               *)

LEMMA JobOf ==
  ASSUME GnosisInv, NEW i \in Instances
  PROVE  ScanInv(scan[i]) /\ RecountInv(recount[i], cursor[i]) /\ cursor[i] \in 1 .. MaxBlock + 1
BY DEF GnosisInv, TypeOK

LEMMA RestingScan ==
  ASSUME NEW p, p.pc \in {"idle", "clear", "select"}
  PROVE  ScanInv(p)
BY DEF ScanInv

LEMMA WatermarkCovered ==
  ASSUME GnosisInv
  PROVE  watermark \in 0 .. final /\ KnownUpTo(watermark, {})
<1>1. KnownUpTo(watermark, {})
  BY DEF GnosisInv
<1> QED BY <1>1, Numbers

LEMMA BeginScanKeeps ==
  ASSUME GnosisInv, NEW i \in Instances, BeginScan(i)
  PROVE  GnosisInv'
<1> DEFINE select == [pc |-> "select"]
           read == [pc |-> "read", from |-> watermark + 1, start |-> watermark + 1, tip |-> SafeTip]
<1>1. UNCHANGED <<chainVars, rowVars, watermark, halt, recountVars, omitted, deleted>>
  BY DEF BeginScan, answerVars
<1>2. CASE watermark + 1 > SafeTip
  <2>1. scan' = [scan EXCEPT ![i] = select] /\ select.pc = "select"
    BY <1>2 DEF BeginScan
  <2> HIDE DEF select
  <2>2. ScanInv(select)
    BY <2>1, RestingScan
  <2> QED BY <1>1, <2>1, <2>2, ScanMoves
<1>3. CASE ~(watermark + 1 > SafeTip)
  <2>1. scan' = [scan EXCEPT ![i] = read]
    BY <1>3 DEF BeginScan
  <2>2. KnownUpTo(watermark, {})
    BY DEF GnosisInv
  <2>3. ScanInv(read)
    <3>1. read.from \in 1 .. read.tip /\ read.tip \in 1 .. final /\ read.start \in read.from .. read.tip
      BY <1>3, Numbers
    <3>2. read.start - 1 = watermark /\ read.pc = "read"
      BY Numbers
    <3> HIDE DEF read
    <3> QED BY <2>2, <3>1, <3>2 DEF ScanInv
  <2> HIDE DEF read
  <2> QED BY <1>1, <2>1, <2>3, ScanMoves
<1> QED BY <1>2, <1>3

(* What an answer tells of a range, and what it leaves out. *)
LEMMA AnswerTells ==
  ASSUME GnosisInv, NEW from \in Nat \ {0}, NEW to \in Nat, to <= final, NEW found,
         Answer(Logs(from, to), found), UNCHANGED <<burned, row, deleted>>,
         KnownUpTo(from - 1, {})
  PROVE  KnownUpTo(to, Ids(found))'
<1> SUFFICES ASSUME NEW w \in DOMAIN burned', burned'[w] <= to PROVE w \in Known' \cup Ids(found)
  BY DEF KnownUpTo
<1>1. w \in DOMAIN burned /\ burned[w] \in Nat /\ burned[w] <= to
  BY Numbers
<1>2. Known \subseteq Known' /\ omitted' \subseteq Known'
  BY DEF Known, Recorded, Answer
<1>3. CASE burned[w] < from
  <2>1. burned[w] <= from - 1
    BY <1>1, <1>3
  <2> QED BY <1>1, <1>2, <2>1 DEF KnownUpTo
<1>4. CASE ~(burned[w] < from)
  <2> DEFINE l == [id |-> w, block |-> burned[w]]
  <2>1. l \in Logs(from, to) /\ l.id = w
    BY <1>1, <1>4 DEF Logs
  <2> HIDE DEF l
  <2>2. CASE l \in found
    BY <2>1, <2>2 DEF Ids
  <2>3. CASE l \notin found
    BY <1>2, <2>1, <2>3 DEF Answer
  <2> QED BY <2>2, <2>3
<1> QED BY <1>3, <1>4

LEMMA OmittedAreBurns ==
  ASSUME GnosisInv, NEW from \in Nat \ {0}, NEW to \in Nat, to <= final, NEW found,
         Answer(Logs(from, to), found)
  PROVE  omitted \subseteq omitted' /\ omitted' \subseteq WithdrawalIds /\ found \subseteq FinalLogs
<1>1. Logs(from, to) \subseteq FinalLogs
  BY LogsAreFinal
<1>2. \A l \in Logs(from, to) : l.id \in WithdrawalIds
  BY <1>1, LogFacts
<1> QED BY <1>1, <1>2 DEF Answer, GnosisInv, TypeOK

LEMMA ChunkFacts ==
  ASSUME NEW start \in Nat, NEW tip \in Nat, start <= tip
  PROVE  LET end == Least(start + Chunk - 1, tip)
         IN  end \in Nat /\ start <= end /\ end <= tip
BY WatcherAssumption DEF Least

LEMMA ReadLogsKeeps ==
  ASSUME GnosisInv, NEW i \in Instances, ReadLogs(i)
  PROVE  GnosisInv'
<1> DEFINE p == scan[i]
           end == Least(p.start + Chunk - 1, p.tip)
<1>1. /\ p.pc = "read" /\ UNCHANGED <<deleted, chainVars, rowVars, watermark, halt, recountVars>>
      /\ UNCHANGED <<head, final, burned, row, order>>
  BY DEF ReadLogs, chainVars, rowVars
<1>2. /\ p.start \in Nat \ {0} /\ p.from \in 1 .. p.start /\ p.tip \in Nat /\ p.tip <= final
      /\ p.start <= p.tip /\ KnownUpTo(p.start - 1, {})
  <2>1. /\ p.from \in 1 .. p.tip /\ p.tip \in 1 .. final
        /\ p.start \in p.from .. p.tip /\ KnownUpTo(p.start - 1, {})
    BY <1>1, JobOf DEF ScanInv
  <2> HIDE DEF p
  <2> QED BY <2>1, Numbers
<1>3. end \in Nat /\ p.start <= end /\ end <= p.tip /\ end <= final
  <2>1. p.start \in Nat /\ p.tip \in Nat /\ p.start <= p.tip
    BY <1>2
  <2>2. end \in Nat /\ p.start <= end /\ end <= p.tip
    BY <2>1, ChunkFacts
  <2> HIDE DEF end, p
  <2> QED BY <1>2, <2>1, <2>2, Numbers
<1>4. PICK logs \in SUBSET Logs(p.start, end) :
        /\ Answer(Logs(p.start, end), logs)
        /\ scan' = [scan EXCEPT ![i] = [pc |-> "logs", from |-> p.from, tip |-> p.tip,
                                        end |-> end, todo |-> logs]]
  BY DEF ReadLogs
<1> DEFINE q == [pc |-> "logs", from |-> p.from, tip |-> p.tip, end |-> end, todo |-> logs]
<1>5. ASSUME NEW from \in Nat \ {0}, NEW to \in Nat, from = p.start, to = end
      PROVE  /\ KnownUpTo(to, Ids(logs))' /\ omitted \subseteq omitted' /\ omitted' \subseteq WithdrawalIds
             /\ logs \subseteq FinalLogs
  BY <1>1, <1>2, <1>3, <1>4, <1>5, AnswerTells, OmittedAreBurns
<1>6. omitted \subseteq omitted' /\ omitted' \subseteq WithdrawalIds /\ logs \subseteq FinalLogs
  BY <1>2, <1>3, <1>5
<1>7. \A l \in logs : l.block <= end
  <2> HIDE DEF end
  <2> QED BY <1>2, <1>3, <1>4, Numbers DEF Logs
<1>8. Known \subseteq Known' /\ FinalLogs' = FinalLogs
  BY <1>1, <1>6 DEF Known, Recorded, FinalLogs, Logs
<1>9. ASSUME NEW r, r = q PROVE ScanInv(r)'
  <2>1. r.pc = "logs" /\ r.from = p.from /\ r.tip = p.tip /\ r.end = end /\ r.todo = logs
    BY <1>9
  <2>2. KnownUpTo(r.end, Ids(r.todo))'
    BY <1>2, <1>3, <1>5, <2>1
  <2>3. r.from \in 1 .. r.tip /\ r.tip \in 1 .. final /\ r.end \in r.from .. r.tip
    <3> HIDE DEF p, end
    <3> QED BY <1>2, <1>3, <2>1, Numbers
  <2>4. \A l \in r.todo : l.block <= r.end
    BY <1>7, <2>1
  <2> QED BY <1>1, <1>6, <1>8, <2>1, <2>2, <2>3, <2>4 DEF ScanInv
<1>10. KnownUpTo(watermark, {})' /\ watermark \in 0 .. final
  BY <1>1, <1>8, Numbers DEF GnosisInv, KnownUpTo
<1>11. RowsGrow /\ halt \in [block : 0 .. MaxBlock, count : 0 .. HaltThreshold]
  BY <1>1, SameRows DEF GnosisInv, TypeOK, OrderStates
<1> HIDE DEF p, end
<1>12. ASSUME NEW r, r = q PROVE GnosisInv'
  BY <1>1, <1>4, <1>6, <1>9, <1>10, <1>11, <1>12, ScanStep
<1> QED BY <1>12

(* A log that has its row is done with. *)
LEMMA DoneWith ==
  ASSUME NEW b, NEW logs, NEW l \in logs, KnownUpTo(b, Ids(logs)), l.id \in Known
  PROVE  KnownUpTo(b, Ids(logs \ {l}))
BY DEF KnownUpTo, Ids

LEMMA CheckLogKeeps ==
  ASSUME GnosisInv, NEW i \in Instances, CheckLog(i)
  PROVE  GnosisInv'
<1>1. /\ scan[i].pc = "logs" /\ scan[i].todo # {}
      /\ UNCHANGED <<chainVars, rowVars, watermark, halt, recountVars, omitted, deleted>>
  BY DEF CheckLog, answerVars
<1> DEFINE p == scan[i]
           l == FirstOf(p.todo)
<1>2. p.pc = "logs" /\ p.todo # {}
  BY <1>1
<1>3. ScanInv(p) /\ l \in p.todo /\ l.id \in WithdrawalIds
  <2>1. ScanInv(p) /\ p.todo \in SUBSET FinalLogs /\ p.todo # {}
    BY <1>1, JobOf DEF ScanInv
  <2>2. l \in p.todo
    BY <2>1, FirstIsLeast
  <2> QED BY <2>1, <2>2, LogFacts
<1>4. CASE row[l.id] = 0
  <2> DEFINE q == [p EXCEPT !.pc = "insert"]
  <2>1. scan' = [scan EXCEPT ![i] = q]
    BY <1>4 DEF CheckLog
  <2>2. q.pc = "insert" /\ q.from = p.from /\ q.tip = p.tip /\ q.end = p.end /\ q.todo = p.todo
    OBVIOUS
  <2> HIDE DEF q
  <2>3. ScanInv(q)
    BY <1>2, <1>3, <2>2 DEF ScanInv
  <2> QED BY <1>1, <2>1, <2>3, ScanMoves
<1>5. CASE row[l.id] # 0
  <2> DEFINE q == Handled(p, "logs", l)
  <2>1. scan' = [scan EXCEPT ![i] = q]
    BY <1>5 DEF CheckLog
  <2>2. q.pc = p.pc /\ q.from = p.from /\ q.tip = p.tip /\ q.end = p.end /\ q.todo = p.todo \ {l}
    BY <1>2 DEF Handled
  <2> HIDE DEF q
  <2>3. KnownUpTo(p.end, Ids(q.todo))
    <3>1. KnownUpTo(p.end, Ids(p.todo)) /\ l.id \in Known
      BY <1>2, <1>3, <1>5 DEF ScanInv, Known, Recorded
    <3> HIDE DEF p, l
    <3> QED BY <1>3, <2>2, <3>1, DoneWith
  <2>4. ScanInv(q)
    <3> HIDE DEF p, l
    <3> QED BY <1>2, <1>3, <2>2, <2>3 DEF ScanInv
  <2> QED BY <1>1, <2>1, <2>4, ScanMoves
<1> QED BY <1>4, <1>5

LEMMA InsertLogKeeps ==
  ASSUME GnosisInv, NEW i \in Instances, InsertLog(i)
  PROVE  GnosisInv'
<1> SUFFICES ASSUME NEW p, NEW l, p = scan[i], l = FirstOf(p.todo)
             PROVE  GnosisInv'
  OBVIOUS
<1>1. /\ p.pc = "insert" /\ p.todo # {} /\ p.todo \in SUBSET FinalLogs /\ ScanInv(p)
      /\ UNCHANGED <<deleted, chainVars, watermark, halt, recountVars, omitted>>
  BY JobOf DEF InsertLog, ScanInv, answerVars
<1>2. l \in p.todo /\ \A m \in p.todo : l.id <= m.id
  BY <1>1, FirstIsLeast
<1>3. /\ l \in FinalLogs /\ l.id \in DOMAIN burned /\ l.block = burned[l.id]
      /\ l.block \in 1 .. final
  BY <1>1, <1>2, LogFacts
<1>4. KnownUpTo(watermark, {}) /\ watermark \in 0 .. final
  BY WatermarkCovered
<1>5. halt \in [block : 0 .. MaxBlock, count : 0 .. HaltThreshold] /\ omitted \subseteq WithdrawalIds
  BY DEF GnosisInv, TypeOK
<1>6. CASE CanInsert(l) /\ InsertRow(l) /\ scan' = [scan EXCEPT ![i] = Handled(p, "logs", l)]
  <2> DEFINE q == Handled(p, "logs", l)
  <2>1. q.pc = "logs" /\ q.from = p.from /\ q.tip = p.tip /\ q.end = p.end /\ q.todo = p.todo \ {l}
    BY <1>1 DEF Handled
  <2>2. RowsGrow /\ l.id \in Recorded'
    BY <1>1, <1>3, <1>6, NewRow
  <2> HIDE DEF q
  <2>3. Known \subseteq Known' /\ l.id \in Known'
    BY <1>1, <2>2 DEF Known, RowsGrow
  <2>4. KnownUpTo(p.end, Ids(q.todo))'
    BY <1>1, <2>1, <2>3 DEF ScanInv, KnownUpTo, Ids, chainVars
  <2>5. FinalLogs' = FinalLogs /\ final' = final
    BY <1>1 DEF FinalLogs, Logs, chainVars
  <2>6. ScanInv(q)'
    BY <1>1, <1>2, <2>1, <2>4, <2>5 DEF ScanInv
  <2>7. KnownUpTo(watermark, {})'
    BY <1>1, <1>4, <2>3 DEF KnownUpTo, chainVars
  <2> QED BY <1>1, <1>4, <1>5, <1>6, <2>2, <2>6, <2>7, ScanStep DEF q
<1>7. CASE UNCHANGED rowVars /\ scan' = [scan EXCEPT ![i] = [pc |-> "halt", from |-> p.from, block |-> l.block]]
  <2> DEFINE q == [pc |-> "halt", from |-> p.from, block |-> l.block]
  <2>1. q.pc = "halt" /\ q.from = p.from /\ q.block = l.block
    OBVIOUS
  <2>2. KnownUpTo(l.block - 1, {})
    <3> SUFFICES ASSUME NEW w \in DOMAIN burned, burned[w] <= l.block - 1 PROVE w \in Known
      BY DEF KnownUpTo
    <3>1. burned[w] < l.block /\ w \in Nat /\ l.id \in Nat
      BY <1>3, Numbers
    <3>2. burned[w] <= p.end
      <4>1. l.block <= p.end /\ p.end \in p.from .. p.tip /\ p.from \in 1 .. p.tip /\ p.tip \in 1 .. final
        BY <1>1, <1>2 DEF ScanInv
      <4>2. p.end \in Nat
        BY <4>1, Numbers
      <4>3. l.block \in Nat /\ burned[w] \in Nat
        BY <1>3, Numbers
      <4> QED BY <3>1, <4>1, <4>2, <4>3
    <3>3. w \notin Ids(p.todo)
      <4> SUFFICES ASSUME NEW m \in p.todo, w = m.id PROVE FALSE
        BY DEF Ids
      <4>1. l.id <= w
        BY <1>2
      <4>2. burned[l.id] <= burned[w]
        BY <1>3, <4>1 DEF GnosisInv, ChainInv
      <4> QED BY <1>3, <3>1, <4>2, Numbers
    <3> QED BY <1>1, <3>2, <3>3 DEF ScanInv, KnownUpTo
  <2>3. p.from \in 1 .. final
    BY <1>1, Numbers DEF ScanInv
  <2>4. q.from \in 1 .. final /\ q.block \in 1 .. final /\ KnownUpTo(q.block - 1, {})
    BY <1>3, <2>1, <2>2, <2>3
  <2> HIDE DEF q
  <2>5. ScanInv(q)
    BY <2>1, <2>4 DEF ScanInv
  <2> QED BY <1>1, <1>7, <2>5, ScanMoves DEF q
<1> QED BY <1>6, <1>7 DEF InsertLog

LEMMA HaltCountFacts ==
  ASSUME GnosisInv, NEW block
  PROVE  HaltCount(block) \in 0 .. HaltThreshold
<1>1. halt.count \in 0 .. HaltThreshold /\ HaltThreshold \in Nat \ {0}
  BY WatcherAssumption DEF GnosisInv, TypeOK
<1> QED BY <1>1 DEF HaltCount, Least

LEMMA RecordScanHaltKeeps ==
  ASSUME GnosisInv, NEW i \in Instances, RecordScanHalt(i)
  PROVE  GnosisInv'
<1> SUFFICES ASSUME NEW p, p = scan[i] PROVE GnosisInv'
  OBVIOUS
<1> DEFINE q == [p EXCEPT !.pc = "stop"]
<1>1. /\ p.pc = "halt" /\ scan' = [scan EXCEPT ![i] = q] /\ ScanInv(p)
      /\ UNCHANGED <<deleted, chainVars, rowVars, watermark, recountVars, omitted>>
      /\ UNCHANGED <<head, final, burned, row, order>>
  BY JobOf DEF RecordScanHalt, answerVars, rowVars, chainVars
<1>2. q.pc = "stop" /\ q.from = p.from /\ q.block = p.block
  BY <1>1
<1> HIDE DEF q
<1>3. ScanInv(q)
  BY <1>1, <1>2 DEF ScanInv
<1>4. halt' \in [block : 0 .. MaxBlock, count : 0 .. HaltThreshold]
  <2>1. p.block \in 0 .. MaxBlock
    BY <1>1, Numbers DEF ScanInv
  <2> QED BY <2>1, HaltCountFacts DEF RecordScanHalt
<1>5. Known \subseteq Known' /\ RowsGrow /\ omitted \subseteq WithdrawalIds
  BY <1>1, SameRows DEF Known, Recorded, GnosisInv, TypeOK, OrderStates
<1>6. ScanInv(q)'
  BY <1>1, <1>3, <1>5, ChainAlone, ScanLater
<1>7. KnownUpTo(watermark, {})' /\ watermark \in 0 .. final
  BY <1>1, <1>5, WatermarkCovered DEF KnownUpTo
<1> QED BY <1>1, <1>4, <1>5, <1>6, <1>7, ScanStep

(* A step that moves the watermark over burns that are known. *)
LEMMA WatermarkMoves ==
  ASSUME GnosisInv, NEW i \in Instances, NEW p, scan' = [scan EXCEPT ![i] = p], ScanInv(p),
         watermark' \in 0 .. final, KnownUpTo(watermark', {}),
         UNCHANGED <<chainVars, rowVars, halt, recountVars, omitted, deleted>>
  PROVE  GnosisInv'
<1>1. UNCHANGED <<chainVars, row, order, recountVars, deleted, head, final, burned>>
  BY DEF rowVars, chainVars
<1>2. Known \subseteq Known' /\ RowsGrow /\ omitted \subseteq WithdrawalIds
  BY <1>1, SameRows DEF Known, Recorded, GnosisInv, TypeOK, OrderStates
<1>3. ScanInv(p)'
  BY <1>1, <1>2, ChainAlone, ScanLater
<1>4. KnownUpTo(watermark, {})'
  BY <1>1, <1>2 DEF KnownUpTo
<1>5. halt \in [block : 0 .. MaxBlock, count : 0 .. HaltThreshold]
  BY DEF GnosisInv, TypeOK
<1> QED BY <1>1, <1>2, <1>3, <1>4, <1>5, ScanStep

LEMMA StopScanKeeps ==
  ASSUME GnosisInv, NEW i \in Instances, StopScan(i)
  PROVE  GnosisInv'
<1> SUFFICES ASSUME NEW p, p = scan[i] PROVE GnosisInv'
  OBVIOUS
<1> DEFINE q == [pc |-> "select"]
<1>1. /\ p.pc = "stop" /\ scan' = [scan EXCEPT ![i] = q] /\ ScanInv(p) /\ q.pc = "select"
      /\ UNCHANGED <<chainVars, rowVars, halt, recountVars, omitted, deleted>>
      /\ watermark' = IF HaltAt(p.block) >= p.from THEN HaltAt(p.block) ELSE watermark
  BY JobOf DEF StopScan, answerVars
<1> HIDE DEF q
<1>2. ScanInv(q)
  BY <1>1, RestingScan
<1>3. watermark \in 0 .. final /\ KnownUpTo(watermark, {})
  BY WatermarkCovered
<1>4. p.block \in 1 .. final /\ KnownUpTo(HaltAt(p.block), {}) /\ HaltAt(p.block) \in 0 .. final
  BY <1>1, Numbers DEF ScanInv, HaltAt
<1>5. watermark' \in 0 .. final /\ KnownUpTo(watermark', {})
  BY <1>1, <1>3, <1>4
<1> QED BY <1>1, <1>2, <1>5, WatermarkMoves

LEMMA AdvanceWatermarkKeeps ==
  ASSUME GnosisInv, NEW i \in Instances, AdvanceWatermark(i)
  PROVE  GnosisInv'
<1> SUFFICES ASSUME NEW p, p = scan[i] PROVE GnosisInv'
  OBVIOUS
<1> DEFINE read == [pc |-> "read", from |-> p.from, start |-> p.end + 1, tip |-> p.tip]
           clear == [pc |-> "clear"]
<1>1. /\ p.pc = "logs" /\ p.todo = {} /\ ScanInv(p) /\ watermark' = p.end
      /\ scan' = [scan EXCEPT ![i] = IF p.end < p.tip THEN read ELSE clear]
      /\ UNCHANGED <<chainVars, rowVars, halt, recountVars, omitted, deleted>>
  BY JobOf DEF AdvanceWatermark, answerVars
<1>2. /\ p.from \in 1 .. p.tip /\ p.tip \in 1 .. final /\ p.end \in p.from .. p.tip
      /\ KnownUpTo(p.end, {})
  BY <1>1 DEF ScanInv, Ids
<1>3. /\ read.pc = "read" /\ read.from = p.from /\ read.start = p.end + 1 /\ read.tip = p.tip
      /\ clear.pc = "clear"
  OBVIOUS
<1> HIDE DEF read, clear
<1>4. p.end \in 0 .. final /\ p.end + 1 - 1 = p.end
  BY <1>2, Numbers
<1>5. CASE p.end < p.tip
  <2>1. read.start \in read.from .. read.tip
    <3>1. {p.from, p.end, p.tip} \subseteq Nat /\ p.from <= p.end
      BY <1>2, Numbers
    <3>2. p.end + 1 \in p.from .. p.tip
      BY <1>5, <3>1
    <3> QED BY <1>3, <3>2
  <2>2. ScanInv(read)
    <3>1. read.from \in 1 .. read.tip /\ read.tip \in 1 .. final /\ KnownUpTo(read.start - 1, {})
      <4>1. read.start - 1 = p.end
        BY <1>2, <1>3, <1>4
      <4> QED BY <1>2, <1>3, <4>1
    <3> QED BY <1>3, <2>1, <3>1 DEF ScanInv
  <2> QED BY <1>1, <1>2, <1>4, <1>5, <2>2, WatermarkMoves
<1>6. CASE ~(p.end < p.tip)
  <2>1. ScanInv(clear)
    BY <1>3, RestingScan
  <2> QED BY <1>1, <1>2, <1>4, <1>6, <2>1, WatermarkMoves
<1> QED BY <1>5, <1>6

LEMMA ClearScanHaltKeeps ==
  ASSUME GnosisInv, NEW i \in Instances, ClearScanHalt(i)
  PROVE  GnosisInv'
<1> DEFINE q == [pc |-> "select"]
<1>1. /\ scan' = [scan EXCEPT ![i] = q] /\ q.pc = "select"
      /\ UNCHANGED <<deleted, chainVars, row, order, watermark, recountVars, omitted>>
      /\ UNCHANGED <<head, final, burned>>
  BY DEF ClearScanHalt, answerVars, rowVars, chainVars
<1> HIDE DEF q
<1>2. ScanInv(q)
  BY <1>1, RestingScan
<1>3. halt' \in [block : 0 .. MaxBlock, count : 0 .. HaltThreshold]
  BY WatcherAssumption DEF ClearScanHalt, NoHalt
<1>4. Known \subseteq Known' /\ RowsGrow /\ omitted \subseteq WithdrawalIds
  BY <1>1, SameRows DEF Known, Recorded, GnosisInv, TypeOK, OrderStates
<1>5. ScanInv(q)'
  BY <1>1, <1>2, <1>4, ChainAlone, ScanLater
<1>6. KnownUpTo(watermark, {})' /\ watermark \in 0 .. final
  BY <1>1, <1>4, WatermarkCovered DEF KnownUpTo
<1> QED BY <1>1, <1>3, <1>4, <1>5, <1>6, ScanStep

(* The burns that a poll is to queue. *)
LEMMA NextBurnKeeps ==
  ASSUME NEW left \in SUBSET WithdrawalIds
  PROVE  ScanInv(NextBurn(left))
BY DEF NextBurn, Idle, ScanInv

LEMMA SelectBurnsKeeps ==
  ASSUME GnosisInv, NEW i \in Instances, SelectBurns(i)
  PROVE  GnosisInv'
<1>1. PICK left \in SUBSET WithdrawalIds : scan' = [scan EXCEPT ![i] = NextBurn(left)]
  BY DEF SelectBurns
<1>2. UNCHANGED <<chainVars, rowVars, watermark, halt, recountVars, omitted, deleted>>
  BY DEF SelectBurns, answerVars
<1>3. ScanInv(NextBurn(left))
  BY NextBurnKeeps
<1> QED BY <1>1, <1>2, <1>3, ScanMoves

(* A step of a scan that moves an order. *)
LEMMA OrderMoves ==
  ASSUME GnosisInv, NEW i \in Instances, NEW p, scan' = [scan EXCEPT ![i] = p], ScanInv(p),
         NEW w \in WithdrawalIds, NEW from, NEW to, from # "NONE", to \in OrderStates \ {"NONE"},
         Transition(w, from, to),
         UNCHANGED <<chainVars, row, watermark, halt, recountVars, omitted, deleted>>
  PROVE  GnosisInv'
<1>1. UNCHANGED <<head, final, burned>>
  BY DEF chainVars
<1>2. order \in [WithdrawalIds -> OrderStates] /\ omitted \subseteq WithdrawalIds
  BY DEF GnosisInv, TypeOK, OrderStates
<1>3. /\ order' \in [WithdrawalIds -> OrderStates]
      /\ \A v \in WithdrawalIds : order'[v] = "NONE" <=> order[v] = "NONE"
  <2>1. CASE order[w] = from
    <3>1. order' = [order EXCEPT ![w] = to]
      BY <2>1 DEF Transition
    <3> QED BY <1>2, <2>1, <3>1
  <2>2. CASE order[w] # from
    BY <1>2, <2>2 DEF Transition
  <2> QED BY <2>1, <2>2
<1>4. Known \subseteq Known' /\ RowsGrow
  BY <1>3, SameRows DEF Known, Recorded
<1>5. ScanInv(p)'
  BY <1>4, ChainAlone, ScanLater
<1>6. KnownUpTo(watermark, {})' /\ watermark \in 0 .. final
  BY <1>1, <1>4, WatermarkCovered DEF KnownUpTo
<1>7. halt \in [block : 0 .. MaxBlock, count : 0 .. HaltThreshold]
  BY DEF GnosisInv, TypeOK
<1> QED BY <1>2, <1>4, <1>5, <1>6, <1>7, ScanStep

LEMMA ConfirmBurnKeeps ==
  ASSUME GnosisInv, NEW i \in Instances, ConfirmBurn(i)
  PROVE  GnosisInv'
<1> SUFFICES ASSUME NEW p, p = scan[i] PROVE GnosisInv'
  OBVIOUS
<1>1. p.pc = "confirm" /\ p.burns \subseteq WithdrawalIds
  BY JobOf DEF ConfirmBurn, ScanInv
<1>2. PICK w \in p.burns :
        /\ Transition(w, "BURN_TX_SEEN", "BURN_CONFIRMED")
        /\ scan' = [scan EXCEPT ![i] = [pc |-> "queue", burn |-> w, burns |-> p.burns \ {w}]]
  BY DEF ConfirmBurn
<1>3. UNCHANGED <<chainVars, row, watermark, halt, recountVars, omitted, deleted>>
  BY DEF ConfirmBurn, answerVars
<1>4. w \in WithdrawalIds /\ "BURN_CONFIRMED" \in OrderStates \ {"NONE"}
  BY <1>1 DEF OrderStates
<1> DEFINE q == [pc |-> "queue", burn |-> w, burns |-> p.burns \ {w}]
<1>5. ScanInv(q)
  BY <1>1 DEF ScanInv
<1> HIDE DEF q
<1>6. scan' = [scan EXCEPT ![i] = q]
  BY <1>2 DEF q
<1> QED BY <1>2, <1>3, <1>4, <1>5, <1>6, OrderMoves

LEMMA QueuePayoutKeeps ==
  ASSUME GnosisInv, NEW i \in Instances, QueuePayout(i)
  PROVE  GnosisInv'
<1> SUFFICES ASSUME NEW p, p = scan[i] PROVE GnosisInv'
  OBVIOUS
<1>1. p.burns \subseteq WithdrawalIds /\ p.burn \in WithdrawalIds
  BY JobOf DEF QueuePayout, ScanInv
<1>2. /\ Transition(p.burn, "BURN_CONFIRMED", "PAYOUT_QUEUED")
      /\ scan' = [scan EXCEPT ![i] = NextBurn(p.burns)]
      /\ UNCHANGED <<chainVars, row, watermark, halt, recountVars, omitted, deleted>>
  BY DEF QueuePayout, answerVars
<1>3. ScanInv(NextBurn(p.burns)) /\ "PAYOUT_QUEUED" \in OrderStates \ {"NONE"}
  BY <1>1, NextBurnKeeps DEF OrderStates
<1> QED BY <1>1, <1>2, <1>3, OrderMoves

LEMMA ScanFailsKeeps ==
  ASSUME GnosisInv, NEW i \in Instances, ScanFails(i)
  PROVE  GnosisInv'
<1> SUFFICES ASSUME NEW p, p = scan[i] PROVE GnosisInv'
  OBVIOUS
<1>1. UNCHANGED <<chainVars, rowVars, watermark, halt, recountVars, omitted, deleted>>
  BY DEF ScanFails, answerVars
<1>2. p.pc \in {"confirm", "queue"} => p.burns \subseteq WithdrawalIds
  BY JobOf DEF ScanInv
<1>3. CASE scan' = [scan EXCEPT ![i] = Idle]
  <2>1. ScanInv(Idle)
    BY RestingScan DEF Idle
  <2> QED BY <1>1, <1>3, <2>1, ScanMoves
<1>4. ASSUME NEW left \in SUBSET WithdrawalIds, scan' = [scan EXCEPT ![i] = NextBurn(left)]
      PROVE  GnosisInv'
  BY <1>1, <1>4, NextBurnKeeps, ScanMoves
<1>5. \/ scan' = [scan EXCEPT ![i] = Idle]
      \/ \E left \in SUBSET WithdrawalIds : scan' = [scan EXCEPT ![i] = NextBurn(left)]
  <2>1. CASE p.pc = "confirm"
    <3>1. PICK w \in p.burns : scan' = [scan EXCEPT ![i] = NextBurn(p.burns \ {w})]
      BY <2>1 DEF ScanFails
    <3> QED BY <1>2, <2>1, <3>1
  <2>2. CASE p.pc = "queue"
    BY <1>2, <2>2 DEF ScanFails
  <2>3. CASE p.pc \notin {"confirm", "queue"}
    BY <2>3 DEF ScanFails
  <2> QED BY <2>1, <2>2, <2>3
<1> QED BY <1>3, <1>4, <1>5

-------------------------------------------------------------------------------
(* The recount.                                                            *)

LEMMA RecountStep ==
  ASSUME GnosisInv, NEW i \in Instances, NEW r, NEW at \in 1 .. MaxBlock + 1,
         recount' = [recount EXCEPT ![i] = r], cursor' = [cursor EXCEPT ![i] = at],
         UNCHANGED <<deleted, chainVars, scanVars>>, RowsGrow,
         omitted \subseteq omitted', {omitted', recounted', alerted'} \subseteq SUBSET WithdrawalIds,
         RecountInv(r, at)
  PROVE  GnosisInv'
<1>1. UNCHANGED <<chainVars, scan, watermark, halt, head, final, burned>>
  BY DEF scanVars, chainVars
<1>2. Known \subseteq Known'
  BY DEF Known, RowsGrow
<1>3. Later /\ ChainInv' /\ RecordedIsOnChain'
  BY <1>1, <1>2, ChainAlone DEF RowsGrow
<1>4. Others(i, scan) /\ Others(i, recount) /\ Others(i, cursor) /\ recount'[i] = r /\ cursor'[i] = at
  BY <1>1 DEF Others, GnosisInv, TypeOK
<1>5. TypeOK'
  <2>1. cursor' \in [Instances -> 1 .. MaxBlock + 1]
    BY DEF GnosisInv, TypeOK
  <2> QED BY <1>1, <2>1 DEF GnosisInv, TypeOK, RowsGrow, OrderStates
<1>6. watermark' <= final' /\ KnownUpTo(watermark, {})'
  BY <1>1, <1>2, WatermarkCovered, Numbers DEF KnownUpTo
<1>7. ScanInv(scan[i])'
  <2>1. ASSUME NEW p, p = scan[i] PROVE ScanInv(p)'
    BY <1>3, <2>1, JobOf, ScanLater
  <2> QED BY <1>1, <2>1
<1>8. RecountInv(recount[i], cursor[i])'
  <2>1. at \in Nat
    BY Numbers
  <2>2. RecountInv(r, at)'
    BY <1>3, <2>1, RecountLater
  <2> QED BY <1>4, <2>2
<1> QED BY <1>3, <1>4, <1>5, <1>6, <1>7, <1>8, Assemble

(* ... that writes nothing to the database. *)
LEMMA RecountMoves ==
  ASSUME GnosisInv, NEW i \in Instances, NEW r, NEW at \in 1 .. MaxBlock + 1,
         recount' = [recount EXCEPT ![i] = r], cursor' = [cursor EXCEPT ![i] = at],
         UNCHANGED <<deleted, chainVars, scanVars, rowVars, recounted>>,
         omitted \subseteq omitted', {omitted', alerted'} \subseteq SUBSET WithdrawalIds,
         RecountInv(r, at)
  PROVE  GnosisInv'
<1>1. RowsGrow /\ recounted' \in SUBSET WithdrawalIds
  <2>1. row' = row /\ order' = order /\ recounted' = recounted
    BY DEF rowVars
  <2> QED BY <2>1, SameRows DEF GnosisInv, TypeOK, OrderStates
<1> QED BY <1>1, RecountStep

LEMMA CursorAlone ==
  ASSUME GnosisInv, NEW i \in Instances, UNCHANGED cursor
  PROVE  cursor' = [cursor EXCEPT ![i] = cursor[i]] /\ cursor[i] \in 1 .. MaxBlock + 1
BY DEF GnosisInv, TypeOK

LEMMA RecountEnds ==
  ASSUME NEW at
  PROVE  RecountInv(Idle, at)
<1>1. Idle.pc = "idle"
  BY DEF Idle
<1> QED BY <1>1 DEF RecountInv

LEMMA BeginRecountKeeps ==
  ASSUME GnosisInv, NEW i \in Instances, BeginRecount(i)
  PROVE  GnosisInv'
<1> SUFFICES ASSUME NEW at, at = cursor[i], NEW end, end = Least(watermark, SafeTip)
             PROVE  GnosisInv'
  OBVIOUS
<1> DEFINE r == [pc |-> "read", end |-> end, missing |-> {}]
<1>1. /\ recount' = [recount EXCEPT ![i] = r] /\ at <= end /\ UNCHANGED cursor
      /\ UNCHANGED <<deleted, chainVars, scanVars, rowVars, recounted, alerted, omitted>>
  BY DEF BeginRecount, answerVars
<1>2. r.pc = "read" /\ r.end = end /\ r.missing = {}
  OBVIOUS
<1> HIDE DEF r
<1>3. cursor' = [cursor EXCEPT ![i] = at] /\ at \in 1 .. MaxBlock + 1
  BY <1>1, CursorAlone
<1>4. end \in at .. final
  <2>1. end \in Int /\ end <= final
    BY Numbers DEF Least
  <2> QED BY <1>1, <1>3, <2>1, Numbers
<1>5. RecountInv(r, at)
  BY <1>2, <1>4 DEF RecountInv
<1>6. {omitted, alerted} \subseteq SUBSET WithdrawalIds
  BY DEF GnosisInv, TypeOK
<1> QED BY <1>1, <1>3, <1>5, <1>6, RecountMoves

LEMMA RecountReadKeeps ==
  ASSUME GnosisInv, NEW i \in Instances, RecountRead(i)
  PROVE  GnosisInv'
<1> SUFFICES ASSUME NEW at, at = cursor[i], NEW q, q = recount[i], NEW to, to = ChunkEnd(i)
             PROVE  GnosisInv'
  OBVIOUS
<1>1. /\ q.pc = "read" /\ UNCHANGED cursor /\ RecountInv(q, at)
      /\ UNCHANGED <<deleted, chainVars, scanVars, rowVars, recounted, alerted>>
  BY JobOf DEF RecountRead
<1>2. PICK logs \in SUBSET Logs(at, to) :
        /\ Answer(Logs(at, to), logs)
        /\ recount' = [recount EXCEPT ![i] =
             [pc |-> "missing", end |-> q.end, to |-> to, missing |-> q.missing,
              todo |-> {l \in logs : row[l.id] = 0}]]
  BY DEF RecountRead
<1> DEFINE r == [pc |-> "missing", end |-> q.end, to |-> to, missing |-> q.missing,
                 todo |-> {l \in logs : row[l.id] = 0}]
<1>3. cursor' = [cursor EXCEPT ![i] = at] /\ at \in 1 .. MaxBlock + 1
  BY <1>1, CursorAlone
<1>4. q.end \in at .. final /\ q.missing \subseteq WithdrawalIds
  BY <1>1 DEF RecountInv
<1>5. at \in Nat \ {0} /\ q.end \in Nat /\ at <= q.end /\ q.end <= final
  BY <1>3, <1>4, Numbers
<1>6. to \in at .. q.end /\ to \in Nat /\ to <= final
  <2>1. to = Least(at + Chunk - 1, q.end)
    BY DEF ChunkEnd
  <2>2. to \in Nat /\ at <= to /\ to <= q.end
    BY <1>5, <2>1, ChunkFacts
  <2> QED BY <1>5, <2>2, Numbers
<1>7. omitted \subseteq omitted' /\ omitted' \subseteq WithdrawalIds /\ logs \subseteq FinalLogs
  BY <1>2, <1>5, <1>6, OmittedAreBurns
<1>8. RecountInv(r, at)
  <2>1. r.pc = "missing" /\ r.end = q.end /\ r.to = to /\ r.missing = q.missing /\ r.todo \subseteq logs
    OBVIOUS
  <2> HIDE DEF r
  <2> QED BY <1>4, <1>6, <1>7, <2>1 DEF RecountInv
<1> HIDE DEF r
<1>9. recount' = [recount EXCEPT ![i] = r]
  BY <1>2 DEF r
<1>10. {omitted', alerted'} \subseteq SUBSET WithdrawalIds
  BY <1>1, <1>7 DEF GnosisInv, TypeOK
<1> QED BY <1>1, <1>3, <1>7, <1>8, <1>9, <1>10, RecountMoves

LEMMA RecountCheckKeeps ==
  ASSUME GnosisInv, NEW i \in Instances, RecountCheck(i)
  PROVE  GnosisInv'
<1> SUFFICES ASSUME NEW at, at = cursor[i], NEW q, q = recount[i], NEW l, l = FirstOf(q.todo)
             PROVE  GnosisInv'
  OBVIOUS
<1> DEFINE p == [q EXCEPT !.missing = q.missing \cup {l.id}]
           insert == [p EXCEPT !.pc = "insert"]
           done == Handled(p, "missing", l)
<1>1. /\ q.pc = "missing" /\ q.todo # {} /\ UNCHANGED cursor /\ RecountInv(q, at)
      /\ recount' = [recount EXCEPT ![i] = IF row[l.id] = 0 THEN insert ELSE done]
      /\ UNCHANGED <<deleted, chainVars, scanVars, rowVars, recounted, alerted, omitted>>
  BY JobOf DEF RecountCheck, answerVars
<1>2. cursor' = [cursor EXCEPT ![i] = at] /\ at \in 1 .. MaxBlock + 1
  BY <1>1, CursorAlone
<1>3. l \in q.todo /\ l.id \in WithdrawalIds
  <2>1. q.todo \in SUBSET FinalLogs
    BY <1>1 DEF RecountInv
  <2> QED BY <1>1, <2>1, FirstIsLeast, LogFacts
<1>4. {omitted, alerted} \subseteq SUBSET WithdrawalIds
  BY DEF GnosisInv, TypeOK
<1>5. /\ insert.pc = "insert" /\ insert.end = q.end /\ insert.to = q.to /\ insert.todo = q.todo
      /\ insert.missing = q.missing \cup {l.id}
  BY <1>1
<1>6. /\ done.pc = "missing" /\ done.end = q.end /\ done.to = q.to /\ done.todo = q.todo \ {l}
      /\ done.missing = q.missing \cup {l.id}
  BY <1>1 DEF Handled
<1> HIDE DEF insert, done
<1>7. RecountInv(insert, at) /\ RecountInv(done, at)
  BY <1>1, <1>3, <1>5, <1>6 DEF RecountInv
<1> QED BY <1>1, <1>2, <1>4, <1>7, RecountMoves

LEMMA RecountInsertKeeps ==
  ASSUME GnosisInv, NEW i \in Instances, RecountInsert(i)
  PROVE  GnosisInv'
<1> SUFFICES ASSUME NEW at, at = cursor[i], NEW q, q = recount[i], NEW l, l = FirstOf(q.todo)
             PROVE  GnosisInv'
  OBVIOUS
<1> DEFINE r == Handled(q, "missing", l)
<1>1. /\ q.pc = "insert" /\ q.todo # {} /\ UNCHANGED cursor /\ RecountInv(q, at)
      /\ UNCHANGED <<deleted, chainVars, scanVars, alerted, omitted>>
  BY JobOf DEF RecountInsert, answerVars, RecountInv
<1>2. cursor' = [cursor EXCEPT ![i] = at] /\ at \in 1 .. MaxBlock + 1
  BY <1>1, CursorAlone
<1>3. l \in q.todo /\ l \in FinalLogs /\ l.id \in WithdrawalIds
  <2>1. q.todo \in SUBSET FinalLogs
    BY <1>1 DEF RecountInv
  <2> QED BY <1>1, <2>1, FirstIsLeast, LogFacts
<1>4. {omitted, alerted, recounted} \subseteq SUBSET WithdrawalIds
  BY DEF GnosisInv, TypeOK
<1>5. CASE /\ CanInsert(l) /\ InsertRow(l) /\ recounted' = recounted \cup {l.id}
           /\ recount' = [recount EXCEPT ![i] = r]
  <2>1. RowsGrow
    BY <1>1, <1>3, <1>5, NewRow
  <2>2. /\ r.pc = "missing" /\ r.end = q.end /\ r.to = q.to /\ r.todo = q.todo \ {l}
        /\ r.missing = q.missing
    BY <1>1 DEF Handled
  <2> HIDE DEF r
  <2>3. RecountInv(r, at)
    BY <1>1, <2>2 DEF RecountInv
  <2>4. {omitted', recounted', alerted'} \subseteq SUBSET WithdrawalIds
    BY <1>1, <1>3, <1>4, <1>5
  <2> QED BY <1>1, <1>2, <1>5, <2>1, <2>3, <2>4, RecountStep
<1>6. CASE recount' = [recount EXCEPT ![i] = Idle] /\ UNCHANGED <<rowVars, recounted>>
  BY <1>1, <1>2, <1>4, <1>6, RecountEnds, RecountMoves
<1> QED BY <1>5, <1>6 DEF RecountInsert

LEMMA RecountNextKeeps ==
  ASSUME GnosisInv, NEW i \in Instances, RecountNext(i)
  PROVE  GnosisInv'
<1> SUFFICES ASSUME NEW q, q = recount[i], NEW next, next = AfterChunk(q)
             PROVE  GnosisInv'
  OBVIOUS
<1> DEFINE read == [pc |-> "read", end |-> q.end, missing |-> q.missing]
           alert == [pc |-> "alert", missing |-> q.missing]
<1>1. /\ q.pc = "missing" /\ cursor' = [cursor EXCEPT ![i] = next]
      /\ recount' = [recount EXCEPT ![i] =
           IF q.to < q.end THEN read ELSE IF q.missing # {} THEN alert ELSE Idle]
      /\ UNCHANGED <<deleted, chainVars, scanVars, rowVars, recounted, alerted, omitted>>
  BY DEF RecountNext, answerVars
<1>2. /\ cursor[i] \in 1 .. MaxBlock + 1 /\ q.end \in cursor[i] .. final /\ q.to \in cursor[i] .. q.end
      /\ q.missing \subseteq WithdrawalIds
  BY <1>1, JobOf DEF RecountInv
<1>3. next \in 1 .. MaxBlock + 1 /\ (q.to < q.end => q.end \in next .. final)
  <2>1. next = q.to + 1
    BY DEF AfterChunk
  <2>2. /\ {q.to, q.end, cursor[i], final, MaxBlock} \subseteq Nat /\ 1 <= cursor[i]
        /\ cursor[i] <= q.to /\ q.to <= q.end /\ q.end <= final /\ final <= MaxBlock
    BY <1>2, Numbers
  <2> QED BY <2>1, <2>2
<1>4. /\ read.pc = "read" /\ read.end = q.end /\ read.missing = q.missing
      /\ alert.pc = "alert" /\ alert.missing = q.missing
  OBVIOUS
<1> HIDE DEF read, alert
<1>5. {omitted, alerted} \subseteq SUBSET WithdrawalIds
  BY DEF GnosisInv, TypeOK
<1>6. RecountInv(alert, next) /\ RecountInv(Idle, next)
  BY <1>2, <1>4, RecountEnds DEF RecountInv
<1>7. q.to < q.end => RecountInv(read, next)
  BY <1>2, <1>3, <1>4 DEF RecountInv
<1> QED BY <1>1, <1>3, <1>5, <1>6, <1>7, RecountMoves

LEMMA RecountStops ==
  ASSUME GnosisInv, NEW i \in Instances, RecountAlert(i) \/ RecountFails(i)
  PROVE  GnosisInv'
<1>1. /\ recount' = [recount EXCEPT ![i] = Idle] /\ UNCHANGED cursor
      /\ UNCHANGED <<deleted, chainVars, scanVars, rowVars, recounted, omitted>>
  BY DEF RecountAlert, RecountFails, answerVars
<1>2. {omitted, alerted} \subseteq SUBSET WithdrawalIds
  BY DEF GnosisInv, TypeOK
<1>3. alerted' \subseteq WithdrawalIds
  <2>1. CASE RecountAlert(i)
    BY <1>2, <2>1, JobOf DEF RecountAlert, RecountInv
  <2>2. CASE RecountFails(i)
    BY <1>2, <2>2 DEF RecountFails
  <2> QED BY <2>1, <2>2
<1> QED BY <1>1, <1>2, <1>3, CursorAlone, RecountEnds, RecountMoves

-------------------------------------------------------------------------------
(* The chain, other writers and restarts.                                  *)

LEMMA RestartKeeps ==
  ASSUME GnosisInv, NEW i \in Instances, Restart(i)
  PROVE  GnosisInv'
<1>1. /\ scan' = [scan EXCEPT ![i] = Idle] /\ recount' = [recount EXCEPT ![i] = Idle]
      /\ cursor' = [cursor EXCEPT ![i] = 1]
      /\ UNCHANGED <<chainVars, rowVars, row, order, watermark, halt, deleted, omitted, recounted, alerted>>
      /\ UNCHANGED <<head, final, burned>>
  BY DEF Restart, answerVars, chainVars, rowVars
<1>2. Known \subseteq Known' /\ RecordedIsOnChain'
  BY <1>1 DEF Known, Recorded, GnosisInv, RecordedIsOnChain
<1>3. Later /\ ChainInv'
  BY <1>1, <1>2, ChainAlone
<1>4. Others(i, scan) /\ Others(i, recount) /\ Others(i, cursor)
  BY <1>1 DEF Others, GnosisInv, TypeOK
<1>5. scan'[i] = Idle /\ recount'[i] = Idle /\ cursor'[i] = 1 /\ 1 \in 1 .. MaxBlock + 1
  <2>1. scan'[i] = Idle /\ recount'[i] = Idle
    BY <1>1 DEF GnosisInv
  <2>2. cursor'[i] = 1
    BY <1>1 DEF GnosisInv, TypeOK
  <2> QED BY <2>1, <2>2, Numbers
<1>6. TypeOK'
  <2>1. cursor' \in [Instances -> 1 .. MaxBlock + 1]
    BY <1>1, <1>5 DEF GnosisInv, TypeOK
  <2> QED BY <1>1, <2>1 DEF GnosisInv, TypeOK
<1>7. watermark' <= final' /\ KnownUpTo(watermark, {})'
  BY <1>1, <1>2, WatermarkCovered, Numbers DEF KnownUpTo
<1>8. ScanInv(scan[i])' /\ RecountInv(recount[i], cursor[i])'
  <2>1. ScanInv(Idle) /\ RecountInv(Idle, 1)
    BY RestingScan, RecountEnds DEF Idle
  <2>2. ScanInv(Idle)' /\ RecountInv(Idle, 1)'
    BY <1>3, <2>1, ScanLater, RecountLater
  <2> QED BY <1>5, <2>2
<1> QED BY <1>2, <1>3, <1>4, <1>6, <1>7, <1>8, Assemble

(* A step of nobody's. *)
LEMMA WorldMoves ==
  ASSUME GnosisInv, Later, TypeOK', ChainInv', RecordedIsOnChain', KnownUpTo(watermark, {})',
         watermark' <= final', UNCHANGED <<scan, recount, cursor>>
  PROVE  GnosisInv'
<1>1. {DOMAIN scan', DOMAIN recount'} = {Instances}
  BY DEF GnosisInv
<1>2. ASSUME NEW j \in Instances PROVE ScanInv(scan[j])' /\ RecountInv(recount[j], cursor[j])'
  <2>1. ASSUME NEW p, NEW q, NEW at, p = scan[j], q = recount[j], at = cursor[j]
        PROVE  ScanInv(p)' /\ RecountInv(q, at)'
    <3>1. at \in Nat /\ ScanInv(p) /\ RecountInv(q, at)
      BY <2>1, JobOf, WatcherAssumption
    <3> QED BY <3>1, ScanLater, RecountLater
  <2> QED BY <2>1
<1> QED BY <1>1, <1>2 DEF GnosisInv

LEMMA MoveWatermarkKeeps ==
  ASSUME GnosisInv, MoveWatermark
  PROVE  GnosisInv'
<1>1. UNCHANGED <<chainVars, row, order, halt, scan, recount, cursor, recounted, alerted, deleted,
                  head, final, burned>>
  BY DEF MoveWatermark, chainVars, rowVars, recountVars
<1>2. PICK to \in 0 .. SafeTip :
        /\ watermark' = to
        /\ omitted' = omitted \cup {w \in DOMAIN burned : burned[w] \in watermark + 1 .. to}
  BY DEF MoveWatermark
<1>3. to \in Nat /\ to <= final /\ to \in 0 .. MaxBlock
  BY Numbers
<1>4. omitted \subseteq omitted' /\ omitted' \subseteq WithdrawalIds
  BY <1>2, Numbers DEF GnosisInv, TypeOK
<1>5. Known \subseteq Known' /\ RecordedIsOnChain'
  BY <1>1, <1>4 DEF Known, Recorded, GnosisInv, RecordedIsOnChain
<1>6. Later /\ ChainInv'
  BY <1>1, <1>5, ChainAlone
<1>7. TypeOK'
  BY <1>1, <1>2, <1>3, <1>4 DEF GnosisInv, TypeOK
<1>8. KnownUpTo(watermark, {})'
  <2> SUFFICES ASSUME NEW w \in DOMAIN burned', burned'[w] <= watermark' PROVE w \in Known'
    BY DEF KnownUpTo
  <2>1. w \in DOMAIN burned /\ burned[w] \in Nat /\ burned[w] <= to
    BY <1>1, <1>2, Numbers
  <2>2. CASE burned[w] <= watermark
    BY <1>5, <2>1, <2>2, WatermarkCovered DEF KnownUpTo
  <2>3. CASE ~(burned[w] <= watermark)
    <3>1. burned[w] \in watermark + 1 .. to
      BY <1>3, <2>1, <2>3, Numbers
    <3> QED BY <1>2, <2>1, <3>1 DEF Known
  <2> QED BY <2>2, <2>3
<1>9. watermark' <= final'
  BY <1>1, <1>2, <1>3
<1> QED BY <1>1, <1>5, <1>6, <1>7, <1>8, <1>9, WorldMoves

LEMMA DeleteRowKeeps ==
  ASSUME GnosisInv, DeleteRow
  PROVE  GnosisInv'
<1>1. UNCHANGED <<chainVars, watermark, halt, scan, recount, cursor, recounted, alerted, omitted,
                  head, final, burned>>
  BY DEF DeleteRow, chainVars, scanVars, recountVars, answerVars
<1>2. PICK w \in Recorded \ deleted :
        /\ deleted' = deleted \cup {w}
        /\ row' = [row EXCEPT ![w] = 0]
        /\ order' = [order EXCEPT ![w] = "NONE"]
  BY DEF DeleteRow
<1>3. /\ row \in [WithdrawalIds -> 0 .. MaxBlock] /\ order \in [WithdrawalIds -> OrderStates]
      /\ \A v \in WithdrawalIds : order[v] = "NONE" <=> row[v] = 0
      /\ RecordedIsOnChain /\ w \in WithdrawalIds
  BY <1>2 DEF GnosisInv, TypeOK, OrderStates, Recorded
<1>4. /\ row' \in [WithdrawalIds -> 0 .. MaxBlock] /\ order' \in [WithdrawalIds -> OrderStates]
      /\ \A v \in WithdrawalIds : order'[v] = "NONE" <=> row'[v] = 0
  BY <1>2, <1>3, Numbers DEF OrderStates
<1>5. Recorded' = Recorded \ {w}
  BY <1>2, <1>3 DEF Recorded
<1>6. RecordedIsOnChain'
  BY <1>1, <1>2, <1>3, <1>5 DEF RecordedIsOnChain, Recorded
<1>7. Known \subseteq Known'
  BY <1>1, <1>2, <1>5 DEF Known
<1>8. Later /\ ChainInv'
  BY <1>1, <1>7, ChainAlone
<1>9. TypeOK'
  BY <1>1, <1>2, <1>3, <1>4 DEF GnosisInv, TypeOK, OrderStates
<1>10. KnownUpTo(watermark, {})' /\ watermark' <= final'
  BY <1>1, <1>7, WatermarkCovered, Numbers DEF KnownUpTo
<1> QED BY <1>1, <1>6, <1>8, <1>9, <1>10, WorldMoves

(* A step of the chain leaves the database alone, and the processes. *)
LEMMA ChainMoves ==
  ASSUME GnosisInv, Later, head' \in 0 .. MaxBlock, final' \in 0 .. head',
         burned' \in Seq(1 .. head'), Len(burned') <= MaxBurns, ChainInv',
         UNCHANGED <<deleted, rowVars, scanVars, recountVars, answerVars>>
  PROVE  GnosisInv'
<1>1. UNCHANGED <<row, order, watermark, halt, scan, recount, cursor, recounted, alerted, deleted, omitted>>
  BY DEF rowVars, scanVars, recountVars, answerVars
<1>2. TypeOK'
  BY <1>1 DEF GnosisInv, TypeOK
<1>3. RecordedIsOnChain'
  <2> SUFFICES ASSUME NEW w \in Recorded
               PROVE  w \in DOMAIN burned' /\ burned'[w] = row[w] /\ row[w] <= final'
    BY <1>1 DEF RecordedIsOnChain, Recorded
  <2>1. w \in DOMAIN burned /\ burned[w] = row[w] /\ row[w] <= final
    BY DEF GnosisInv, RecordedIsOnChain
  <2>2. burned'[w] = burned[w] /\ w \in DOMAIN burned'
    BY <2>1 DEF Later
  <2>3. row[w] \in Nat /\ final \in Nat
    <3>1. burned[w] \in 1 .. head /\ head \in Nat /\ final \in Nat
      BY <2>1, Numbers
    <3> QED BY <2>1, <3>1
  <2>4. final' \in Nat /\ final <= final'
    BY DEF Later
  <2> QED BY <2>1, <2>2, <2>3, <2>4
<1>4. KnownUpTo(watermark, {})' /\ watermark' <= final'
  <2>1. ASSUME NEW b, b = watermark PROVE KnownUpTo(b, {})'
    BY <2>1, Numbers, WatermarkCovered, KnownStays
  <2> QED BY <1>1, <2>1, Numbers DEF Later
<1> QED BY <1>1, <1>2, <1>3, <1>4, WorldMoves

LEMMA GrowKeeps ==
  ASSUME GnosisInv, Grow
  PROVE  GnosisInv'
<1>1. /\ head < MaxBlock /\ head' = head + 1 /\ final' = Greatest(final, head' - Depth)
      /\ UNCHANGED <<deleted, rowVars, scanVars, recountVars, answerVars>>
  BY DEF Grow, MineBlock
<1>2. PICK n \in 0 .. MaxBurns - Len(burned) : burned' = burned \o [k \in 1 .. n |-> head']
  BY DEF Grow, MineBlock
<1> DEFINE new == [k \in 1 .. n |-> head']
           m == Len(burned)
<1>3. head \in Nat /\ head' \in Nat /\ head < head' /\ head' <= MaxBlock /\ m \in Nat /\ n \in Nat
  BY <1>1, <1>2, Numbers
<1>4. /\ final' \in Nat /\ final <= final' /\ final' <= head' /\ head' - Depth <= final'
      /\ final < head'
  BY <1>1, Numbers DEF Greatest
<1>5. new \in Seq(1 .. head') /\ Len(new) = n /\ \A k \in 1 .. n : new[k] = head'
  BY <1>3
<1>6. burned \in Seq(1 .. head') /\ DOMAIN burned = 1 .. m
  <2>1. burned \in Seq(1 .. head) /\ 1 .. head \subseteq 1 .. head'
    BY <1>3, Numbers
  <2> QED BY <2>1, SeqMonotonic, Numbers
<1> HIDE DEF new
<1>7. /\ burned' \in Seq(1 .. head') /\ Len(burned') = m + n /\ DOMAIN burned' = 1 .. m + n
      /\ \A w \in 1 .. m + n : burned'[w] = IF w <= m THEN burned[w] ELSE head'
  <2>1. burned' = burned \o new
    BY <1>2 DEF new
  <2>2. burned' \in Seq(1 .. head') /\ Len(burned') = m + n
    BY <1>3, <1>5, <1>6, <2>1, ConcatProperties
  <2>3. ASSUME NEW w \in 1 .. m + n PROVE burned'[w] = IF w <= m THEN burned[w] ELSE head'
    <3>1. burned'[w] = IF w <= m THEN burned[w] ELSE new[w - m]
      BY <1>5, <1>6, <2>1, ConcatProperties
    <3>2. ~(w <= m) => w - m \in 1 .. n
      BY <1>3
    <3> QED BY <1>5, <3>1, <3>2
  <2> QED BY <1>3, <2>2, <2>3, LenProperties
<1>8. m + n <= MaxBurns
  BY <1>2, <1>3, WatcherAssumption
<1>9. Later
  <2>1. ASSUME NEW w \in DOMAIN burned' PROVE burned'[w] \in Nat
    <3>1. CASE w <= m
      <4>1. w \in 1 .. m
        BY <1>3, <1>7, <2>1, <3>1
      <4> QED BY <1>3, <1>6, <1>7, <2>1, <3>1, <4>1
    <3>2. CASE ~(w <= m)
      BY <1>3, <1>7, <2>1, <3>2
    <3> QED BY <3>1, <3>2
  <2>2. \A w \in DOMAIN burned : w \in DOMAIN burned' /\ burned'[w] = burned[w]
    <3>1. \A w \in 1 .. m : w \in 1 .. m + n /\ w <= m
      BY <1>3
    <3> QED BY <1>6, <1>7, <3>1
  <2>3. ASSUME NEW w \in DOMAIN burned', burned'[w] <= final
        PROVE  w \in DOMAIN burned /\ burned'[w] = burned[w]
    <3>1. final \in Nat /\ w \in 1 .. m + n
      BY <1>7, Numbers
    <3>2. w <= m
      BY <1>3, <1>4, <1>7, <2>3, <3>1
    <3> QED BY <1>3, <1>6, <1>7, <3>1, <3>2
  <2>4. Known \subseteq Known'
    BY <1>1 DEF Known, Recorded, rowVars, answerVars
  <2> QED BY <1>4, <2>1, <2>2, <2>3, <2>4 DEF Later
<1>10. ChainInv'
  <2>1. SafeTip' <= final'
    BY <1>4 DEF SafeTip
  <2>2. ASSUME NEW v \in DOMAIN burned', NEW w \in DOMAIN burned', v <= w
        PROVE  burned'[v] <= burned'[w]
    <3>1. v \in 1 .. m + n /\ w \in 1 .. m + n
      BY <1>7
    <3>2. CASE w <= m
      <4>1. v \in DOMAIN burned /\ w \in DOMAIN burned /\ burned'[v] = burned[v] /\ burned'[w] = burned[w]
        BY <1>3, <1>6, <1>7, <2>2, <3>1, <3>2
      <4> QED BY <2>2, <4>1 DEF GnosisInv, ChainInv
    <3>3. CASE ~(w <= m)
      <4>1. burned'[w] = head' /\ burned'[v] \in 1 .. head'
        BY <1>3, <1>7, <3>1, <3>3, ElementOfSeq
      <4> QED BY <1>3, <4>1
    <3> QED BY <3>2, <3>3
  <2> QED BY <2>1, <2>2 DEF ChainInv
<1>11. head' \in 0 .. MaxBlock /\ final' \in 0 .. head'
  BY <1>3, <1>4, WatcherAssumption
<1> QED BY <1>1, <1>7, <1>8, <1>9, <1>10, <1>11, ChainMoves

LEMMA ReorgKeeps ==
  ASSUME GnosisInv, Reorg
  PROVE  GnosisInv'
<1>1. UNCHANGED <<deleted, rowVars, scanVars, recountVars, answerVars, final>>
  BY DEF Reorg, Reorganise
<1>2. PICK b \in final .. head - 1, n \in 0 .. Len(burned) :
        /\ \A w \in DOMAIN burned : burned[w] <= b <=> w <= n
        /\ head' = b
        /\ burned' = SubSeq(burned, 1, n)
  BY DEF Reorg, Reorganise
<1>3. /\ b \in Nat /\ final <= b /\ b < head /\ n \in Nat /\ n <= Len(burned)
      /\ burned \in Seq(1 .. head) /\ DOMAIN burned = 1 .. Len(burned) /\ Len(burned) \in Nat
  BY <1>2, Numbers
<1>4. \A w \in 1 .. n : w \in DOMAIN burned /\ burned[w] \in 1 .. b
  <2> SUFFICES ASSUME NEW w \in 1 .. n PROVE w \in DOMAIN burned /\ burned[w] \in 1 .. b
    OBVIOUS
  <2>1. w \in DOMAIN burned
    BY <1>3
  <2>2. burned[w] <= b /\ burned[w] \in 1 .. head
    <3>1. w <= n /\ (burned[w] <= b <=> w <= n)
      BY <1>2, <1>3, <2>1
    <3> QED BY <2>1, <3>1, Numbers
  <2> QED BY <1>3, <2>1, <2>2
<1>5. /\ burned' \in Seq(1 .. b) /\ Len(burned') = n
      /\ \A w \in 1 .. n : burned'[w] = burned[w]
  <2>1. 1 \in Int /\ n \in Int
    BY <1>3
  <2>2. /\ SubSeq(burned, 1, n) \in Seq(1 .. b)
        /\ Len(SubSeq(burned, 1, n)) = IF 1 <= n THEN n - 1 + 1 ELSE 0
        /\ \A w \in 1 .. n - 1 + 1 : SubSeq(burned, 1, n)[w] = burned[1 + w - 1]
    BY <1>4, <2>1, SubSeqProperties
  <2>3. n - 1 + 1 = n /\ (~(1 <= n) => n = 0) /\ \A w \in 1 .. n : 1 + w - 1 = w
    BY <1>3
  <2> QED BY <1>2, <2>2, <2>3
<1>6. burned' \in Seq(1 .. head') /\ DOMAIN burned' = 1 .. n
  BY <1>2, <1>5, LenProperties
<1>7. Later
  <2>1. \A w \in DOMAIN burned : burned[w] <= final => w \in 1 .. n
    BY <1>2, <1>3, Numbers
  <2>2. Known \subseteq Known'
    BY <1>1 DEF Known, Recorded, rowVars, answerVars
  <2>3. final' \in Nat /\ final <= final' /\ \A w \in DOMAIN burned' : burned'[w] \in Nat
    BY <1>1, <1>5, <1>6, <1>4, Numbers
  <2> QED BY <1>5, <1>6, <1>4, <2>1, <2>2, <2>3 DEF Later
<1>8. ChainInv'
  <2>1. SafeTip' <= final'
    BY <1>1, <1>2, <1>3, Numbers DEF SafeTip
  <2> QED BY <1>5, <1>6, <1>4, <2>1 DEF ChainInv, GnosisInv
<1>9. head' \in 0 .. MaxBlock /\ final' \in 0 .. head' /\ Len(burned') <= MaxBurns
  <2>1. Len(burned) <= MaxBurns /\ MaxBurns \in Nat /\ head <= MaxBlock
    BY Numbers, WatcherAssumption DEF GnosisInv, TypeOK
  <2>2. head' = b /\ final' = final /\ Len(burned') = n
    BY <1>1, <1>2, <1>5
  <2> QED BY <1>3, <2>1, <2>2, Numbers
<1> QED BY <1>1, <1>6, <1>7, <1>8, <1>9, ChainMoves

LEMMA NothingMoves ==
  ASSUME GnosisInv, UNCHANGED vars
  PROVE  GnosisInv'
<1>1. UNCHANGED <<head, final, burned, watermark, halt, row, order, scan, recount, cursor, omitted,
                  recounted, alerted, deleted>>
  BY DEF vars, chainVars, rowVars, scanVars, recountVars, answerVars
<1>2. Known \subseteq Known' /\ UNCHANGED chainVars /\ TypeOK' /\ RecordedIsOnChain'
  <2>1. UNCHANGED chainVars
    BY DEF vars
  <2> QED BY <1>1, <2>1 DEF Known, Recorded, GnosisInv, TypeOK, RecordedIsOnChain
<1>3. Later /\ ChainInv'
  BY <1>2, ChainAlone
<1>4. KnownUpTo(watermark, {})' /\ watermark' <= final'
  BY <1>1, <1>2, WatermarkCovered, Numbers DEF KnownUpTo
<1> QED BY <1>1, <1>2, <1>3, <1>4, WorldMoves

LEMMA InitHolds == Init => GnosisInv
<1> SUFFICES ASSUME Init PROVE GnosisInv
  OBVIOUS
<1>1. {MaxBlock, MaxBurns, Depth, HaltThreshold} \subseteq Nat
  BY WatcherAssumption
<1>2. DOMAIN burned = {} /\ Len(burned) = 0 /\ burned \in Seq(1 .. head)
  BY DEF Init
<1>3. Recorded = {}
  BY DEF Init, Recorded
<1>4. TypeOK
  BY <1>1, <1>2 DEF Init, TypeOK, NoHalt
<1>5. ChainInv /\ watermark <= final /\ KnownUpTo(watermark, {}) /\ RecordedIsOnChain
  BY <1>1, <1>2, <1>3 DEF Init, ChainInv, SafeTip, KnownUpTo, RecordedIsOnChain
<1>6. \A i \in Instances : ScanInv(scan[i]) /\ RecountInv(recount[i], cursor[i])
  <2>1. ScanInv(Idle)
    BY RestingScan DEF Idle
  <2> QED BY <2>1, RecountEnds DEF Init
<1> QED BY <1>4, <1>5, <1>6 DEF GnosisInv, Init

LEMMA StepKeeps ==
  ASSUME GnosisInv, [Next]_vars
  PROVE  GnosisInv'
<1>1. CASE Grow
  BY <1>1, GrowKeeps
<1>2. CASE Reorg
  BY <1>2, ReorgKeeps
<1>3. CASE MoveWatermark
  BY <1>3, MoveWatermarkKeeps
<1>4. CASE DeleteRow
  BY <1>4, DeleteRowKeeps
<1>5. ASSUME NEW i \in Instances, Scan(i) PROVE GnosisInv'
  BY <1>5, BeginScanKeeps, ReadLogsKeeps, CheckLogKeeps, InsertLogKeeps, RecordScanHaltKeeps,
     StopScanKeeps, AdvanceWatermarkKeeps, ClearScanHaltKeeps, SelectBurnsKeeps, ConfirmBurnKeeps,
     QueuePayoutKeeps DEF Scan
<1>6. ASSUME NEW i \in Instances, Recount(i) PROVE GnosisInv'
  BY <1>6, BeginRecountKeeps, RecountReadKeeps, RecountCheckKeeps, RecountInsertKeeps,
     RecountNextKeeps, RecountStops DEF Recount
<1>7. ASSUME NEW i \in Instances, ScanFails(i) \/ RecountFails(i) \/ Restart(i) PROVE GnosisInv'
  BY <1>7, ScanFailsKeeps, RecountStops, RestartKeeps
<1>8. CASE UNCHANGED vars
  BY <1>8, NothingMoves
<1> QED BY <1>1, <1>2, <1>3, <1>4, <1>5, <1>6, <1>7, <1>8 DEF Next

-------------------------------------------------------------------------------
(* The invariant of the watcher (event-watcher.ts) holds for any number of *)
(* processes, whatever fails, restarts, reorganises or is left out.        *)
THEOREM GnosisInvariant == Spec => []GnosisInv
<1>1. GnosisInv /\ [Next]_vars => GnosisInv'
  BY StepKeeps
<1> QED BY <1>1, InitHolds, PTL DEF Spec

(* The watermark never passes a burn that has no row, but for those the    *)
(* node left out or somebody else passed over or deleted                   *)
(* (processNewWithdrawals, StopScan's block before the failed one).        *)
THEOREM WatermarkCovers == Spec => []WatermarkCoversBurns
<1>1. GnosisInv => WatermarkCoversBurns
  BY DEF GnosisInv, KnownUpTo, Known, WatermarkCoversBurns
<1> QED BY <1>1, GnosisInvariant, PTL

(* What is recorded, by a poll or by a recount, is a burn of the chain     *)
(* that no reorganisation removes (_createWithdrawalOrder).                *)
THEOREM RecordedFinal == Spec => []RecordedIsOnChain
<1>1. GnosisInv => RecordedIsOnChain
  BY DEF GnosisInv
<1> QED BY <1>1, GnosisInvariant, PTL

-------------------------------------------------------------------------------
(* The watermark of one process.                                           *)

OneProcess == \A i, j \in Instances : i = j

(* What a scan will set the watermark to is not below it. *)
AheadInv(p) ==
  /\ p.pc = "read" => watermark < p.start
  /\ p.pc \in {"logs", "insert"} => watermark <= p.end /\ \A l \in p.todo : watermark < l.block
  /\ p.pc \in {"halt", "stop"} => watermark < p.block

Ahead == \A i \in Instances : AheadInv(scan[i])

LEMMA AheadAtRest == \A p : p.pc \notin {"read", "logs", "insert", "halt", "stop"} => AheadInv(p)
BY DEF AheadInv

(* A step that leaves the scan of the process and its watermark alone. *)
LEMMA AheadAlone ==
  ASSUME Ahead, scan' = scan, watermark' = watermark
  PROVE  Ahead' /\ watermark' = watermark
BY DEF Ahead, AheadInv

(* A step of the only process. *)
LEMMA AheadMoves ==
  ASSUME OneProcess, GnosisInv, NEW i \in Instances, NEW p, scan' = [scan EXCEPT ![i] = p],
         AheadInv(p)'
  PROVE  Ahead'
<1>1. \A j \in Instances : j = i
  BY DEF OneProcess
<1>2. scan'[i] = p
  BY DEF GnosisInv
<1> QED BY <1>1, <1>2 DEF Ahead, AheadInv

(* The scan ends, or looks for something else than logs. *)
LEMMA AheadEnds ==
  ASSUME OneProcess, GnosisInv, NEW i \in Instances, NEW p, scan' = [scan EXCEPT ![i] = p],
         p.pc \notin {"read", "logs", "insert", "halt", "stop"}
  PROVE  Ahead'
<1>1. AheadInv(p)'
  BY DEF AheadInv
<1> QED BY <1>1, AheadMoves

LEMMA BeginScanAhead ==
  ASSUME OneProcess, GnosisInv, Ahead, NEW i \in Instances, BeginScan(i)
  PROVE  Ahead' /\ watermark' >= watermark
<1>1. watermark' = watermark /\ watermark \in Nat
  BY Numbers DEF BeginScan
<1>2. PICK p : /\ scan' = [scan EXCEPT ![i] = p]
               /\ \/ p = [pc |-> "select"]
                  \/ p = [pc |-> "read", from |-> watermark + 1, start |-> watermark + 1,
                          tip |-> SafeTip]
  BY DEF BeginScan
<1>3. AheadInv(p)'
  BY <1>1, <1>2 DEF AheadInv
<1>4. Ahead'
  BY <1>2, <1>3, AheadMoves
<1>5. watermark' >= watermark
  BY <1>1
<1> QED BY <1>4, <1>5

LEMMA ReadLogsAhead ==
  ASSUME OneProcess, GnosisInv, Ahead, NEW i \in Instances, ReadLogs(i)
  PROVE  Ahead' /\ watermark' >= watermark
<1> SUFFICES ASSUME NEW r, r = scan[i] PROVE Ahead' /\ watermark' >= watermark
  OBVIOUS
<1>1. /\ watermark' = watermark /\ watermark \in Nat /\ r.pc = "read" /\ watermark < r.start
      /\ r.from \in Nat /\ r.tip \in Nat /\ r.start \in r.from .. r.tip
  <2>1. ScanInv(r) /\ AheadInv(r)
    BY JobOf DEF Ahead
  <2>2. watermark' = watermark /\ r.pc = "read"
    BY DEF ReadLogs
  <2>3. watermark < r.start
    BY <2>1, <2>2 DEF AheadInv
  <2>4. r.from \in 1 .. r.tip /\ r.tip \in 1 .. final /\ r.start \in r.from .. r.tip
    BY <2>1, <2>2 DEF ScanInv
  <2> QED BY <2>2, <2>3, <2>4, Numbers
<1>2. PICK end, logs : /\ end = Least(r.start + Chunk - 1, r.tip)
                       /\ logs \in SUBSET Logs(r.start, end)
                       /\ scan' = [scan EXCEPT ![i] = [pc |-> "logs", from |-> r.from, tip |-> r.tip,
                                                       end |-> end, todo |-> logs]]
  BY DEF ReadLogs
<1>3. end \in Nat /\ r.start <= end /\ r.start \in Nat
  <2>1. r.start \in Nat /\ r.start <= r.tip
    BY <1>1
  <2> QED BY <1>1, <1>2, <2>1, ChunkFacts
<1>4. \A l \in logs : watermark < l.block
  <2>1. \A l \in logs : l.block \in r.start .. end
    BY <1>2 DEF Logs
  <2> QED BY <1>1, <1>3, <2>1
<1>5. PICK p : p = [pc |-> "logs", from |-> r.from, tip |-> r.tip, end |-> end, todo |-> logs]
  OBVIOUS
<1>6. AheadInv(p)'
  BY <1>1, <1>3, <1>4, <1>5 DEF AheadInv
<1>7. Ahead'
  BY <1>2, <1>5, <1>6, AheadMoves
<1>8. watermark' >= watermark
  BY <1>1
<1> QED BY <1>7, <1>8

(* A log is looked at, and perhaps done with. *)
LEMMA LogAhead ==
  ASSUME OneProcess, GnosisInv, Ahead, NEW i \in Instances, NEW r, r = scan[i],
         r.pc \in {"logs", "insert"}, NEW p, scan' = [scan EXCEPT ![i] = p],
         p.pc \in {"logs", "insert"}, p.end = r.end, p.todo \subseteq r.todo,
         watermark' = watermark
  PROVE  Ahead'
<1>1. AheadInv(r)
  BY DEF Ahead
<1>2. AheadInv(p)'
  BY <1>1 DEF AheadInv
<1> QED BY <1>2, AheadMoves

LEMMA CheckLogAhead ==
  ASSUME OneProcess, GnosisInv, Ahead, NEW i \in Instances, CheckLog(i)
  PROVE  Ahead' /\ watermark' >= watermark
<1> SUFFICES ASSUME NEW r, NEW l, r = scan[i], l = FirstOf(r.todo)
             PROVE  Ahead' /\ watermark' >= watermark
  OBVIOUS
<1>1. watermark' = watermark /\ watermark \in Nat /\ r.pc = "logs"
  BY Numbers DEF CheckLog
<1>2. PICK p : scan' = [scan EXCEPT ![i] = p]
               /\ (p = [r EXCEPT !.pc = "insert"] \/ p = Handled(r, "logs", l))
  BY DEF CheckLog
<1>3. ASSUME NEW q, q = [r EXCEPT !.pc = "insert"]
      PROVE  q.pc \in {"insert", r.pc} /\ q.end = r.end /\ q.todo = r.todo
  BY <1>3
<1>4. p.pc \in {"logs", "insert"} /\ p.end = r.end /\ p.todo \subseteq r.todo
  <2>1. CASE p = [r EXCEPT !.pc = "insert"]
    BY <1>1, <1>3, <2>1
  <2>2. CASE p = Handled(r, "logs", l)
    <3>1. p.pc = r.pc /\ p.end = r.end /\ p.todo \subseteq r.todo
      BY <1>1, <2>2 DEF Handled
    <3> QED BY <1>1, <3>1
  <2> QED BY <1>2, <2>1, <2>2
<1>5. Ahead'
  BY <1>1, <1>2, <1>4, LogAhead
<1>6. watermark' >= watermark
  BY <1>1
<1> QED BY <1>5, <1>6

LEMMA InsertLogAhead ==
  ASSUME OneProcess, GnosisInv, Ahead, NEW i \in Instances, InsertLog(i)
  PROVE  Ahead' /\ watermark' >= watermark
<1> SUFFICES ASSUME NEW r, NEW l, r = scan[i], l = FirstOf(r.todo)
             PROVE  Ahead' /\ watermark' >= watermark
  OBVIOUS
<1>1. watermark' = watermark /\ watermark \in Nat /\ r.pc = "insert"
  BY Numbers DEF InsertLog
<1>2. r.todo \in SUBSET FinalLogs /\ r.todo # {} /\ AheadInv(r)
  BY <1>1, JobOf DEF ScanInv, Ahead
<1>3. l \in r.todo /\ watermark < l.block
  BY <1>1, <1>2, FirstIsLeast DEF AheadInv
<1>4. PICK p : /\ scan' = [scan EXCEPT ![i] = p]
               /\ \/ p = Handled(r, "logs", l)
                  \/ p = [pc |-> "halt", from |-> r.from, block |-> l.block]
  BY DEF InsertLog
<1>7. watermark' >= watermark
  BY <1>1
<1>5. CASE p = Handled(r, "logs", l)
  <2>1. p.pc = "logs" /\ p.end = r.end /\ p.todo \subseteq r.todo
    BY <1>1, <1>5 DEF Handled
  <2>2. Ahead'
    BY <1>1, <1>4, <2>1, LogAhead
  <2> QED BY <1>7, <2>2
<1>6. CASE p = [pc |-> "halt", from |-> r.from, block |-> l.block]
  <2>1. AheadInv(p)'
    BY <1>1, <1>3, <1>6 DEF AheadInv
  <2>2. Ahead'
    BY <1>4, <2>1, AheadMoves
  <2> QED BY <1>7, <2>2
<1> QED BY <1>4, <1>5, <1>6

LEMMA RecordScanHaltAhead ==
  ASSUME OneProcess, GnosisInv, Ahead, NEW i \in Instances, RecordScanHalt(i)
  PROVE  Ahead' /\ watermark' >= watermark
<1> SUFFICES ASSUME NEW r, r = scan[i] PROVE Ahead' /\ watermark' >= watermark
  OBVIOUS
<1>1. watermark' = watermark /\ watermark \in Nat /\ r.pc = "halt"
  BY Numbers DEF RecordScanHalt
<1>2. AheadInv(r)
  BY DEF Ahead
<1>3. PICK p : scan' = [scan EXCEPT ![i] = p] /\ p = [r EXCEPT !.pc = "stop"]
  BY DEF RecordScanHalt
<1>4. p.block = r.block /\ p.pc \in {"halt", "stop"}
  BY <1>1, <1>3
<1>5. AheadInv(p)'
  BY <1>1, <1>2, <1>4 DEF AheadInv
<1>6. Ahead'
  BY <1>3, <1>5, AheadMoves
<1>7. watermark' >= watermark
  BY <1>1
<1> QED BY <1>6, <1>7

LEMMA StopScanAhead ==
  ASSUME OneProcess, GnosisInv, Ahead, NEW i \in Instances, StopScan(i)
  PROVE  Ahead' /\ watermark' >= watermark
<1> SUFFICES ASSUME NEW r, r = scan[i] PROVE Ahead' /\ watermark' >= watermark
  OBVIOUS
<1>1. /\ r.pc = "stop" /\ watermark \in Nat
      /\ watermark' = IF HaltAt(r.block) >= r.from THEN HaltAt(r.block) ELSE watermark
  BY Numbers DEF StopScan
<1>2. watermark < r.block /\ r.block \in Nat
  <2>1. ScanInv(r) /\ AheadInv(r)
    BY JobOf DEF Ahead
  <2> QED BY <1>1, <2>1, Numbers DEF ScanInv, AheadInv
<1>3. watermark' >= watermark
  BY <1>1, <1>2 DEF HaltAt
<1>4. PICK p : p = [pc |-> "select"]
  OBVIOUS
<1>5. scan' = [scan EXCEPT ![i] = p] /\ p.pc = "select"
  BY <1>4 DEF StopScan
<1> QED BY <1>3, <1>5, AheadEnds

LEMMA AdvanceWatermarkAhead ==
  ASSUME OneProcess, GnosisInv, Ahead, NEW i \in Instances, AdvanceWatermark(i)
  PROVE  Ahead' /\ watermark' >= watermark
<1> SUFFICES ASSUME NEW r, r = scan[i] PROVE Ahead' /\ watermark' >= watermark
  OBVIOUS
<1>1. r.pc = "logs" /\ watermark' = r.end /\ watermark \in Nat
  BY Numbers DEF AdvanceWatermark
<1>2. watermark <= r.end /\ r.end \in Nat
  <2>1. ScanInv(r) /\ AheadInv(r)
    BY JobOf DEF Ahead
  <2> QED BY <1>1, <2>1, Numbers DEF ScanInv, AheadInv
<1>3. PICK p : /\ scan' = [scan EXCEPT ![i] = p]
               /\ \/ p = [pc |-> "read", from |-> r.from, start |-> r.end + 1, tip |-> r.tip]
                  \/ p = [pc |-> "clear"]
  BY DEF AdvanceWatermark
<1>4. AheadInv(p)'
  BY <1>1, <1>2, <1>3 DEF AheadInv
<1> QED BY <1>1, <1>2, <1>3, <1>4, AheadMoves

(* What follows the scan of logs, and failures: the watermark stays.       *)
LEMMA RestAhead ==
  ASSUME OneProcess, GnosisInv, Ahead, NEW i \in Instances,
         \/ ClearScanHalt(i) \/ SelectBurns(i) \/ ConfirmBurn(i) \/ QueuePayout(i)
         \/ ScanFails(i) \/ Restart(i)
  PROVE  Ahead' /\ watermark' >= watermark
<1>1. watermark' = watermark /\ watermark \in Nat
  BY Numbers DEF ClearScanHalt, SelectBurns, ConfirmBurn, QueuePayout, ScanFails, Restart
<1>2. PICK p : scan' = [scan EXCEPT ![i] = p]
               /\ p.pc \notin {"read", "logs", "insert", "halt", "stop"}
  <2>1. \A left : NextBurn(left).pc \in {"idle", "confirm"}
    BY DEF NextBurn, Idle
  <2>2. CASE ClearScanHalt(i) \/ Restart(i)
    <3>1. PICK p : p \in {[pc |-> "select"], Idle} /\ scan' = [scan EXCEPT ![i] = p]
      BY <2>2 DEF ClearScanHalt, Restart
    <3>2. p.pc \in {"select", "idle"}
      BY <3>1 DEF Idle
    <3> QED BY <3>1, <3>2
  <2>3. CASE SelectBurns(i)
    BY <2>1, <2>3 DEF SelectBurns
  <2>4. CASE ConfirmBurn(i)
    <3>1. PICK w, p : /\ p = [pc |-> "queue", burn |-> w, burns |-> scan[i].burns \ {w}]
                      /\ scan' = [scan EXCEPT ![i] = p]
      BY <2>4 DEF ConfirmBurn
    <3>2. p.pc = "queue"
      BY <3>1
    <3> QED BY <3>1, <3>2
  <2>5. CASE QueuePayout(i)
    BY <2>1, <2>5 DEF QueuePayout
  <2>6. CASE ScanFails(i)
    <3>1. \/ scan' = [scan EXCEPT ![i] = Idle]
          \/ \E left : scan' = [scan EXCEPT ![i] = NextBurn(left)]
      BY <2>6 DEF ScanFails
    <3> QED BY <2>1, <3>1 DEF Idle
  <2> QED BY <2>2, <2>3, <2>4, <2>5, <2>6
<1>3. Ahead'
  BY <1>2, AheadEnds
<1>4. watermark' >= watermark
  BY <1>1
<1> QED BY <1>3, <1>4

LEMMA AheadKeeps ==
  ASSUME OneProcess, GnosisInv, Ahead, [Next]_vars, ~MoveWatermark
  PROVE  Ahead' /\ watermark' >= watermark
<1>1. ASSUME scan' = scan, watermark' = watermark PROVE Ahead' /\ watermark' >= watermark
  <2>1. Ahead'
    BY <1>1, AheadAlone
  <2>2. watermark' >= watermark
    BY <1>1, Numbers
  <2> QED BY <2>1, <2>2
<1>2. CASE Grow \/ Reorg \/ DeleteRow
  BY <1>1, <1>2 DEF Grow, Reorg, DeleteRow, scanVars
<1>3. ASSUME NEW i \in Instances, Scan(i) PROVE Ahead' /\ watermark' >= watermark
  BY <1>3, BeginScanAhead, ReadLogsAhead, CheckLogAhead, InsertLogAhead, RecordScanHaltAhead,
     StopScanAhead, AdvanceWatermarkAhead, RestAhead DEF Scan
<1>4. ASSUME NEW i \in Instances, Recount(i) \/ RecountFails(i)
      PROVE  Ahead' /\ watermark' >= watermark
  <2>1. UNCHANGED scanVars
    BY <1>4 DEF Recount, BeginRecount, RecountRead, RecountCheck, RecountInsert, RecountNext,
       RecountAlert, RecountFails
  <2> QED BY <1>1, <2>1 DEF scanVars
<1>5. ASSUME NEW i \in Instances, ScanFails(i) \/ Restart(i)
      PROVE  Ahead' /\ watermark' >= watermark
  BY <1>5, RestAhead
<1>6. CASE UNCHANGED vars
  BY <1>1, <1>6 DEF vars, scanVars
<1> QED BY <1>2, <1>3, <1>4, <1>5, <1>6 DEF Next

(* event-watcher.ts:241: with one process, and as long as nobody else      *)
(* writes it, the watermark only moves forward, though the UPDATE that     *)
(* stores it does not compare: what a scan has in hand is above it.        *)
THEOREM WatermarkForward ==
  ASSUME OneProcess
  PROVE  Spec /\ [][~MoveWatermark]_vars => WatermarkOnlyForward
<1>1. Init => Ahead
  BY DEF Init, Ahead, AheadInv, Idle
<1>2. GnosisInv /\ Ahead /\ [Next]_vars /\ [~MoveWatermark]_vars
        => Ahead' /\ [watermark' >= watermark]_vars
  <2> SUFFICES ASSUME GnosisInv, Ahead, [Next]_vars, [~MoveWatermark]_vars
               PROVE  Ahead' /\ [watermark' >= watermark]_vars
    OBVIOUS
  <2>1. CASE ~MoveWatermark
    BY <2>1, AheadKeeps
  <2>2. CASE UNCHANGED vars
    BY <2>2, AheadAlone DEF vars, scanVars
  <2> QED BY <2>1, <2>2
<1> QED BY <1>1, <1>2, GnosisInvariant, PTL DEF Spec, WatermarkOnlyForward
===============================================================================
