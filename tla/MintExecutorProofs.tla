-------------------------- MODULE MintExecutorProofs --------------------------
(***************************************************************************)
(* Proofs about MintExecutor, for every value of its constants: its types, *)
(* that nothing is paid twice, and that the cap is never overcommitted.    *)
(***************************************************************************)
EXTENDS MintExecutorInvariants, FiniteSetTheorems, TLAPS

-------------------------------------------------------------------------------
(* The arithmetic of the cap.                                              *)

LEMMA MonusType ==
  ASSUME NEW a \in Nat, NEW b \in Nat
  PROVE  Monus(a, b) \in Nat /\ Monus(a, b) <= a
BY DEF Monus

LEMMA TotalType ==
  ASSUME NEW S \in SUBSET Orders, NEW f \in [Orders -> Nat]
  PROVE  /\ IsFiniteSet(UNION {{x} \X (1 .. f[x]) : x \in S})
         /\ TotalOf(f, S) \in Nat
<1> DEFINE Units(x) == {x} \X (1 .. f[x])
           T == {Units(x) : x \in S}
<1>1. IsFiniteSet(S)
  BY ExecutorAssumption, FS_Subset
<1>2. IsFiniteSet(T)
  <2>1. [x \in S |-> Units(x)] \in Surjection(S, T)
    BY DEF Surjection
  <2> QED BY <1>1, <2>1, FS_Surjection
<1>3. \A U \in T : IsFiniteSet(U)
  <2> TAKE U \in T
  <2>1. PICK x \in S : U = Units(x)
    OBVIOUS
  <2>2. IsFiniteSet({x})
    BY FS_Singleton
  <2>3. IsFiniteSet(1 .. f[x])
    <3>1. 1 \in Int /\ f[x] \in Int
      OBVIOUS
    <3> QED BY ONLY <3>1, FS_Interval
  <2> QED BY <2>1, <2>2, <2>3, FS_Product
<1>4. IsFiniteSet(UNION T)
  <2> HIDE DEF T
  <2> QED BY <1>2, <1>3, FS_UNION
<1> QED BY <1>4, FS_CardinalityType DEF TotalOf

(* A larger set of orders has at least as large a total. *)
LEMMA TotalMonotone ==
  ASSUME NEW S \in SUBSET Orders, NEW R \in SUBSET S, NEW f \in [Orders -> Nat]
  PROVE  TotalOf(f, R) <= TotalOf(f, S)
<1> DEFINE U(Q) == UNION {{x} \X (1 .. f[x]) : x \in Q}
<1>1. U(R) \in SUBSET U(S)
  OBVIOUS
<1>2. IsFiniteSet(U(S))
  BY TotalType
<1> QED BY <1>1, <1>2, FS_Subset DEF TotalOf

(* The total depends on the amounts of the members only. *)
LEMMA TotalCongruent ==
  ASSUME NEW S \in SUBSET Orders, NEW f, NEW g, \A x \in S : f[x] = g[x]
  PROVE  TotalOf(f, S) = TotalOf(g, S)
<1>1. {{x} \X (1 .. f[x]) : x \in S} = {{x} \X (1 .. g[x]) : x \in S}
  OBVIOUS
<1> QED BY <1>1 DEF TotalOf

(* One more order adds its own amount. *)
LEMMA TotalAdd ==
  ASSUME NEW S \in SUBSET Orders, NEW o \in Orders, o \notin S,
         NEW f \in [Orders -> Nat]
  PROVE  TotalOf(f, S \cup {o}) = TotalOf(f, S) + f[o]
<1> DEFINE U == UNION {{x} \X (1 .. f[x]) : x \in S}
           V == {o} \X (1 .. f[o])
<1>1. UNION {{x} \X (1 .. f[x]) : x \in S \cup {o}} = U \cup V
  OBVIOUS
<1>2. U \cap V = {}
  OBVIOUS
<1>3. IsFiniteSet(U)
  BY TotalType
<1>4. IsFiniteSet(V) /\ Cardinality(V) = f[o]
  <2>1. IsFiniteSet({o}) /\ Cardinality({o}) = 1
    BY FS_Singleton
  <2>2. IsFiniteSet(1 .. f[o]) /\ Cardinality(1 .. f[o]) = f[o]
    <3>1. 1 \in Int /\ f[o] \in Int /\ f[o] \in Nat
      OBVIOUS
    <3>2. IsFiniteSet(1 .. f[o]) /\ Cardinality(1 .. f[o]) = IF 1 > f[o] THEN 0 ELSE f[o] - 1 + 1
      BY ONLY <3>1, FS_Interval
    <3> QED BY <3>1, <3>2
  <2>3. IsFiniteSet(V) /\ Cardinality(V) = Cardinality({o}) * Cardinality(1 .. f[o])
    BY <2>1, <2>2, FS_Product
  <2> QED BY <2>1, <2>2, <2>3
<1>5. Cardinality(U \cup V) = Cardinality(U) + Cardinality(V) - Cardinality(U \cap V)
  BY <1>3, <1>4, FS_Union
<1>6. Cardinality(U \cap V) = 0
  BY <1>2, FS_EmptySet
<1>7. Cardinality(U) \in Nat
  BY <1>3, FS_CardinalityType
<1>8. TotalOf(f, S) = Cardinality(U)
  BY DEF TotalOf
<1>9. TotalOf(f, S \cup {o}) = Cardinality(U \cup V)
  BY <1>1 DEF TotalOf
<1> HIDE DEF U, V
<1>10. f[o] \in Nat
  OBVIOUS
<1> QED BY <1>4, <1>5, <1>6, <1>7, <1>8, <1>9, <1>10

-------------------------------------------------------------------------------
(* Types.                                                                  *)

LEMMA SplitType ==
  ASSUME NEW d \in Nat, NEW c \in Nat
  PROVE  /\ SplitDeposit(d, c) \in [mint : Nat, excess : Nat]
         /\ SplitDeposit(d, c).mint + SplitDeposit(d, c).excess = d
         /\ SplitDeposit(d, c).mint <= c
         /\ SplitDeposit(d, c).excess <= d
BY DEF SplitDeposit, Least

LEMMA RemainingType ==
  ASSUME NEW s \in CapStates, NEW t \in Nat
  PROVE  /\ MintedToday(s, t) \in Nat
         /\ RemainingToday(s, t) \in Nat
         /\ RemainingToday(s, t) <= Monus(DailyMintLimit, MintedToday(s, t))
         /\ MaxSupply > 0 => RemainingToday(s, t) <= Monus(MaxSupply, s.supply)
         /\ WindowStart(s, t) \in Nat
<1>1. MintedToday(s, t) \in Nat
  BY DEF MintedToday, CapStates
<1>2. WindowStart(s, t) \in Nat
  BY CapAssumption DEF WindowStart, CapStates
<1>3. Monus(DailyMintLimit, MintedToday(s, t)) \in Nat /\ Monus(MaxSupply, s.supply) \in Nat
  BY <1>1, CapAssumption, MonusType DEF CapStates
<1> QED BY <1>1, <1>2, <1>3, CapAssumption DEF RemainingToday, Least

LEMMA DecisionType ==
  ASSUME TypeOK, NEW c \in CapStates, NEW o \in Orders, NEW x
  PROVE  /\ RequestAmount \in [Orders -> Nat]
         /\ OutstandingReserved(c.block, x) \in Nat
         /\ DecideSplit(c, Deposit[o], x) \in [mint : Nat, excess : Nat]
         /\ DecideSplit(c, Deposit[o], x).mint + DecideSplit(c, Deposit[o], x).excess = Deposit[o]
         /\ DecideSplit(c, Deposit[o], x).mint
               <= Monus(RemainingToday(c, c.time), OutstandingReserved(c.block, x))
         /\ DecideSplit(c, Deposit[o], x).excess <= Deposit[o]
<1>1. RequestAmount \in [Orders -> Nat]
  BY DEF TypeOK, DatabaseOK, Requests, RequestAmount
<1>2. OutstandingReserved(c.block, x) \in Nat
  <2>1. Reserving(c.block) \ x \in SUBSET Orders
    BY DEF Reserving
  <2> QED BY <1>1, <2>1, TotalType DEF OutstandingReserved
<1>3. RemainingToday(c, c.time) \in Nat
  BY RemainingType DEF CapStates
<1>4. AvailableCapacity(RemainingToday(c, c.time), OutstandingReserved(c.block, x)) \in Nat
  BY <1>2, <1>3, MonusType DEF AvailableCapacity
<1>5. Deposit[o] \in Nat
  BY ExecutorAssumption
<1> QED BY <1>1, <1>2, <1>4, <1>5, SplitType DEF DecideSplit, AvailableCapacity

LEMMA CapStateType ==
  ASSUME TypeOK
  PROVE  CapState \in CapStates
BY DEF TypeOK, ChainOK, CapState, CapStates

LEMMA RefundRowType ==
  ASSUME NEW e \in Nat
  PROVE  RefundRow(e) \in Refunds /\ RefundRow(e).excess = e
BY DEF RefundRow, NoRefund, Refunds

LEMMA ReissuedType ==
  ASSUME NEW r \in Requests, NEW t \in Nat, NEW n \in Nat
  PROVE  /\ Reissued(r, t, n) \in Requests
         /\ Reissued(r, t, n).hash = r.hash
         /\ Reissued(r, t, n).amount = r.amount
         /\ Reissued(r, t, n).legacy = r.legacy
         /\ Reissued(r, t, n).error = "none"
<1>1. t + MintDeadline \in Nat
  BY ExecutorAssumption
<1> QED BY <1>1 DEF Reissued, Requests

LEMMA TypeInit == Init => TypeOK
<1> SUFFICES ASSUME Init PROVE TypeOK
  OBVIOUS
<1>1. NoRequest \in Requests
  BY DEF NoRequest, Requests
<1>2. NoRefund \in Refunds
  BY DEF NoRefund, Refunds
<1>3. DatabaseOK
  <2>1. req \in [Orders -> Requests] /\ \A o \in Orders : req[o].hash = 0
    BY <1>1, ExecutorAssumption DEF Init, NoRequest, Requests
  <2>2. Len(txs) = 0
    BY DEF Init
  <2>3. refund \in [Orders -> Refunds]
    BY <1>2 DEF Init
  <2>4. ASSUME NEW o \in Orders PROVE refund[o].excess <= Deposit[o]
    <3>1. refund[o].excess = 0
      BY DEF Init, NoRefund
    <3>2. Deposit[o] \in Nat
      BY ExecutorAssumption
    <3> QED BY <3>1, <3>2
  <2>5. order \in [Orders -> States]
    BY DEF Init, States
  <2>6. pooled \subseteq Orders
    BY ExecutorAssumption DEF Init
  <2> QED BY <2>1, <2>2, <2>3, <2>4, <2>5, <2>6 DEF DatabaseOK
<1>4. ChainOK
  <2>1. txs = << >> /\ mined = 0 /\ now = 0
    BY DEF Init
  <2>2. txs \in Seq(Transactions) /\ Len(txs) = 0
    BY <2>1
  <2>3. chain \in [minted : Nat, dayStart : Nat, supply : Nat, nonce : Nat]
    <3>1. MintedBefore \in Nat
      BY ExecutorAssumption, CapAssumption
    <3> QED BY <3>1 DEF Init
  <2>4. minted \in [Orders -> Nat]
    BY DEF Init
  <2> QED BY <2>1, <2>2, <2>3, <2>4 DEF ChainOK
<1>5. ProcsOK
  BY DEF Init, ProcsOK, ProcOK, Steps, Idle
<1> QED BY <1>3, <1>4, <1>5 DEF TypeOK

-------------------------------------------------------------------------------
(* The database, the chain and the instances keep their types, each under  *)
(* the actions that touch it.                                              *)

LEMMA AppendType ==
  ASSUME ChainOK, NEW t \in Transactions
  PROVE  /\ Append(txs, t) \in Seq(Transactions)
         /\ Len(Append(txs, t)) = Len(txs) + 1
         /\ \A k \in 1 .. Len(txs) : Append(txs, t)[k] = txs[k]
         /\ Append(txs, t)[Len(txs) + 1] = t
BY DEF ChainOK

(* The transaction Send appends. *)
SentBy(i) == [order |-> proc[i].order, amount |-> proc[i].amount,
              deadline |-> proc[i].deadline, nonce |-> proc[i].nonce,
              outcome |-> "pending"]

LEMMA SentByType ==
  ASSUME ProcsOK, NEW i \in Instances, proc[i].pc = "send"
  PROVE  SentBy(i) \in Transactions
BY DEF ProcsOK, ProcOK, SentBy, Transactions

(* What a block does to the transaction it takes. *)
LEMMA MineType ==
  ASSUME TypeOK, MineNext
  PROVE  /\ mined + 1 \in 1 .. Len(txs)
         /\ txs' \in Seq(Transactions)
         /\ Len(txs') = Len(txs)
         /\ \A k \in 1 .. Len(txs) :
              /\ txs'[k].order = txs[k].order
              /\ txs'[k].amount = txs[k].amount
              /\ k # mined + 1 => txs'[k] = txs[k]
         /\ mined' = mined + 1
         /\ chain' \in [minted : Nat, dayStart : Nat, supply : Nat, nonce : Nat]
         /\ minted' \in [Orders -> Nat]
<1> DEFINE tx == txs[mined + 1]
<1>1. /\ mined + 1 \in 1 .. Len(txs)
      /\ txs \in Seq(Transactions)
      /\ mined' = mined + 1
  BY DEF TypeOK, ChainOK, MineNext
<1>2. tx \in Transactions
  BY <1>1
<1>3. PICK out \in RefusalNames \cup {"minted"} :
        txs' = [txs EXCEPT ![mined + 1].outcome = out]
  <2>1. Refusals(tx) \subseteq RefusalNames
    BY DEF Refusals, RefusalNames
  <2> QED BY <2>1 DEF MineNext
<1>4. [tx EXCEPT !.outcome = out] \in Transactions
  BY <1>2 DEF Transactions
<1>5. /\ txs' \in Seq(Transactions)
      /\ Len(txs') = Len(txs)
      /\ \A k \in 1 .. Len(txs) : k # mined + 1 => txs'[k] = txs[k]
      /\ txs'[mined + 1] = [tx EXCEPT !.outcome = out]
  BY <1>1, <1>3, <1>4
<1>6. txs'[mined + 1].order = tx.order /\ txs'[mined + 1].amount = tx.amount
  BY <1>2, <1>5 DEF Transactions
<1>7. chain' \in [minted : Nat, dayStart : Nat, supply : Nat, nonce : Nat]
  <2>1. CapState \in CapStates
    BY CapStateType
  <2>2. now \in Nat /\ tx.amount \in Nat
    BY <1>2 DEF TypeOK, ChainOK, Transactions
  <2>3. MintedToday(CapState, now) + tx.amount \in Nat /\ WindowStart(CapState, now) \in Nat
    BY <2>1, <2>2, RemainingType
  <2>4. chain' = chain \/ chain' = [chain EXCEPT
                             !.minted = MintedToday(CapState, now) + tx.amount,
                             !.dayStart = WindowStart(CapState, now),
                             !.supply = @ + tx.amount]
    BY DEF MineNext
  <2>5. chain \in [minted : Nat, dayStart : Nat, supply : Nat, nonce : Nat]
    BY DEF TypeOK, ChainOK
  <2>6. chain.supply + tx.amount \in Nat
    BY <2>2, <2>5
  <2> DEFINE m == MintedToday(CapState, now) + tx.amount
             d == WindowStart(CapState, now)
             t == chain.supply + tx.amount
  <2>7. chain' = chain \/ chain' = [chain EXCEPT !.minted = m, !.dayStart = d, !.supply = t]
    BY <2>4
  <2> HIDE DEF m, d, t
  <2>8. m \in Nat /\ d \in Nat /\ t \in Nat
    BY <2>3, <2>6 DEF m, d, t
  <2> QED BY <2>5, <2>7, <2>8
<1>8. minted' \in [Orders -> Nat]
  BY <1>2 DEF MineNext, TypeOK, ChainOK, Transactions
<1> QED BY <1>1, <1>5, <1>6, <1>7, <1>8

(* An instance goes on to remember p, or nobody's memory changes, while at *)
(* most more transactions are sent.                                        *)
LEMMA ProcUpdate ==
  ASSUME ChainOK, ProcsOK, NEW i \in Instances, NEW p,
         ProcOK(p, Len(txs')), proc' = [proc EXCEPT ![i] = p],
         Len(txs') \in Nat, Len(txs) <= Len(txs'), faults' \in Nat
  PROVE  ProcsOK'
<1>1. proc' = [j \in Instances |-> IF j = i THEN p ELSE proc[j]]
  BY DEF ProcsOK
<1>2. ASSUME NEW j \in Instances PROVE ProcOK(proc'[j], Len(txs'))
  <2>1. CASE j = i
    BY <1>1, <2>1
  <2>2. CASE j # i
    <3>1. ProcOK(proc[j], Len(txs)) /\ proc'[j] = proc[j]
      BY <1>1, <2>2 DEF ProcsOK
    <3>2. Len(txs) \in Nat
      BY DEF ChainOK
    <3>3. 1 .. Len(txs) \subseteq 1 .. Len(txs')
      BY <3>2
    <3> QED BY <3>1, <3>3 DEF ProcOK
  <2> QED BY <2>1, <2>2
<1> QED BY <1>1, <1>2 DEF ProcsOK

LEMMA ProcsGrow ==
  ASSUME ChainOK, ProcsOK, UNCHANGED <<proc, faults>>,
         Len(txs') \in Nat, Len(txs) <= Len(txs')
  PROVE  ProcsOK'
<1>1. ASSUME NEW j \in Instances PROVE ProcOK(proc[j], Len(txs'))
  <2>1. ProcOK(proc[j], Len(txs))
    BY DEF ProcsOK
  <2>2. Len(txs) \in Nat
    BY DEF ChainOK
  <2>3. 1 .. Len(txs) \subseteq 1 .. Len(txs')
    BY <2>2
  <2> QED BY <2>1, <2>3 DEF ProcOK
<1> QED BY <1>1 DEF ProcsOK

LEMMA ChainStutter == ChainOK /\ UNCHANGED <<chainVars, now>> => ChainOK'
BY DEF ChainOK, chainVars

LEMMA DatabaseStutter ==
  ASSUME DatabaseOK, ChainOK, UNCHANGED dbVars, Len(txs') \in Nat, Len(txs) <= Len(txs')
  PROVE  DatabaseOK'
<1>1. Len(txs) \in Nat
  BY DEF ChainOK
<1>2. \A o \in Orders : req[o].hash \in Nat
  BY DEF DatabaseOK, Requests
<1> QED BY <1>1, <1>2 DEF DatabaseOK, dbVars

LEMMA IdleOK == \A n : ProcOK(Idle, n)
BY DEF ProcOK, Idle, Steps

(* Recording an error changes the text of one row. *)
LEMMA RecordErrorType ==
  ASSUME DatabaseOK, NEW o \in Orders,
         NEW why \in RefusalNames \cup {"none", "other"}, RecordError(o, why)
  PROVE  /\ req' \in [Orders -> Requests]
         /\ \A x \in Orders : req'[x].hash = req[x].hash
BY DEF DatabaseOK, Requests, RecordError

LEMMA CreateLockType ==
  ASSUME TypeOK, NEW i \in Instances, NEW o \in Orders, CreateLock(i, o)
  PROVE  TypeOK'
<1> USE DEF TypeOK
<1>1. CapState \in CapStates /\ chain.nonce \in Nat
  BY CapStateType DEF ChainOK
<1>2. ProcOK([pc |-> "create", order |-> o, nonce |-> chain.nonce, cap |-> CapState], Len(txs'))
  BY <1>1 DEF ProcOK, Steps
<1>3. UNCHANGED <<dbVars, chainVars, now, faults>>
  BY DEF CreateLock
<1>4. /\ Len(txs') \in Nat /\ Len(txs') = Len(txs) /\ Len(txs) <= Len(txs')
      /\ faults' \in Nat
  BY <1>3 DEF chainVars, ChainOK, ProcsOK
<1>5. ProcsOK'
  BY <1>2, <1>4, ProcUpdate DEF CreateLock
<1>6. DatabaseOK' /\ ChainOK'
  BY <1>3, <1>4, DatabaseStutter, ChainStutter
<1> QED BY <1>5, <1>6

LEMMA CreateCommitType ==
  ASSUME TypeOK, NEW i \in Instances, CreateCommit(i)
  PROVE  TypeOK'
<1> USE DEF TypeOK
<1> DEFINE o     == proc[i].order
           split == DecideSplit(proc[i].cap, Deposit[o], {})
<1>1. o \in Orders /\ proc[i].cap \in CapStates /\ proc[i].nonce \in Nat
  BY DEF CreateCommit, ProcsOK, ProcOK
<1>2. split \in [mint : Nat, excess : Nat] /\ split.excess <= Deposit[o]
  BY <1>1, DecisionType
<1>3. UNCHANGED <<chainVars, now, faults>>
  BY DEF CreateCommit
<1>4. /\ Len(txs') \in Nat /\ Len(txs') = Len(txs) /\ Len(txs) <= Len(txs')
      /\ faults' \in Nat
  BY <1>3 DEF chainVars, ChainOK, ProcsOK
<1>5. /\ req' = [req EXCEPT ![o] =
                      IF split.mint > 0
                      THEN [NoRequest EXCEPT !.amount = split.mint,
                                             !.deadline = now + MintDeadline,
                                             !.nonce = proc[i].nonce]
                      ELSE @]
      /\ order' = [order EXCEPT ![o] = IF split.mint > 0 THEN "MINT_AUTH_CREATED"
                                                         ELSE "REFUNDED"]
      /\ refund' = [refund EXCEPT ![o] = RefundRow(split.excess)]
      /\ pooled' = pooled \cup {o}
      /\ proc' = [proc EXCEPT ![i] = Idle]
  BY DEF CreateCommit
<1> HIDE DEF split, o
<1>6. now + MintDeadline \in Nat /\ split.mint \in Nat /\ split.excess \in Nat
  BY <1>2, ExecutorAssumption DEF ChainOK
<1>7. [NoRequest EXCEPT !.amount = split.mint, !.deadline = now + MintDeadline,
                        !.nonce = proc[i].nonce] \in Requests
  BY <1>1, <1>6 DEF NoRequest, Requests
<1>8. req' \in [Orders -> Requests] /\ \A x \in Orders : req'[x].hash \in {0, req[x].hash}
  <2>1. req \in [Orders -> Requests]
    BY DEF DatabaseOK
  <2>2. [NoRequest EXCEPT !.amount = split.mint, !.deadline = now + MintDeadline,
                        !.nonce = proc[i].nonce].hash = 0
    BY DEF NoRequest
  <2> QED BY <1>1, <1>5, <1>7, <2>1, <2>2
<1>9. RefundRow(split.excess) \in Refunds /\ RefundRow(split.excess).excess = split.excess
  BY <1>6, RefundRowType
<1>10. refund' \in [Orders -> Refunds] /\ \A x \in Orders : refund'[x].excess <= Deposit[x]
  BY <1>1, <1>2, <1>5, <1>9 DEF DatabaseOK
<1>11. order' \in [Orders -> States] /\ pooled' \subseteq Orders
  BY <1>1, <1>5 DEF DatabaseOK, States
<1>12. \A x \in Orders : req'[x].hash <= Len(txs')
  <2>1. Len(txs) \in Nat /\ \A x \in Orders : req[x].hash <= Len(txs)
    BY DEF DatabaseOK, ChainOK
  <2> QED BY <1>4, <1>8, <2>1
<1>13. DatabaseOK'
  BY <1>8, <1>10, <1>11, <1>12 DEF DatabaseOK
<1>14. ProcsOK'
  BY <1>4, <1>5, IdleOK, ProcUpdate
<1> QED BY <1>3, <1>13, <1>14, ChainStutter

(* ProcUpdate and DatabaseOK when no transaction is sent. *)
LEMMA ProcStep ==
  ASSUME ChainOK, ProcsOK, NEW i \in Instances, NEW p, ProcOK(p, Len(txs)),
         proc' = [proc EXCEPT ![i] = p], UNCHANGED txs, faults' \in Nat
  PROVE  ProcsOK'
<1>1. Len(txs') \in Nat /\ Len(txs') = Len(txs) /\ Len(txs) <= Len(txs')
  BY DEF ChainOK
<1>2. ProcOK(p, Len(txs'))
  BY <1>1
<1> QED BY <1>1, <1>2, ProcUpdate

LEMMA ProcsStutter == ProcsOK /\ UNCHANGED <<proc, faults, txs>> => ProcsOK'
BY DEF ProcsOK

LEMMA DatabaseSame == DatabaseOK /\ UNCHANGED <<dbVars, txs>> => DatabaseOK'
BY DEF DatabaseOK, dbVars

LEMMA RequestUpdate ==
  ASSUME DatabaseOK, UNCHANGED <<refund, pooled, txs>>, order' \in [Orders -> States],
         req' \in [Orders -> Requests], \A x \in Orders : req'[x].hash <= Len(txs)
  PROVE  DatabaseOK'
BY DEF DatabaseOK

LEMMA ErrorUpdate ==
  ASSUME DatabaseOK, UNCHANGED <<order, refund, pooled, txs>>, NEW o \in Orders,
         NEW why \in RefusalNames \cup {"none", "other"}, RecordError(o, why)
  PROVE  DatabaseOK'
<1>1. /\ req' \in [Orders -> Requests]
      /\ \A x \in Orders : req'[x].hash = req[x].hash
  BY RecordErrorType
<1>2. order' \in [Orders -> States] /\ \A x \in Orders : req'[x].hash <= Len(txs)
  BY <1>1 DEF DatabaseOK
<1> QED BY <1>1, <1>2, RequestUpdate

LEMMA RegenSelectType ==
  ASSUME TypeOK, NEW i \in Instances, NEW o \in Orders, RegenSelect(i, o)
  PROVE  TypeOK'
<1> USE DEF TypeOK
<1>1. UNCHANGED <<order, refund, pooled, chainVars, txs, now, faults>> /\ faults' \in Nat
  BY DEF RegenSelect, chainVars, ProcsOK
<1>2. ChainOK'
  BY <1>1, ChainStutter
<1>3. CASE minted[o] > 0
  <2>1. RecordError(o, "AlreadyProcessed") /\ UNCHANGED proc
    BY <1>3 DEF RegenSelect
  <2>2. DatabaseOK'
    BY <1>1, <2>1, ErrorUpdate DEF RefusalNames
  <2> QED BY <1>1, <1>2, <2>1, <2>2, ProcsStutter
<1>4. CASE ~(minted[o] > 0)
  <2> DEFINE p == [pc |-> "regen", order |-> o, nonce |-> chain.nonce, legacy |-> req[o].legacy]
  <2>1. UNCHANGED dbVars /\ proc' = [proc EXCEPT ![i] = p]
    BY <1>1, <1>4 DEF RegenSelect, dbVars
  <2>2. ProcOK(p, Len(txs))
    BY DEF ProcOK, Steps, ChainOK, DatabaseOK, Requests
  <2> HIDE DEF p
  <2>3. ProcsOK'
    BY <1>1, <2>1, <2>2, ProcStep
  <2> QED BY <1>1, <1>2, <2>1, <2>3, DatabaseSame
<1> QED BY <1>3, <1>4

LEMMA RegenCommitType ==
  ASSUME TypeOK, NEW i \in Instances, RegenCommit(i)
  PROVE  TypeOK'
<1> USE DEF TypeOK
<1> DEFINE o == proc[i].order
<1>1. /\ UNCHANGED <<order, refund, pooled, chainVars, txs, now, faults>> /\ faults' \in Nat
      /\ proc' = [proc EXCEPT ![i] = Idle]
  BY DEF RegenCommit, chainVars, ProcsOK
<1>2. o \in Orders /\ proc[i].nonce \in Nat /\ now \in Nat
  BY DEF RegenCommit, ProcsOK, ProcOK, ChainOK
<1>3. req' = req \/ req' = [req EXCEPT ![o] = Reissued(req[o], now, proc[i].nonce)]
  BY DEF RegenCommit
<1>4. /\ Reissued(req[o], now, proc[i].nonce) \in Requests
      /\ Reissued(req[o], now, proc[i].nonce).hash = req[o].hash
  BY <1>2, ReissuedType DEF DatabaseOK
<1> HIDE DEF o
<1>5. req' \in [Orders -> Requests] /\ \A x \in Orders : req'[x].hash = req[x].hash
  BY <1>2, <1>3, <1>4 DEF DatabaseOK
<1>6. order' \in [Orders -> States] /\ \A x \in Orders : req'[x].hash <= Len(txs)
  BY <1>1, <1>5 DEF DatabaseOK
<1>7. DatabaseOK'
  BY <1>1, <1>5, <1>6, RequestUpdate
<1> QED BY <1>1, <1>7, ChainStutter, ProcStep, IdleOK

LEMMA ResplitLockType ==
  ASSUME TypeOK, NEW i \in Instances, ResplitLock(i)
  PROVE  TypeOK'
<1> USE DEF TypeOK
<1> DEFINE p == IF NeedsRegeneration(proc[i].order, proc[i].nonce)
                THEN [pc |-> "resplit", order |-> proc[i].order,
                      nonce |-> proc[i].nonce, cap |-> CapState]
                ELSE Idle
<1>1. /\ UNCHANGED <<dbVars, chainVars, txs, now, faults>> /\ faults' \in Nat
      /\ proc' = [proc EXCEPT ![i] = p]
  BY DEF ResplitLock, chainVars, ProcsOK
<1>2. proc[i].order \in Orders /\ proc[i].nonce \in Nat /\ CapState \in CapStates
  BY CapStateType DEF ResplitLock, ProcsOK, ProcOK
<1>3. ProcOK(p, Len(txs))
  BY <1>2 DEF ProcOK, Steps, Idle
<1> HIDE DEF p
<1> QED BY <1>1, <1>3, ProcStep, DatabaseSame, ChainStutter

LEMMA ResplitCommitType ==
  ASSUME TypeOK, NEW i \in Instances, ResplitCommit(i)
  PROVE  TypeOK'
<1> USE DEF TypeOK
<1> DEFINE o     == proc[i].order
           split == DecideSplit(proc[i].cap, Deposit[o], {o})
           row   == [Reissued(req[o], proc[i].cap.time, proc[i].nonce)
                       EXCEPT !.amount = split.mint, !.legacy = FALSE]
           back  == IF refund[o].status = "none" THEN RefundRow(split.excess) ELSE refund[o]
<1>1. /\ UNCHANGED <<order, pooled, chainVars, txs, now, faults>> /\ faults' \in Nat
      /\ proc' = [proc EXCEPT ![i] = Idle]
  BY DEF ResplitCommit, chainVars, ProcsOK
<1>2. o \in Orders /\ proc[i].cap \in CapStates /\ proc[i].nonce \in Nat
  BY DEF ResplitCommit, ProcsOK, ProcOK
<1>3. split \in [mint : Nat, excess : Nat] /\ split.excess <= Deposit[o]
  BY <1>2, DecisionType
<1>4. \/ UNCHANGED <<req, refund>>
      \/ req' = [req EXCEPT ![o] = row] /\ refund' = [refund EXCEPT ![o] = back]
  BY DEF ResplitCommit
<1>5. row \in Requests /\ row.hash = req[o].hash
  <2>1. proc[i].cap.time \in Nat /\ req[o] \in Requests
    BY <1>2 DEF CapStates, DatabaseOK
  <2>2. /\ Reissued(req[o], proc[i].cap.time, proc[i].nonce) \in Requests
        /\ Reissued(req[o], proc[i].cap.time, proc[i].nonce).hash = req[o].hash
    BY <1>2, <2>1, ReissuedType
  <2> HIDE DEF split
  <2>3. split.mint \in Nat
    BY <1>3
  <2> QED BY <2>2, <2>3 DEF Requests
<1>6. back \in Refunds /\ back.excess <= Deposit[o]
  <2> HIDE DEF split
  <2>1. RefundRow(split.excess) \in Refunds /\ RefundRow(split.excess).excess <= Deposit[o]
    BY <1>3, RefundRowType
  <2> QED BY <1>2, <2>1 DEF DatabaseOK
<1> HIDE DEF o, split, row, back
<1>7. req' \in [Orders -> Requests] /\ \A x \in Orders : req'[x].hash = req[x].hash
  BY <1>2, <1>4, <1>5 DEF DatabaseOK
<1>8. refund' \in [Orders -> Refunds] /\ \A x \in Orders : refund'[x].excess <= Deposit[x]
  BY <1>2, <1>4, <1>6 DEF DatabaseOK
<1>9. DatabaseOK'
  BY <1>1, <1>7, <1>8 DEF DatabaseOK
<1> QED BY <1>1, <1>9, ChainStutter, ProcStep, IdleOK

LEMMA CollectSignaturesType ==
  ASSUME TypeOK, NEW o \in Orders, CollectSignatures(o)
  PROVE  TypeOK'
<1> USE DEF TypeOK
<1>1. UNCHANGED <<order, refund, pooled, chainVars, txs, now, proc, faults>>
  BY DEF CollectSignatures, chainVars
<1>2. req' \in [Orders -> Requests] /\ \A x \in Orders : req'[x].hash = req[x].hash
  BY DEF CollectSignatures, DatabaseOK, Requests
<1>3. order' \in [Orders -> States] /\ \A x \in Orders : req'[x].hash <= Len(txs)
  BY <1>1, <1>2 DEF DatabaseOK
<1> QED BY <1>1, <1>2, <1>3, RequestUpdate, ChainStutter, ProcsStutter

LEMMA SubmitSelectType ==
  ASSUME TypeOK, NEW i \in Instances, NEW o \in Orders, SubmitSelect(i, o)
  PROVE  TypeOK'
<1> USE DEF TypeOK
<1> DEFINE p == [pc |-> "simulate", order |-> o, amount |-> req[o].amount,
                 deadline |-> req[o].deadline, nonce |-> req[o].nonce]
<1>1. /\ UNCHANGED <<dbVars, chainVars, txs, now, faults>> /\ faults' \in Nat
      /\ proc' = [proc EXCEPT ![i] = p]
  BY DEF SubmitSelect, chainVars, ProcsOK
<1>2. ProcOK(p, Len(txs))
  BY DEF ProcOK, Steps, DatabaseOK, Requests
<1> HIDE DEF p
<1> QED BY <1>1, <1>2, ProcStep, DatabaseSame, ChainStutter

LEMMA SimulateType ==
  ASSUME TypeOK, NEW i \in Instances, Simulate(i)
  PROVE  TypeOK'
<1> USE DEF TypeOK
<1> DEFINE p == [pc |-> "send", order |-> proc[i].order, amount |-> proc[i].amount,
                 deadline |-> proc[i].deadline, nonce |-> proc[i].nonce]
<1>1. UNCHANGED <<order, refund, pooled, chainVars, txs, now, faults>> /\ faults' \in Nat
  BY DEF Simulate, chainVars, ProcsOK
<1>2. /\ proc[i].order \in Orders /\ i \in DOMAIN proc
      /\ {proc[i].amount, proc[i].deadline, proc[i].nonce} \subseteq Nat
  BY DEF Simulate, ProcsOK, ProcOK
<1>3. CASE Refusals(proc[i]) = {}
  <2>1. UNCHANGED dbVars /\ proc' = [proc EXCEPT ![i] = p]
    BY <1>1, <1>2, <1>3 DEF Simulate, dbVars
  <2>2. ProcOK(p, Len(txs))
    BY <1>2 DEF ProcOK, Steps
  <2> HIDE DEF p
  <2> QED BY <1>1, <2>1, <2>2, ProcStep, DatabaseSame, ChainStutter
<1>4. CASE Refusals(proc[i]) # {}
  <2>1. Refusals(proc[i]) \subseteq RefusalNames
    BY DEF Refusals, RefusalNames
  <2>2. PICK why \in RefusalNames : RecordError(proc[i].order, why)
    BY <1>4, <2>1 DEF Simulate
  <2>3. proc' = [proc EXCEPT ![i] = Idle]
    BY <1>4 DEF Simulate
  <2>4. DatabaseOK'
    BY <1>1, <1>2, <2>2, ErrorUpdate
  <2> QED BY <1>1, <2>3, <2>4, ChainStutter, ProcStep, IdleOK
<1> QED BY <1>3, <1>4

LEMMA SendType ==
  ASSUME TypeOK, NEW i \in Instances, Send(i)
  PROVE  TypeOK'
<1> USE DEF TypeOK
<1> DEFINE p == [pc |-> "record", order |-> proc[i].order, tx |-> Len(txs) + 1]
<1>1. /\ UNCHANGED <<dbVars, chain, minted, mined, now, faults>> /\ faults' \in Nat
      /\ txs' = Append(txs, SentBy(i)) /\ proc' = [proc EXCEPT ![i] = p]
  BY DEF Send, SentBy, ProcsOK
<1>2. SentBy(i) \in Transactions
  BY SentByType DEF Send
<1>3. txs' \in Seq(Transactions) /\ Len(txs') = Len(txs) + 1
  BY <1>1, <1>2, AppendType
<1>4. Len(txs) \in Nat
  BY DEF ChainOK
<1>5. /\ Len(txs') \in Nat /\ Len(txs) <= Len(txs') /\ Len(txs) + 1 \in 1 .. Len(txs')
      /\ 0 .. Len(txs) \subseteq 0 .. Len(txs')
  BY <1>3, <1>4
<1>6. ProcOK(p, Len(txs'))
  <2>1. proc[i].order \in Orders
    BY DEF Send, ProcsOK, ProcOK
  <2> QED BY <1>5, <2>1 DEF ProcOK, Steps
<1>7. ChainOK'
  BY <1>1, <1>3, <1>5 DEF ChainOK
<1> HIDE DEF p
<1>8. ProcsOK'
  BY <1>1, <1>5, <1>6, ProcUpdate
<1>9. DatabaseOK'
  BY <1>1, <1>5, DatabaseStutter
<1> QED BY <1>7, <1>8, <1>9

LEMMA RecordSubmissionType ==
  ASSUME TypeOK, NEW i \in Instances, RecordSubmission(i)
  PROVE  TypeOK'
<1> USE DEF TypeOK
<1> DEFINE o == proc[i].order
<1>1. /\ UNCHANGED <<refund, pooled, chainVars, txs, now, faults>> /\ faults' \in Nat
      /\ proc' = [proc EXCEPT ![i] = Idle]
  BY DEF RecordSubmission, chainVars, ProcsOK
<1>2. o \in Orders /\ proc[i].tx \in Nat /\ proc[i].tx <= Len(txs)
  BY DEF RecordSubmission, ProcsOK, ProcOK, ChainOK
<1>3. CASE UNCHANGED <<req, order>>
  <2>1. UNCHANGED dbVars
    BY <1>1, <1>3 DEF dbVars
  <2> QED BY <1>1, <2>1, DatabaseSame, ChainStutter, ProcStep, IdleOK
<1>4. CASE /\ req' = [req EXCEPT ![o].hash = proc[i].tx, ![o].error = "none"]
           /\ order' = [order EXCEPT ![o] = "MINT_SUBMITTED"]
  <2> DEFINE t == proc[i].tx
  <2>1. req' = [req EXCEPT ![o] = [req[o] EXCEPT !.hash = t, !.error = "none"]]
    BY <1>2, <1>4 DEF DatabaseOK
  <2> HIDE DEF o
  <2>2. [req[o] EXCEPT !.hash = t, !.error = "none"] \in Requests
    BY <1>2 DEF DatabaseOK, Requests
  <2>3. [req[o] EXCEPT !.hash = t, !.error = "none"].hash = t
    BY <1>2 DEF DatabaseOK, Requests
  <2> HIDE DEF t
  <2>4. req' \in [Orders -> Requests] /\ \A x \in Orders : req'[x].hash \in {t, req[x].hash}
    BY <1>2, <2>1, <2>2, <2>3 DEF DatabaseOK
  <2>5. \A x \in Orders : req'[x].hash <= Len(txs)
    BY <1>2, <2>4 DEF DatabaseOK, t
  <2>6. order' \in [Orders -> States]
    BY <1>4 DEF DatabaseOK, States
  <2>7. DatabaseOK'
    BY <1>1, <2>4, <2>5, <2>6, RequestUpdate
  <2> QED BY <1>1, <2>7, ChainStutter, ProcStep, IdleOK
<1> QED BY <1>3, <1>4 DEF RecordSubmission

LEMMA SubmitThrowsType ==
  ASSUME TypeOK, NEW i \in Instances, SubmitThrows(i)
  PROVE  TypeOK'
<1> USE DEF TypeOK
<1>1. /\ UNCHANGED <<order, refund, pooled, chainVars, txs, now>> /\ faults' \in Nat
      /\ proc' = [proc EXCEPT ![i] = Idle] /\ RecordError(proc[i].order, "other")
  BY DEF SubmitThrows, chainVars, ProcsOK
<1>2. proc[i].order \in Orders
  BY DEF SubmitThrows, ProcsOK, ProcOK
<1>3. DatabaseOK'
  BY <1>1, <1>2, ErrorUpdate
<1> QED BY <1>1, <1>3, ChainStutter, ProcStep, IdleOK

LEMMA ConfirmMintType ==
  ASSUME TypeOK, NEW i \in Instances, NEW o \in Orders, ConfirmMint(i, o)
  PROVE  TypeOK'
<1> USE DEF TypeOK
<1> DEFINE p == [pc |-> "complete", order |-> o]
<1>1. /\ UNCHANGED <<req, refund, pooled, chainVars, txs, now, faults>> /\ faults' \in Nat
      /\ proc' = [proc EXCEPT ![i] = p] \/ UNCHANGED proc
  BY DEF ConfirmMint, chainVars, ProcsOK
<1>2. order' \in [Orders -> States]
  BY DEF ConfirmMint, DatabaseOK, States
<1>3. DatabaseOK'
  BY <1>1, <1>2 DEF DatabaseOK
<1>4. ProcOK(p, Len(txs))
  BY DEF ProcOK, Steps
<1> HIDE DEF p
<1> QED BY <1>1, <1>3, <1>4, ChainStutter, ProcStep, ProcsStutter

LEMMA CompleteMintType ==
  ASSUME TypeOK, NEW i \in Instances, CompleteMint(i)
  PROVE  TypeOK'
<1> USE DEF TypeOK
<1>1. /\ UNCHANGED <<req, refund, pooled, chainVars, txs, now, faults>> /\ faults' \in Nat
      /\ proc' = [proc EXCEPT ![i] = Idle]
  BY DEF CompleteMint, chainVars, ProcsOK
<1>2. order' \in [Orders -> States]
  BY DEF CompleteMint, DatabaseOK, States
<1>3. DatabaseOK'
  BY <1>1, <1>2 DEF DatabaseOK
<1> QED BY <1>1, <1>3, ChainStutter, ProcStep, IdleOK

LEMMA CrashType ==
  ASSUME TypeOK, NEW i \in Instances, Crash(i)
  PROVE  TypeOK'
<1> USE DEF TypeOK
<1>1. /\ UNCHANGED <<dbVars, chainVars, txs, now>> /\ faults' \in Nat
      /\ proc' = [proc EXCEPT ![i] = Idle]
  BY DEF Crash, chainVars, ProcsOK
<1> QED BY <1>1, DatabaseSame, ChainStutter, ProcStep, IdleOK

LEMMA MineNextType ==
  ASSUME TypeOK, MineNext
  PROVE  TypeOK'
<1> USE DEF TypeOK
<1>1. UNCHANGED <<dbVars, now, proc, faults>>
  BY DEF MineNext
<1>2. /\ mined + 1 \in 1 .. Len(txs)
      /\ txs' \in Seq(Transactions)
      /\ Len(txs') = Len(txs)
      /\ mined' = mined + 1
      /\ chain' \in [minted : Nat, dayStart : Nat, supply : Nat, nonce : Nat]
      /\ minted' \in [Orders -> Nat]
  BY MineType
<1>3. Len(txs') \in Nat /\ Len(txs) <= Len(txs') /\ mined + 1 \in 0 .. Len(txs')
  BY <1>2 DEF ChainOK
<1>4. ChainOK'
  BY <1>1, <1>2, <1>3 DEF ChainOK
<1> QED BY <1>1, <1>3, <1>4, DatabaseStutter, ProcsGrow

LEMMA EnvironmentType ==
  ASSUME TypeOK, Burn \/ BumpNonce \/ Tick
  PROVE  TypeOK'
<1> USE DEF TypeOK
<1>1. UNCHANGED <<dbVars, minted, txs, mined, proc, faults>>
  BY DEF Burn, BumpNonce, Tick, chainVars
<1>2. chain' \in [minted : Nat, dayStart : Nat, supply : Nat, nonce : Nat] /\ now' \in Nat
  <2>1. CASE Burn
    <3>1. PICK a \in 1 .. chain.supply : chain' = [chain EXCEPT !.supply = chain.supply - a]
      BY <2>1 DEF Burn
    <3>2. chain.supply - a \in Nat
      BY DEF ChainOK
    <3> QED BY <2>1, <3>1, <3>2 DEF Burn, ChainOK
  <2>2. CASE BumpNonce
    BY <2>2 DEF BumpNonce, ChainOK
  <2>3. CASE Tick
    BY <2>3 DEF Tick, ChainOK, chainVars
  <2> QED BY <2>1, <2>2, <2>3
<1>3. ChainOK'
  BY <1>1, <1>2 DEF ChainOK
<1> QED BY <1>1, <1>3, DatabaseSame, ProcsStutter

LEMMA TypeNext == TypeOK /\ [Next]_vars => TypeOK'
<1> SUFFICES ASSUME TypeOK, [Next]_vars PROVE TypeOK'
  OBVIOUS
<1>1. ASSUME NEW i \in Instances, NEW o \in Orders,
             \/ CreateLock(i, o) \/ RegenSelect(i, o)
             \/ SubmitSelect(i, o) \/ ConfirmMint(i, o)
      PROVE  TypeOK'
  BY <1>1, CreateLockType, RegenSelectType, SubmitSelectType, ConfirmMintType
<1>2. ASSUME NEW i \in Instances, Work(i) PROVE TypeOK'
  BY <1>2, CreateCommitType, RegenCommitType, ResplitLockType, ResplitCommitType,
     SimulateType, SendType, RecordSubmissionType, CompleteMintType DEF Work
<1>3. ASSUME NEW i \in Instances, SubmitThrows(i) \/ Crash(i) PROVE TypeOK'
  BY <1>3, SubmitThrowsType, CrashType
<1>4. ASSUME NEW o \in Orders, CollectSignatures(o) PROVE TypeOK'
  BY <1>4, CollectSignaturesType
<1>5. ASSUME MineNext \/ Burn \/ BumpNonce \/ Tick PROVE TypeOK'
  BY <1>5, MineNextType, EnvironmentType
<1>6. CASE UNCHANGED vars
  BY <1>6, DatabaseSame, ChainStutter, ProcsStutter DEF vars, chainVars, TypeOK
<1> QED BY <1>1, <1>2, <1>3, <1>4, <1>5, <1>6 DEF Next

(* Every variable of the mint executor keeps its type, a refund never      *)
(* exceeds its deposit and a recorded hash names a transaction sent, for   *)
(* any number of instances and orders and whatever crashes.                *)
THEOREM TypeCorrect == Spec => []TypeOK
<1>1. Init => TypeOK
  BY TypeInit
<1>2. TypeOK /\ [Next]_vars => TypeOK'
  BY TypeNext
<1> QED BY <1>1, <1>2, PTL DEF Spec

-------------------------------------------------------------------------------
(***************************************************************************)
(* Nothing is paid twice: SplitInv is an invariant of MintExecutor for any *)
(* number of instances when no authorization predates the cap split, and   *)
(* so it implements DepositLedger and follows the table of transitions.    *)
(***************************************************************************)

-------------------------------------------------------------------------------
(* What SplitInv reads of the database and the chain is left alone. *)
KeepsRows ==
  /\ UNCHANGED <<order, refund, pooled, minted, txs>>
  /\ \A o \in Orders : /\ req'[o].amount = req[o].amount
                       /\ req'[o].legacy = req[o].legacy
                       /\ req'[o].hash = req[o].hash

LEMMA SentType ==
  ASSUME TypeOK, NEW k \in 1 .. Len(txs)
  PROVE  txs[k].order \in Orders /\ txs[k].amount \in Nat
<1>1. txs \in Seq(Transactions)
  BY DEF TypeOK, ChainOK
<1>2. txs[k] \in Transactions
  BY <1>1
<1> QED BY <1>2 DEF Transactions

LEMMA KeepsRowsRows ==
  ASSUME SplitInv, KeepsRows
  PROVE  /\ \A o \in Orders : RowInv(o)'
         /\ \A k \in 1 .. Len(txs') : TxInv(k)'
<1>1. ASSUME NEW o \in Orders PROVE RowInv(o)'
  <2>1. RowInv(o)
    BY DEF SplitInv
  <2>2. /\ order' = order /\ refund' = refund /\ pooled' = pooled
        /\ minted' = minted /\ txs' = txs
        /\ req'[o].amount = req[o].amount
        /\ req'[o].legacy = req[o].legacy
        /\ req'[o].hash = req[o].hash
    BY DEF KeepsRows
  <2> QED BY <2>1, <2>2 DEF RowInv, Decided
<1>2. ASSUME NEW k \in 1 .. Len(txs') PROVE TxInv(k)'
  <2>1. txs' = txs /\ k \in 1 .. Len(txs) /\ TxInv(k)
    BY DEF KeepsRows, SplitInv
  <2>2. txs[k].order \in Orders
    BY <2>1, SentType DEF SplitInv
  <2> QED BY <2>1, <2>2 DEF KeepsRows, TxInv, Decided
<1> QED BY <1>1, <1>2

LEMMA KeepsRowsJob ==
  ASSUME SplitInv, KeepsRows, NEW j \in Instances, proc'[j] = proc[j]
  PROVE  JobInv(j)'
<1>1. JobInv(j) /\ ProcOK(proc[j], Len(txs))
  BY DEF SplitInv, TypeOK, ProcsOK
<1>2. proc[j].pc # "idle" => proc[j].order \in Orders
  BY <1>1 DEF ProcOK
<1> QED BY <1>1, <1>2 DEF KeepsRows, JobInv, Decided

LEMMA NoNewCreator ==
  ASSUME SplitInv, NEW i \in Instances, NEW p, p.pc # "create",
         proc' = [proc EXCEPT ![i] = p]
  PROVE  OneCreator'
BY DEF SplitInv, OneCreator, TypeOK, ProcsOK

(* An instance moves on, or nobody does, and the rows stay. *)
LEMMA JobStep ==
  ASSUME SplitInv, TypeOK', KeepsRows, NEW i \in Instances, NEW p, p.pc # "create",
         proc' = [proc EXCEPT ![i] = p], JobInv(i)'
  PROVE  SplitInv'
<1>1. \A j \in Instances : JobInv(j)'
  <2> SUFFICES ASSUME NEW j \in Instances, j # i PROVE JobInv(j)'
    OBVIOUS
  <2>1. proc'[j] = proc[j]
    BY DEF SplitInv, TypeOK, ProcsOK
  <2> QED BY <2>1, KeepsRowsJob
<1>2. OneCreator'
  BY NoNewCreator
<1> QED BY <1>1, <1>2, KeepsRowsRows DEF SplitInv

LEMMA RowsStep ==
  ASSUME SplitInv, TypeOK', KeepsRows, UNCHANGED proc
  PROVE  SplitInv'
<1>1. \A j \in Instances : JobInv(j)'
  BY KeepsRowsJob
<1>2. OneCreator'
  BY DEF SplitInv, OneCreator
<1> QED BY <1>1, <1>2, KeepsRowsRows DEF SplitInv

LEMMA IdleJob ==
  ASSUME NEW i \in Instances, proc'[i] = Idle
  PROVE  JobInv(i)'
BY DEF JobInv, Idle

LEMMA ProcAt ==
  ASSUME TypeOK, NEW i \in Instances, NEW p, proc' = [proc EXCEPT ![i] = p]
  PROVE  proc'[i] = p /\ \A j \in Instances : j # i => proc'[j] = proc[j]
BY DEF TypeOK, ProcsOK

(* What recording an error, or reissuing a row, keeps. *)
LEMMA ErrorKeeps ==
  ASSUME SplitInv, NEW o \in Orders, NEW why, RecordError(o, why),
         UNCHANGED <<order, refund, pooled, minted, txs>>
  PROVE  KeepsRows
BY DEF SplitInv, TypeOK, DatabaseOK, Requests, RecordError, KeepsRows

LEMMA SameKeeps ==
  ASSUME UNCHANGED <<dbVars, minted, txs>>
  PROVE  KeepsRows
BY DEF KeepsRows, dbVars

-------------------------------------------------------------------------------
(* One lemma per action. *)

LEMMA CreateLockSplit ==
  ASSUME SplitInv, TypeOK', NEW i \in Instances, NEW o \in Orders, CreateLock(i, o)
  PROVE  SplitInv'
<1> DEFINE p == [pc |-> "create", order |-> o, nonce |-> chain.nonce, cap |-> CapState]
<1>1. UNCHANGED <<dbVars, minted, txs>> /\ proc' = [proc EXCEPT ![i] = p]
  BY DEF CreateLock, chainVars
<1>2. KeepsRows
  BY <1>1, SameKeeps
<1>3. p.pc = "create" /\ p.order = o
  OBVIOUS
<1> HIDE DEF p
<1>4. proc'[i] = p /\ \A j \in Instances : j # i => proc'[j] = proc[j]
  BY <1>1, ProcAt DEF SplitInv
<1>5. JobInv(i)'
  BY <1>1, <1>3, <1>4 DEF JobInv, CreateLock, dbVars
<1>6. \A j \in Instances : JobInv(j)'
  BY <1>2, <1>4, <1>5, KeepsRowsJob
<1>7. OneCreator'
  BY <1>4 DEF OneCreator, CreateLock, CapacityLockFree
<1> QED BY <1>2, <1>6, <1>7, KeepsRowsRows DEF SplitInv

LEMMA RegenSelectSplit ==
  ASSUME SplitInv, TypeOK', NEW i \in Instances, NEW o \in Orders, RegenSelect(i, o)
  PROVE  SplitInv'
<1>1. UNCHANGED <<order, refund, pooled, minted, txs>>
  BY DEF RegenSelect, chainVars
<1>2. CASE minted[o] > 0
  <2>1. KeepsRows /\ UNCHANGED proc
    BY <1>1, <1>2, ErrorKeeps DEF RegenSelect
  <2> QED BY <2>1, RowsStep
<1>3. CASE ~(minted[o] > 0)
  <2> DEFINE p == [pc |-> "regen", order |-> o, nonce |-> chain.nonce, legacy |-> req[o].legacy]
  <2>1. UNCHANGED dbVars /\ proc' = [proc EXCEPT ![i] = p]
    BY <1>1, <1>3 DEF RegenSelect, dbVars
  <2>2. KeepsRows
    BY <1>1, <2>1, SameKeeps
  <2>3. p.pc = "regen" /\ ~p.legacy
    BY DEF SplitInv, RowInv
  <2> HIDE DEF p
  <2>4. proc'[i] = p
    BY <2>1, ProcAt DEF SplitInv
  <2>5. JobInv(i)'
    BY <2>3, <2>4 DEF JobInv
  <2> QED BY <2>1, <2>2, <2>3, <2>5, JobStep
<1> QED BY <1>2, <1>3

LEMMA RegenCommitSplit ==
  ASSUME SplitInv, TypeOK', NEW i \in Instances, RegenCommit(i)
  PROVE  SplitInv'
<1> DEFINE o == proc[i].order
<1>1. /\ UNCHANGED <<order, refund, pooled, minted, txs>>
      /\ proc' = [proc EXCEPT ![i] = Idle]
  BY DEF RegenCommit, chainVars
<1>2. o \in Orders /\ proc[i].nonce \in Nat /\ now \in Nat /\ req \in [Orders -> Requests]
  BY DEF RegenCommit, SplitInv, TypeOK, DatabaseOK, ProcsOK, ProcOK, ChainOK
<1>3. req' = req \/ req' = [req EXCEPT ![o] = Reissued(req[o], now, proc[i].nonce)]
  BY DEF RegenCommit
<1>4. /\ Reissued(req[o], now, proc[i].nonce).hash = req[o].hash
      /\ Reissued(req[o], now, proc[i].nonce).amount = req[o].amount
      /\ Reissued(req[o], now, proc[i].nonce).legacy = req[o].legacy
  BY <1>2, ReissuedType
<1> HIDE DEF o
<1>5. KeepsRows
  BY <1>1, <1>2, <1>3, <1>4 DEF KeepsRows
<1>6. proc'[i] = Idle /\ Idle.pc # "create"
  BY <1>1, ProcAt DEF SplitInv, Idle
<1> QED BY <1>1, <1>5, <1>6, IdleJob, JobStep

(* No row is split again. *)
LEMMA ResplitSplit ==
  ASSUME SplitInv, NEW i \in Instances, ResplitLock(i) \/ ResplitCommit(i)
  PROVE  FALSE
BY DEF SplitInv, JobInv, ResplitLock, ResplitCommit

LEMMA CollectSignaturesSplit ==
  ASSUME SplitInv, TypeOK', NEW o \in Orders, CollectSignatures(o)
  PROVE  SplitInv'
<1>1. KeepsRows /\ UNCHANGED proc
  BY DEF CollectSignatures, chainVars, KeepsRows, SplitInv, TypeOK, DatabaseOK, Requests
<1> QED BY <1>1, RowsStep

LEMMA SubmitSelectSplit ==
  ASSUME SplitInv, TypeOK', NEW i \in Instances, NEW o \in Orders, SubmitSelect(i, o)
  PROVE  SplitInv'
<1> DEFINE p == [pc |-> "simulate", order |-> o, amount |-> req[o].amount,
                 deadline |-> req[o].deadline, nonce |-> req[o].nonce]
<1>1. UNCHANGED <<dbVars, minted, txs>> /\ proc' = [proc EXCEPT ![i] = p]
  BY DEF SubmitSelect, chainVars
<1>2. KeepsRows
  BY <1>1, SameKeeps
<1>3. p.pc = "simulate" /\ p.order = o /\ p.amount = req[o].amount
  OBVIOUS
<1> HIDE DEF p
<1>4. proc'[i] = p
  BY <1>1, ProcAt DEF SplitInv
<1>5. JobInv(i)'
  BY <1>1, <1>3, <1>4 DEF JobInv, SubmitSelect, Decided, dbVars
<1> QED BY <1>1, <1>2, <1>3, <1>5, JobStep

LEMMA SimulateSplit ==
  ASSUME SplitInv, TypeOK', NEW i \in Instances, Simulate(i)
  PROVE  SplitInv'
<1> DEFINE p == [pc |-> "send", order |-> proc[i].order, amount |-> proc[i].amount,
                 deadline |-> proc[i].deadline, nonce |-> proc[i].nonce]
<1>1. UNCHANGED <<order, refund, pooled, minted, txs>>
  BY DEF Simulate, chainVars
<1>2. /\ proc[i].order \in Orders /\ i \in DOMAIN proc
      /\ Decided(proc[i].order) /\ proc[i].amount = req[proc[i].order].amount
  BY DEF Simulate, SplitInv, TypeOK, ProcsOK, ProcOK, JobInv
<1>3. CASE Refusals(proc[i]) = {}
  <2>1. UNCHANGED dbVars /\ proc' = [proc EXCEPT ![i] = p]
    BY <1>1, <1>2, <1>3 DEF Simulate, dbVars
  <2>2. KeepsRows
    BY <1>1, <2>1, SameKeeps
  <2>3. p.pc = "send" /\ p.order = proc[i].order /\ p.amount = proc[i].amount
    OBVIOUS
  <2> HIDE DEF p
  <2>4. proc'[i] = p
    BY <2>1, ProcAt DEF SplitInv
  <2>5. JobInv(i)'
    BY <1>2, <2>1, <2>3, <2>4 DEF JobInv, Decided, dbVars
  <2> QED BY <2>1, <2>2, <2>3, <2>5, JobStep
<1>4. CASE Refusals(proc[i]) # {}
  <2>1. KeepsRows /\ proc' = [proc EXCEPT ![i] = Idle]
    BY <1>1, <1>2, <1>4, ErrorKeeps DEF Simulate
  <2>2. proc'[i] = Idle /\ Idle.pc # "create"
    BY <2>1, ProcAt DEF SplitInv, Idle
  <2> QED BY <2>1, <2>2, IdleJob, JobStep
<1> QED BY <1>3, <1>4

LEMMA SubmitThrowsSplit ==
  ASSUME SplitInv, TypeOK', NEW i \in Instances, SubmitThrows(i)
  PROVE  SplitInv'
<1>1. proc[i].order \in Orders
  BY DEF SubmitThrows, SplitInv, TypeOK, ProcsOK, ProcOK
<1>2. KeepsRows /\ proc' = [proc EXCEPT ![i] = Idle]
  BY <1>1, ErrorKeeps DEF SubmitThrows, chainVars
<1>3. proc'[i] = Idle /\ Idle.pc # "create"
  BY <1>2, ProcAt DEF SplitInv, Idle
<1> QED BY <1>2, <1>3, IdleJob, JobStep

LEMMA CrashSplit ==
  ASSUME SplitInv, TypeOK', NEW i \in Instances, Crash(i)
  PROVE  SplitInv'
<1>1. KeepsRows /\ proc' = [proc EXCEPT ![i] = Idle]
  BY SameKeeps DEF Crash, chainVars
<1>2. proc'[i] = Idle /\ Idle.pc # "create"
  BY <1>1, ProcAt DEF SplitInv, Idle
<1> QED BY <1>1, <1>2, IdleJob, JobStep

LEMMA EnvironmentSplit ==
  ASSUME SplitInv, TypeOK', Burn \/ BumpNonce \/ Tick
  PROVE  SplitInv'
<1>1. KeepsRows /\ UNCHANGED proc
  BY SameKeeps DEF Burn, BumpNonce, Tick, chainVars
<1> QED BY <1>1, RowsStep
LEMMA SendSplit ==
  ASSUME SplitInv, TypeOK', NEW i \in Instances, Send(i)
  PROVE  SplitInv'
<1> DEFINE p == [pc |-> "record", order |-> proc[i].order, tx |-> Len(txs) + 1]
<1>1. /\ order' = order /\ req' = req /\ refund' = refund /\ pooled' = pooled
      /\ minted' = minted /\ txs' = Append(txs, SentBy(i))
      /\ proc' = [proc EXCEPT ![i] = p]
  BY DEF Send, SentBy, dbVars
<1>2. /\ proc[i].order \in Orders /\ Decided(proc[i].order)
      /\ proc[i].amount = req[proc[i].order].amount
      /\ SentBy(i) \in Transactions
  BY SentByType DEF Send, SplitInv, TypeOK, ProcsOK, ProcOK, JobInv
<1>3. /\ Len(txs') = Len(txs) + 1 /\ Len(txs) \in Nat
      /\ \A k \in 1 .. Len(txs) : txs'[k] = txs[k]
      /\ txs'[Len(txs) + 1] = SentBy(i)
  BY <1>1, <1>2, AppendType DEF SplitInv, TypeOK, ChainOK
<1>4. SentBy(i).order = proc[i].order /\ SentBy(i).amount = proc[i].amount
      /\ SentBy(i).outcome = "pending"
  BY DEF SentBy
<1>5. p.pc = "record" /\ p.order = proc[i].order /\ p.tx = Len(txs) + 1
  OBVIOUS
<1> HIDE DEF p
<1>6. proc'[i] = p /\ \A j \in Instances : j # i => proc'[j] = proc[j]
  BY <1>1, ProcAt DEF SplitInv
<1>7. ASSUME NEW o \in Orders PROVE RowInv(o)'
  <2>1. RowInv(o) /\ req[o].hash \in Nat /\ req[o].hash <= Len(txs)
    BY DEF SplitInv, TypeOK, DatabaseOK, Requests
  <2>2. req[o].hash # 0 => txs'[req[o].hash] = txs[req[o].hash]
    BY <1>3, <2>1
  <2> QED BY <1>1, <2>1, <2>2 DEF RowInv, Decided
<1>8. ASSUME NEW k \in 1 .. Len(txs') PROVE TxInv(k)'
  <2>1. CASE k = Len(txs) + 1
    BY <1>1, <1>2, <1>3, <1>4, <2>1 DEF TxInv, Decided
  <2>2. CASE k # Len(txs) + 1
    <3>1. k \in 1 .. Len(txs) /\ txs'[k] = txs[k]
      BY <1>3, <2>2
    <3>2. TxInv(k)
      BY <3>1 DEF SplitInv
    <3> QED BY <1>1, <3>1, <3>2 DEF TxInv, Decided
  <2> QED BY <2>1, <2>2
<1>9. ASSUME NEW j \in Instances PROVE JobInv(j)'
  <2>1. CASE j = i
    BY <1>1, <1>2, <1>3, <1>4, <1>5, <1>6, <2>1 DEF JobInv, Decided
  <2>2. CASE j # i
    <3>1. proc'[j] = proc[j] /\ JobInv(j) /\ ProcOK(proc[j], Len(txs))
      BY <1>6, <2>2 DEF SplitInv, TypeOK, ProcsOK
    <3>2. proc[j].pc = "record" => txs'[proc[j].tx] = txs[proc[j].tx]
      BY <1>3, <3>1 DEF ProcOK
    <3> QED BY <1>1, <3>1, <3>2 DEF JobInv, Decided
  <2> QED BY <2>1, <2>2
<1>10. OneCreator'
  BY <1>1, <1>5, NoNewCreator
<1> QED BY <1>7, <1>8, <1>9, <1>10 DEF SplitInv

(* An order that was decided stays decided: what the remaining steps of a  *)
(* mint need.                                                              *)
LEMMA OrderAdvances ==
  ASSUME SplitInv, TypeOK', UNCHANGED <<refund, pooled, minted, txs>>,
         NEW i \in Instances, NEW p, proc' = [proc EXCEPT ![i] = p],
         p.pc \in {"idle", "complete"},
         NEW o \in Orders, Decided(o), NEW s \in States, order' = [order EXCEPT ![o] = s],
         s \in {"MINT_SUBMITTED", "MINT_CONFIRMED", "COMPLETED", "FAILED"},
         s \in {"MINT_CONFIRMED", "COMPLETED"} => minted[o] = req[o].amount,
         \A x \in Orders : /\ req'[x].amount = req[x].amount
                           /\ req'[x].legacy = req[x].legacy
                           /\ \/ req'[x].hash = req[x].hash
                              \/ txs[req'[x].hash].order = x
  PROVE  SplitInv'
<1>1. order'[o] = s /\ \A x \in Orders : x # o => order'[x] = order[x]
  BY DEF SplitInv, TypeOK, DatabaseOK
<1>2. \A x \in Orders : Decided(x) <=> Decided(x)'
  BY <1>1 DEF Decided
<1>3. ASSUME NEW x \in Orders PROVE RowInv(x)'
  <2>1. RowInv(x)
    BY DEF SplitInv
  <2>2. CASE x = o
    BY <1>1, <1>2, <2>1, <2>2 DEF RowInv, Decided
  <2>3. CASE x # o
    BY <1>1, <1>2, <2>1, <2>3 DEF RowInv
  <2> QED BY <2>2, <2>3
<1>4. ASSUME NEW k \in 1 .. Len(txs') PROVE TxInv(k)'
  <2>1. k \in 1 .. Len(txs) /\ txs'[k] = txs[k] /\ TxInv(k)
    BY DEF SplitInv
  <2>2. txs[k].order \in Orders
    BY <2>1, SentType DEF SplitInv
  <2> QED BY <1>2, <2>1, <2>2 DEF TxInv, Decided
<1>5. ASSUME NEW j \in Instances PROVE JobInv(j)'
  <2>1. proc'[i] = p /\ (j # i => proc'[j] = proc[j])
    BY ProcAt DEF SplitInv
  <2>2. CASE j = i
    BY <2>1, <2>2 DEF JobInv
  <2>3. CASE j # i
    <3>1. proc'[j] = proc[j] /\ JobInv(j) /\ ProcOK(proc[j], Len(txs))
      BY <2>1, <2>3 DEF SplitInv, TypeOK, ProcsOK
    <3>2. proc[j].pc # "idle" => proc[j].order \in Orders
      BY <3>1 DEF ProcOK
    <3>3. proc[j].pc = "create" => proc[j].order # o
      BY <3>1 DEF JobInv, Decided
    <3> QED BY <1>1, <1>2, <3>1, <3>2, <3>3 DEF JobInv, Decided
  <2> QED BY <2>2, <2>3
<1>6. OneCreator'
  <2>1. p.pc # "create"
    OBVIOUS
  <2> QED BY <2>1, NoNewCreator
<1> QED BY <1>3, <1>4, <1>5, <1>6 DEF SplitInv
LEMMA RecordSubmissionSplit ==
  ASSUME SplitInv, TypeOK', NEW i \in Instances, RecordSubmission(i)
  PROVE  SplitInv'
<1> DEFINE o == proc[i].order
           t == proc[i].tx
<1>1. /\ UNCHANGED <<refund, pooled, minted, txs>>
      /\ proc' = [proc EXCEPT ![i] = Idle]
  BY DEF RecordSubmission, chainVars
<1>2. o \in Orders /\ Decided(o) /\ txs[t].order = o
  BY DEF RecordSubmission, SplitInv, TypeOK, ProcsOK, ProcOK, JobInv
<1>3. proc'[i] = Idle /\ Idle.pc = "idle"
  BY <1>1, ProcAt DEF SplitInv, Idle
<1>4. CASE UNCHANGED <<req, order>>
  <2>1. KeepsRows
    BY <1>1, <1>4, SameKeeps DEF dbVars
  <2> QED BY <1>1, <1>3, <2>1, IdleJob, JobStep
<1>5. CASE /\ req' = [req EXCEPT ![o].hash = t, ![o].error = "none"]
           /\ order' = [order EXCEPT ![o] = "MINT_SUBMITTED"]
  <2>1. req \in [Orders -> Requests]
    BY DEF SplitInv, TypeOK, DatabaseOK
  <2>2. \A x \in Orders : /\ req'[x].amount = req[x].amount
                          /\ req'[x].legacy = req[x].legacy
                          /\ req'[x].hash = req[x].hash \/ txs[req'[x].hash].order = x
    BY <1>2, <1>5, <2>1 DEF Requests
  <2>3. "MINT_SUBMITTED" \in States
    BY DEF States
  <2> HIDE DEF o, t
  <2> QED BY <1>1, <1>2, <1>3, <1>5, <2>2, <2>3, OrderAdvances
<1> QED BY <1>4, <1>5 DEF RecordSubmission

LEMMA ConfirmMintSplit ==
  ASSUME SplitInv, TypeOK', NEW i \in Instances, NEW o \in Orders, ConfirmMint(i, o)
  PROVE  SplitInv'
<1> DEFINE p == [pc |-> "complete", order |-> o]
<1>1. UNCHANGED <<req, refund, pooled, minted, txs>>
  BY DEF ConfirmMint, chainVars
<1>2. Decided(o) /\ req[o].hash \in 1 .. Len(txs) /\ RowInv(o) /\ TxInv(req[o].hash)
  <2>1. req[o].hash \in 1 .. mined /\ mined \in 0 .. Len(txs) /\ Len(txs) \in Nat
    BY DEF ConfirmMint, SplitInv, TypeOK, ChainOK
  <2>2. req[o].hash \in 1 .. Len(txs)
    BY <2>1
  <2> QED BY <2>2 DEF ConfirmMint, SplitInv, Decided
<1>3. {"MINT_CONFIRMED", "FAILED"} \subseteq States
  BY DEF States
<1>4. proc = [proc EXCEPT ![i] = proc[i]]
  BY DEF SplitInv, TypeOK, ProcsOK
<1>5. CASE txs[req[o].hash].outcome = "minted"
  <2>1. minted[o] = req[o].amount
    BY <1>2, <1>5 DEF RowInv, TxInv
  <2>2. order' = [order EXCEPT ![o] = "MINT_CONFIRMED"] /\ proc' = [proc EXCEPT ![i] = p]
    BY <1>5 DEF ConfirmMint
  <2>3. p.pc = "complete"
    OBVIOUS
  <2> HIDE DEF p
  <2> QED BY <1>1, <1>2, <1>3, <2>1, <2>2, <2>3, OrderAdvances
<1>6. CASE txs[req[o].hash].outcome # "minted"
  <2>1. /\ order' = [order EXCEPT ![o] = "FAILED"]
        /\ proc' = [proc EXCEPT ![i] = proc[i]]
        /\ proc[i].pc = "idle"
    BY <1>4, <1>6 DEF ConfirmMint
  <2> QED BY <1>1, <1>2, <1>3, <2>1, OrderAdvances
<1> QED BY <1>5, <1>6

LEMMA CompleteMintSplit ==
  ASSUME SplitInv, TypeOK', NEW i \in Instances, CompleteMint(i)
  PROVE  SplitInv'
<1> DEFINE o == proc[i].order
<1>1. UNCHANGED <<req, refund, pooled, minted, txs>> /\ proc' = [proc EXCEPT ![i] = Idle]
  BY DEF CompleteMint, chainVars
<1>2. o \in Orders /\ RowInv(o)
  BY DEF CompleteMint, SplitInv, TypeOK, ProcsOK, ProcOK
<1>3. proc'[i] = Idle /\ Idle.pc = "idle"
  BY <1>1, ProcAt DEF SplitInv, Idle
<1>4. CASE order[o] # "MINT_CONFIRMED"
  <2>1. KeepsRows
    BY <1>1, <1>4, SameKeeps DEF CompleteMint, dbVars
  <2> QED BY <1>1, <1>3, <2>1, IdleJob, JobStep
<1>5. CASE order[o] = "MINT_CONFIRMED"
  <2>1. order' = [order EXCEPT ![o] = "COMPLETED"]
    BY <1>5 DEF CompleteMint
  <2>2. Decided(o) /\ minted[o] = req[o].amount /\ "COMPLETED" \in States
    BY <1>2, <1>5 DEF RowInv, Decided, States
  <2> HIDE DEF o
  <2> QED BY <1>1, <1>2, <1>3, <2>1, <2>2, OrderAdvances
<1> QED BY <1>4, <1>5

(* The split itself: the one step that decides amounts. *)
LEMMA CreateCommitSplit ==
  ASSUME SplitInv, TypeOK', NEW i \in Instances, CreateCommit(i)
  PROVE  SplitInv'
<1> DEFINE o     == proc[i].order
           split == DecideSplit(proc[i].cap, Deposit[o], {})
           row   == IF split.mint > 0
                    THEN [NoRequest EXCEPT !.amount = split.mint,
                                           !.deadline = now + MintDeadline,
                                           !.nonce = proc[i].nonce]
                    ELSE req[o]
           s     == IF split.mint > 0 THEN "MINT_AUTH_CREATED" ELSE "REFUNDED"
<1>1. /\ UNCHANGED <<minted, txs>>
      /\ proc' = [proc EXCEPT ![i] = Idle]
      /\ req' = [req EXCEPT ![o] = row]
      /\ order' = [order EXCEPT ![o] = s]
      /\ refund' = [refund EXCEPT ![o] = RefundRow(split.excess)]
      /\ pooled' = pooled \cup {o}
  BY DEF CreateCommit, chainVars
<1>2. /\ o \in Orders /\ proc[i].cap \in CapStates
      /\ order[o] = "DEPOSIT_FINALIZED" /\ RowInv(o)
  BY DEF CreateCommit, SplitInv, TypeOK, ProcsOK, ProcOK, JobInv
<1>3. /\ split \in [mint : Nat, excess : Nat]
      /\ split.mint + split.excess = Deposit[o]
  BY <1>2, DecisionType DEF SplitInv
<1>4. RefundRow(split.excess).excess = split.excess
  BY <1>3, RefundRowType
<1>5. row.amount = split.mint /\ ~row.legacy /\ (row.hash # 0 => row = req[o])
  <2>1. req[o].amount = 0 /\ ~req[o].legacy
    <3>1. ~(req[o].amount > 0) /\ ~req[o].legacy
      BY <1>2 DEF RowInv, Decided
    <3>2. req[o].amount \in Nat
      BY <1>2 DEF SplitInv, TypeOK, DatabaseOK, Requests
    <3> QED BY <3>1, <3>2
  <2> HIDE DEF split
  <2>2. CASE split.mint > 0
    BY <2>2 DEF NoRequest
  <2>3. CASE split.mint = 0
    BY <2>1, <2>3
  <2> QED BY <1>3, <2>2, <2>3
<1>6. s \in {"MINT_AUTH_CREATED", "REFUNDED"} /\ (s = "MINT_AUTH_CREATED" <=> split.mint > 0)
  OBVIOUS
<1>7. minted[o] = 0
  <2>1. minted[o] \in {0, req[o].amount} /\ ~(req[o].amount > 0)
    BY <1>2 DEF RowInv, Decided
  <2>2. req[o].amount \in Nat
    BY <1>2 DEF SplitInv, TypeOK, DatabaseOK, Requests
  <2> QED BY <2>1, <2>2
<1>8. ~Decided(o)
  BY <1>2 DEF Decided
<1> HIDE DEF row, s, split, o
<1>9. /\ order'[o] = s /\ req'[o] = row /\ refund'[o] = RefundRow(split.excess)
      /\ \A x \in Orders : x # o => /\ order'[x] = order[x] /\ req'[x] = req[x]
                                    /\ refund'[x] = refund[x]
  BY <1>1, <1>2 DEF SplitInv, TypeOK, DatabaseOK
<1>10. ASSUME NEW x \in Orders PROVE RowInv(x)'
  <2>1. RowInv(x)
    BY DEF SplitInv
  <2>2. CASE x = o
    BY <1>1, <1>3, <1>4, <1>5, <1>6, <1>7, <1>9, <2>1, <2>2 DEF RowInv, Decided
  <2>3. CASE x # o
    BY <1>1, <1>9, <2>1, <2>3 DEF RowInv, Decided
  <2> QED BY <2>2, <2>3
<1>11. ASSUME NEW k \in 1 .. Len(txs') PROVE TxInv(k)'
  <2>1. k \in 1 .. Len(txs) /\ txs'[k] = txs[k] /\ TxInv(k)
    BY <1>1 DEF SplitInv
  <2>2. txs[k].order \in Orders /\ txs[k].order # o
    BY <1>8, <2>1, SentType DEF SplitInv, TxInv
  <2> QED BY <1>1, <1>9, <2>1, <2>2 DEF TxInv, Decided
<1>12. proc'[i] = Idle /\ \A j \in Instances : j # i => proc'[j] = proc[j]
  BY <1>1, ProcAt DEF SplitInv
<1>13. ASSUME NEW j \in Instances PROVE JobInv(j)'
  <2>1. CASE j = i
    BY <1>12, <2>1, IdleJob
  <2>2. CASE j # i
    <3>1. proc'[j] = proc[j] /\ JobInv(j) /\ ProcOK(proc[j], Len(txs))
      BY <1>12, <2>2 DEF SplitInv, TypeOK, ProcsOK
    <3>2. proc[j].pc # "create"
      BY <2>2 DEF SplitInv, OneCreator, CreateCommit
    <3>3. proc[j].pc # "idle" => proc[j].order \in Orders
      BY <3>1 DEF ProcOK
    <3>4. proc[j].pc \in {"simulate", "send", "record"} => proc[j].order # o
      BY <1>8, <3>1 DEF JobInv
    <3> QED BY <1>1, <1>9, <3>1, <3>2, <3>3, <3>4 DEF JobInv, Decided
  <2> QED BY <2>1, <2>2
<1>14. OneCreator'
  <2>1. Idle.pc # "create"
    BY DEF Idle
  <2> QED BY <1>1, <2>1, NoNewCreator
<1> QED BY <1>10, <1>11, <1>13, <1>14 DEF SplitInv

(* A block mints the decided amount of a deposit not yet minted. *)
LEMMA MineNextSplit ==
  ASSUME SplitInv, TypeOK', MineNext
  PROVE  SplitInv'
<1> DEFINE k0 == mined + 1
           o  == txs[k0].order
<1>1. UNCHANGED <<order, req, refund, pooled, proc>>
  BY DEF MineNext, dbVars
<1>2. /\ k0 \in 1 .. Len(txs) /\ Len(txs') = Len(txs)
      /\ \A k \in 1 .. Len(txs) :
           /\ txs'[k].order = txs[k].order
           /\ txs'[k].amount = txs[k].amount
           /\ k # k0 => txs'[k] = txs[k]
  BY MineType DEF SplitInv
<1>3. o \in Orders /\ TxInv(k0) /\ txs \in Seq(Transactions) /\ minted \in [Orders -> Nat]
  BY <1>2, SentType DEF SplitInv, TypeOK, ChainOK
<1>4. \/ /\ minted' = [minted EXCEPT ![o] = txs[k0].amount]
         /\ ~(minted[o] > 0)
      \/ minted' = minted /\ txs'[k0].outcome # "minted"
  <2>1. CASE Refusals(txs[k0]) = {}
    BY <2>1 DEF MineNext, Refusals
  <2>2. CASE Refusals(txs[k0]) # {}
    <3>1. PICK why \in RefusalNames : txs' = [txs EXCEPT ![k0].outcome = why]
      <4>1. Refusals(txs[k0]) \subseteq RefusalNames
        BY DEF Refusals, RefusalNames
      <4> QED BY <2>2, <4>1 DEF MineNext
    <3>2. txs[k0] \in Transactions
      BY <1>2, <1>3
    <3>3. txs'[k0].outcome = why
      BY <1>2, <1>3, <3>1, <3>2 DEF Transactions
    <3> QED BY <2>2, <3>3 DEF MineNext, RefusalNames
  <2> QED BY <2>1, <2>2
<1> HIDE DEF k0, o
<1>5. ASSUME NEW x \in Orders PROVE RowInv(x)'
  <2>1. RowInv(x) /\ req[x].hash \in 0 .. Len(txs)
    BY DEF SplitInv, TypeOK, DatabaseOK, ChainOK, Requests
  <2>2. req[x].hash # 0 => txs'[req[x].hash].order = x
    BY <1>2, <2>1 DEF RowInv
  <2>3. minted'[x] \in {0, req[x].amount} /\ (minted[x] = req[x].amount => minted'[x] = req[x].amount)
    BY <1>3, <1>4, <2>1 DEF RowInv, TxInv, o
  <2> QED BY <1>1, <2>1, <2>2, <2>3 DEF RowInv, Decided
<1>6. ASSUME NEW k \in 1 .. Len(txs') PROVE TxInv(k)'
  <2>1. k \in 1 .. Len(txs) /\ TxInv(k) /\ txs[k].order \in Orders /\ txs[k].amount \in Nat
    BY <1>2, SentType DEF SplitInv
  <2>2. txs'[k].order = txs[k].order /\ txs'[k].amount = txs[k].amount
    BY <1>2, <2>1
  <2>3. txs'[k].outcome = "minted" => minted'[txs[k].order] = txs[k].amount
    <3>1. CASE k = k0
      BY <1>3, <1>4, <3>1 DEF o
    <3>2. CASE k # k0
      <4>1. txs'[k] = txs[k]
        BY <1>2, <2>1, <3>2
      <4> QED BY <1>3, <1>4, <2>1, <4>1 DEF TxInv, o
    <3> QED BY <3>1, <3>2
  <2> QED BY <1>1, <2>1, <2>2, <2>3 DEF TxInv, Decided
<1>7. ASSUME NEW j \in Instances PROVE JobInv(j)'
  <2>1. JobInv(j) /\ ProcOK(proc[j], Len(txs))
    BY DEF SplitInv, TypeOK, ProcsOK
  <2>2. proc[j].pc = "record" => txs'[proc[j].tx].order = txs[proc[j].tx].order
    BY <1>2, <2>1 DEF ProcOK
  <2> QED BY <1>1, <2>1, <2>2 DEF JobInv, Decided
<1>8. OneCreator'
  BY <1>1 DEF SplitInv, OneCreator
<1> QED BY <1>5, <1>6, <1>7, <1>8 DEF SplitInv

-------------------------------------------------------------------------------
LEMMA SplitInit ==
  ASSUME LegacyOrders = {}
  PROVE  Init => SplitInv
<1> SUFFICES ASSUME Init PROVE SplitInv
  OBVIOUS
<1>1. Len(txs) = 0
  BY DEF Init
<1>2. \A i \in Instances : proc[i].pc = "idle"
  BY DEF Init, Idle
<1>3. \A o \in Orders : RowInv(o)
  BY DEF Init, RowInv, NoRequest, NoRefund, Decided
<1>4. \A i \in Instances : JobInv(i)
  BY <1>2 DEF JobInv
<1>5. OneCreator
  BY <1>2 DEF OneCreator
<1> QED BY <1>1, <1>3, <1>4, <1>5, TypeInit DEF SplitInv

LEMMA SplitNext == SplitInv /\ [Next]_vars => SplitInv'
<1> SUFFICES ASSUME SplitInv, [Next]_vars PROVE SplitInv'
  OBVIOUS
<1>t. TypeOK'
  BY TypeNext DEF SplitInv
<1>1. ASSUME NEW i \in Instances, NEW o \in Orders,
             \/ CreateLock(i, o) \/ RegenSelect(i, o)
             \/ SubmitSelect(i, o) \/ ConfirmMint(i, o)
      PROVE  SplitInv'
  BY <1>t, <1>1, CreateLockSplit, RegenSelectSplit, SubmitSelectSplit, ConfirmMintSplit
<1>2. ASSUME NEW i \in Instances, Work(i) PROVE SplitInv'
  BY <1>t, <1>2, CreateCommitSplit, RegenCommitSplit, ResplitSplit, SimulateSplit,
     SendSplit, RecordSubmissionSplit, CompleteMintSplit DEF Work
<1>3. ASSUME NEW i \in Instances, SubmitThrows(i) \/ Crash(i) PROVE SplitInv'
  BY <1>t, <1>3, SubmitThrowsSplit, CrashSplit
<1>4. ASSUME NEW o \in Orders, CollectSignatures(o) PROVE SplitInv'
  BY <1>t, <1>4, CollectSignaturesSplit
<1>5. ASSUME MineNext \/ Burn \/ BumpNonce \/ Tick PROVE SplitInv'
  BY <1>t, <1>5, MineNextSplit, EnvironmentSplit
<1>6. CASE UNCHANGED vars
  <2>1. KeepsRows /\ UNCHANGED proc
    BY <1>6, SameKeeps DEF vars, chainVars
  <2> QED BY <1>t, <2>1, RowsStep
<1> QED BY <1>1, <1>2, <1>3, <1>4, <1>5, <1>6 DEF Next

LEMMA SplitSafe ==
  ASSUME SplitInv
  PROVE  NothingPaidTwice /\ SettledAgreesWithChain
<1> SUFFICES ASSUME NEW o \in Orders
             PROVE  /\ minted[o] + refund[o].excess <= Deposit[o]
                    /\ order[o] \in {"MINT_CONFIRMED", "COMPLETED"} =>
                         /\ minted[o] = req[o].amount /\ minted[o] > 0
                         /\ minted[o] + refund[o].excess = Deposit[o]
                    /\ order[o] = "REFUNDED" => minted[o] = 0 /\ refund[o].excess = Deposit[o]
                    /\ refund[o].excess > 0 => o \in pooled
  BY DEF NothingPaidTwice, SettledAgreesWithChain
<1>1. RowInv(o)
  BY DEF SplitInv
<1>2. /\ req[o].amount \in Nat /\ refund[o].excess \in Nat /\ minted[o] \in Nat
      /\ Deposit[o] \in Nat
  BY ExecutorAssumption DEF SplitInv, TypeOK, DatabaseOK, ChainOK, Requests, Refunds
<1>3. order[o] = "DEPOSIT_FINALIZED" => req[o].amount = 0
  BY <1>1, <1>2 DEF RowInv, Decided
<1>4. order[o] = "REFUNDED" => req[o].amount = 0
  BY <1>1, <1>2 DEF RowInv, Decided
<1>5. order[o] \in {"MINT_CONFIRMED", "COMPLETED"} => req[o].amount > 0
  BY <1>1 DEF RowInv, Decided
<1>6. /\ minted[o] = 0 \/ minted[o] = req[o].amount
      /\ refund[o].excess = 0 \/ req[o].amount + refund[o].excess = Deposit[o]
      /\ refund[o].excess > 0 => o \in pooled
  BY <1>1, <1>2 DEF RowInv
<1>7. order[o] # "DEPOSIT_FINALIZED" => req[o].amount + refund[o].excess = Deposit[o]
  BY <1>1 DEF RowInv
<1>8. order[o] \in {"MINT_CONFIRMED", "COMPLETED"} => minted[o] = req[o].amount
  BY <1>1 DEF RowInv
<1>9. minted[o] + refund[o].excess <= Deposit[o]
  <2>1. CASE order[o] = "DEPOSIT_FINALIZED"
    <3>1. refund[o].excess = 0 /\ minted[o] = 0
      BY <1>1, <1>3, <1>6, <2>1 DEF RowInv
    <3> QED BY <1>2, <3>1
  <2>2. CASE order[o] # "DEPOSIT_FINALIZED"
    BY <1>2, <1>6, <1>7, <2>2
  <2> QED BY <2>1, <2>2
<1>10. order[o] \in {"MINT_CONFIRMED", "COMPLETED"} =>
         /\ minted[o] = req[o].amount /\ minted[o] > 0
         /\ minted[o] + refund[o].excess = Deposit[o]
  BY <1>2, <1>5, <1>7, <1>8
<1>11. order[o] = "REFUNDED" => minted[o] = 0 /\ refund[o].excess = Deposit[o]
  BY <1>2, <1>4, <1>6, <1>7
<1> QED BY <1>6, <1>9, <1>10, <1>11

(* The amounts of a deposit are decided once, and every row, transaction   *)
(* and job carries them, whatever crashes and however many instances run.  *)
THEOREM SplitInvariant ==
  ASSUME LegacyOrders = {}
  PROVE  Spec => []SplitInv
<1>1. Init => SplitInv
  BY SplitInit
<1>2. SplitInv /\ [Next]_vars => SplitInv'
  BY SplitNext
<1> QED BY <1>1, <1>2, PTL DEF Spec

(* What is minted for a deposit and what is refunded of it never add up to *)
(* more than the deposit.                                                  *)
THEOREM PaidOnce ==
  ASSUME LegacyOrders = {}
  PROVE  Spec => []NothingPaidTwice
<1>1. SplitInv => NothingPaidTwice
  BY SplitSafe
<1> QED BY <1>1, SplitInvariant, PTL

(* A settled order agrees with the chain and its refund with the pool. *)
THEOREM SettledAgrees ==
  ASSUME LegacyOrders = {}
  PROVE  Spec => []SettledAgreesWithChain
<1>1. SplitInv => SettledAgreesWithChain
  BY SplitSafe
<1> QED BY <1>1, SplitInvariant, PTL

-------------------------------------------------------------------------------
(* What the ledger reads is left alone. *)
KeepsAmounts ==
  /\ UNCHANGED <<refund, minted>>
  /\ \A o \in Orders : req'[o].amount = req[o].amount

LedgerVars == <<[o \in Orders |-> SplitOf(o)], minted>>

LEMMA AmountsKept ==
  ASSUME KeepsAmounts
  PROVE  UNCHANGED LedgerVars
<1>1. \A o \in Orders : SplitOf(o)' = SplitOf(o)
  BY DEF KeepsAmounts, SplitOf
<1> QED BY <1>1 DEF LedgerVars, KeepsAmounts

LEMMA RecordErrorKeeps ==
  ASSUME SplitInv, NEW o \in Orders, NEW why, RecordError(o, why), UNCHANGED <<refund, minted>>
  PROVE  KeepsAmounts
BY DEF SplitInv, TypeOK, DatabaseOK, Requests, RecordError, KeepsAmounts

LEMMA SameRowsKeep ==
  ASSUME UNCHANGED <<req, refund, minted>>
  PROVE  KeepsAmounts
BY DEF KeepsAmounts

(* Every step but the split itself and a block leaves the amounts alone.   *)
LEMMA BeginKeeps ==
  ASSUME SplitInv, NEW i \in Instances, NEW o \in Orders,
         \/ CreateLock(i, o) \/ RegenSelect(i, o)
         \/ SubmitSelect(i, o) \/ ConfirmMint(i, o)
  PROVE  KeepsAmounts
<1>1. CASE RegenSelect(i, o)
  <2>1. UNCHANGED <<refund, minted>>
    BY <1>1 DEF RegenSelect, chainVars
  <2>2. UNCHANGED req \/ RecordError(o, "AlreadyProcessed")
    BY <1>1 DEF RegenSelect
  <2> QED BY <2>1, <2>2, RecordErrorKeeps, SameRowsKeep
<1>2. CASE CreateLock(i, o) \/ SubmitSelect(i, o) \/ ConfirmMint(i, o)
  BY <1>2, SameRowsKeep DEF CreateLock, SubmitSelect, ConfirmMint, dbVars, chainVars
<1> QED BY <1>1, <1>2

LEMMA WorkKeeps ==
  ASSUME SplitInv, NEW i \in Instances, Work(i), ~CreateCommit(i)
  PROVE  KeepsAmounts
<1>1. req \in [Orders -> Requests] /\ (proc[i].pc # "idle" => proc[i].order \in Orders)
  BY DEF SplitInv, TypeOK, DatabaseOK, ProcsOK, ProcOK
<1>2. CASE RegenCommit(i)
  BY <1>1, <1>2 DEF RegenCommit, Reissued, Requests, KeepsAmounts, chainVars
<1>3. CASE ResplitLock(i) \/ Send(i) \/ CompleteMint(i)
  BY <1>3, SameRowsKeep DEF ResplitLock, Send, CompleteMint, dbVars, chainVars
<1>4. CASE ResplitCommit(i)
  BY <1>4 DEF ResplitCommit, SplitInv, JobInv
<1>5. CASE Simulate(i)
  <2>1. UNCHANGED <<refund, minted>> /\ proc[i].order \in Orders
    BY <1>1, <1>5 DEF Simulate, chainVars
  <2>2. UNCHANGED req \/ \E why : RecordError(proc[i].order, why)
    BY <1>5 DEF Simulate
  <2> QED BY <2>1, <2>2, RecordErrorKeeps, SameRowsKeep
<1>6. CASE RecordSubmission(i)
  BY <1>1, <1>6 DEF RecordSubmission, Requests, KeepsAmounts, chainVars
<1> QED BY <1>2, <1>3, <1>4, <1>5, <1>6 DEF Work

LEMMA OthersKeep ==
  ASSUME SplitInv,
         \/ \E i \in Instances : SubmitThrows(i) \/ Crash(i)
         \/ \E o \in Orders : CollectSignatures(o)
         \/ Burn \/ BumpNonce \/ Tick
         \/ UNCHANGED vars
  PROVE  KeepsAmounts
<1>1. ASSUME NEW i \in Instances, SubmitThrows(i) PROVE KeepsAmounts
  <2>1. proc[i].order \in Orders
    BY <1>1 DEF SubmitThrows, SplitInv, TypeOK, ProcsOK, ProcOK
  <2>2. UNCHANGED <<refund, minted>> /\ RecordError(proc[i].order, "other")
    BY <1>1 DEF SubmitThrows, chainVars
  <2> QED BY <2>1, <2>2, RecordErrorKeeps
<1>2. ASSUME NEW o \in Orders, CollectSignatures(o) PROVE KeepsAmounts
  BY <1>2 DEF CollectSignatures, SplitInv, TypeOK, DatabaseOK, Requests, KeepsAmounts, chainVars
<1>3. ASSUME NEW i \in Instances, Crash(i) PROVE KeepsAmounts
  BY <1>3, SameRowsKeep DEF Crash, dbVars, chainVars
<1>4. CASE Burn \/ BumpNonce \/ Tick \/ UNCHANGED vars
  BY <1>4, SameRowsKeep DEF Burn, BumpNonce, Tick, vars, dbVars, chainVars
<1> QED BY <1>1, <1>2, <1>3, <1>4

-------------------------------------------------------------------------------
(* The steps of the ledger. *)

LEMMA DecideStep ==
  ASSUME SplitInv, SplitInv', NEW i \in Instances, CreateCommit(i)
  PROVE  \E o \in Orders : Ledger!Decide(o)
<1>1. PICK o \in Orders : o = proc[i].order /\ order[o] = "DEPOSIT_FINALIZED"
  BY DEF CreateCommit, SplitInv, TypeOK, ProcsOK, ProcOK, JobInv
<1> DEFINE mint == req'[o].amount
<1>2. /\ req \in [Orders -> Requests] /\ refund \in [Orders -> Refunds]
      /\ order \in [Orders -> States] /\ Deposit[o] \in Nat
  BY ExecutorAssumption DEF SplitInv, TypeOK, DatabaseOK
<1>3. req[o].amount = 0 /\ refund[o].excess = 0
  <2>1. RowInv(o) /\ req[o].amount \in Nat
    BY <1>2 DEF SplitInv, Requests
  <2>2. ~Decided(o)
    BY <1>1 DEF Decided
  <2> QED BY <1>1, <2>1, <2>2 DEF RowInv
<1>4. order'[o] # "DEPOSIT_FINALIZED"
  BY <1>1, <1>2 DEF CreateCommit
<1>5. mint + refund'[o].excess = Deposit[o] /\ mint \in Nat /\ refund'[o].excess \in Nat
  <2>1. RowInv(o)'
    BY DEF SplitInv
  <2>2. req'[o] \in Requests /\ refund'[o] \in Refunds
    BY DEF SplitInv, TypeOK, DatabaseOK
  <2> QED BY <1>4, <2>1, <2>2 DEF RowInv, Requests, Refunds
<1>6. \A x \in Orders : x # o => req'[x] = req[x] /\ refund'[x] = refund[x]
  BY <1>1, <1>2 DEF CreateCommit
<1>7. UNCHANGED minted
  BY DEF CreateCommit, chainVars
<1>8. mint \in 0 .. Deposit[o] /\ refund'[o].excess = Deposit[o] - mint
  BY <1>2, <1>5
<1>9. /\ SplitOf(o) = Ledger!Undecided
      /\ SplitOf(o)' = [mint |-> mint, refund |-> Deposit[o] - mint]
      /\ \A x \in Orders : x # o => SplitOf(x)' = SplitOf(x)
  BY <1>3, <1>6, <1>8 DEF SplitOf, Ledger!Undecided
<1>10. [x \in Orders |-> SplitOf(x)]' =
         [[x \in Orders |-> SplitOf(x)] EXCEPT ![o] = [mint |-> mint, refund |-> Deposit[o] - mint]]
  BY <1>9
<1>11. Ledger!Decide(o)
  BY <1>7, <1>8, <1>9, <1>10 DEF Ledger!Decide
<1> QED BY <1>11

LEMMA MintStep ==
  ASSUME SplitInv, MineNext
  PROVE  UNCHANGED LedgerVars \/ \E o \in Orders : Ledger!Mint(o)
<1> DEFINE k == mined + 1
           o == txs[k].order
<1>1. k \in 1 .. Len(txs)
  BY DEF MineNext, SplitInv, TypeOK, ChainOK
<1>2. o \in Orders /\ txs[k].amount = req[o].amount /\ Decided(o)
  BY <1>1, SentType DEF SplitInv, TxInv
<1>3. UNCHANGED <<req, refund>>
  BY DEF MineNext, dbVars
<1>4. CASE Refusals(txs[k]) # {}
  <2>1. KeepsAmounts
    BY <1>3, <1>4 DEF MineNext, KeepsAmounts
  <2> QED BY <2>1, AmountsKept
<1>5. CASE Refusals(txs[k]) = {}
  <2>1. minted' = [minted EXCEPT ![o] = req[o].amount]
    BY <1>2, <1>5 DEF MineNext
  <2>2. ~(minted[o] > 0) /\ minted[o] \in Nat
    BY <1>2, <1>5 DEF Refusals, SplitInv, TypeOK, ChainOK
  <2>3. minted[o] = 0
    BY <2>2
  <2>4. req[o].amount > 0
    BY <1>2 DEF SplitInv, RowInv
  <2>5. UNCHANGED [x \in Orders |-> SplitOf(x)]
    BY <1>3 DEF SplitOf
  <2> HIDE DEF o, k
  <2>6. Ledger!Mint(o)
    BY <1>2, <2>1, <2>3, <2>4, <2>5 DEF Ledger!Mint, SplitOf
  <2> QED BY <1>2, <2>6
<1> QED BY <1>4, <1>5

LEMMA LedgerStep ==
  ASSUME SplitInv, SplitInv', [Next]_vars
  PROVE  [Ledger!Next]_LedgerVars
<1>1. CASE \E i \in Instances : CreateCommit(i)
  BY <1>1, DecideStep DEF Ledger!Next
<1>2. CASE MineNext
  BY <1>2, MintStep DEF Ledger!Next
<1>3. CASE KeepsAmounts
  BY <1>3, AmountsKept
<1>4. \/ \E i \in Instances : CreateCommit(i)
      \/ MineNext
      \/ KeepsAmounts
  BY BeginKeeps, WorkKeeps, OthersKeep DEF Next
<1> QED BY <1>1, <1>2, <1>3, <1>4

(* The split is decided once, in full, and minted at most once in one      *)
(* piece, whatever is reissued, sent again, lost or crashes.               *)
THEOREM LedgerImplemented ==
  ASSUME LegacyOrders = {}
  PROVE  Spec => ImplementsLedger
<1>1. Init => Ledger!Init
  <2> SUFFICES ASSUME Init PROVE Ledger!Init
    OBVIOUS
  <2>1. \A o \in Orders : SplitOf(o) = Ledger!Undecided
    BY DEF Init, NoRequest, NoRefund, SplitOf, Ledger!Undecided
  <2> QED BY <2>1 DEF Init, Ledger!Init
<1>2. SplitInv /\ SplitInv' /\ [Next]_vars => [Ledger!Next]_LedgerVars
  BY LedgerStep
<1> QED BY <1>1, <1>2, SplitInvariant, PTL DEF Spec, ImplementsLedger, Ledger!Spec, LedgerVars

-------------------------------------------------------------------------------
(* The table of transitions. *)

Table == Lifecycle!INBOUND_TRANSITIONS

LEMMA Edges ==
  /\ {"MINT_AUTH_CREATED", "REFUNDED"} \subseteq Table["DEPOSIT_FINALIZED"]
  /\ "MINT_SUBMITTED" \in Table["MINT_AUTH_CREATED"]
  /\ {"MINT_CONFIRMED", "FAILED"} \subseteq Table["MINT_SUBMITTED"]
  /\ "COMPLETED" \in Table["MINT_CONFIRMED"]
BY DEF Table, Lifecycle!INBOUND_TRANSITIONS, Lifecycle!InboundState

LEMMA EdgeStep ==
  ASSUME NEW o \in Orders, NEW s \in Table[order[o]], order' = [order EXCEPT ![o] = s]
  PROVE  \E x \in Orders : Lifecycle!Move(Table, x)
BY DEF Lifecycle!Move

LEMMA OrderStep ==
  ASSUME SplitInv, [Next]_vars
  PROVE  [\E o \in Orders : Lifecycle!Move(Table, o)]_order
<1>1. ASSUME NEW i \in Instances, CreateCommit(i) PROVE \E o \in Orders : Lifecycle!Move(Table, o)
  <2>1. PICK o \in Orders : o = proc[i].order /\ order[o] = "DEPOSIT_FINALIZED"
    BY <1>1 DEF CreateCommit, SplitInv, TypeOK, ProcsOK, ProcOK, JobInv
  <2>2. \E s \in {"MINT_AUTH_CREATED", "REFUNDED"} : order' = [order EXCEPT ![o] = s]
    BY <1>1, <2>1 DEF CreateCommit
  <2> QED BY <2>1, <2>2, Edges, EdgeStep
<1>2. ASSUME NEW i \in Instances, RecordSubmission(i) \/ CompleteMint(i)
      PROVE  [\E o \in Orders : Lifecycle!Move(Table, o)]_order
  <2>1. PICK o \in Orders : o = proc[i].order
    BY <1>2 DEF RecordSubmission, CompleteMint, SplitInv, TypeOK, ProcsOK, ProcOK
  <2>2. \/ UNCHANGED order
        \/ order[o] = "MINT_AUTH_CREATED" /\ order' = [order EXCEPT ![o] = "MINT_SUBMITTED"]
        \/ order[o] = "MINT_CONFIRMED" /\ order' = [order EXCEPT ![o] = "COMPLETED"]
    BY <1>2, <2>1 DEF RecordSubmission, CompleteMint
  <2> QED BY <2>2, Edges, EdgeStep
<1>3. ASSUME NEW i \in Instances, NEW o \in Orders, ConfirmMint(i, o)
      PROVE  \E x \in Orders : Lifecycle!Move(Table, x)
  <2>1. /\ order[o] = "MINT_SUBMITTED"
        /\ \E s \in {"MINT_CONFIRMED", "FAILED"} : order' = [order EXCEPT ![o] = s]
    BY <1>3 DEF ConfirmMint
  <2> QED BY <2>1, Edges, EdgeStep
<1>4. ASSUME NEW i \in Instances,
             \/ RegenCommit(i) \/ ResplitLock(i) \/ ResplitCommit(i) \/ Simulate(i)
             \/ Send(i) \/ SubmitThrows(i) \/ Crash(i)
      PROVE  UNCHANGED order
  BY <1>4 DEF RegenCommit, ResplitLock, ResplitCommit, Simulate, Send, SubmitThrows, Crash, dbVars
<1>5. ASSUME NEW i \in Instances, NEW o \in Orders,
             CreateLock(i, o) \/ RegenSelect(i, o) \/ SubmitSelect(i, o)
      PROVE  UNCHANGED order
  BY <1>5 DEF CreateLock, RegenSelect, SubmitSelect, dbVars
<1>6. ASSUME NEW o \in Orders, CollectSignatures(o) PROVE UNCHANGED order
  BY <1>6 DEF CollectSignatures
<1>7. CASE MineNext \/ Burn \/ BumpNonce \/ Tick \/ UNCHANGED vars
  BY <1>7 DEF MineNext, Burn, BumpNonce, Tick, vars, dbVars
<1> QED BY <1>1, <1>2, <1>3, <1>4, <1>5, <1>6, <1>7 DEF Next, Work

(* An order never leaves the table of transitions, also where a step uses  *)
(* what it read before another instance moved the order.                   *)
THEOREM TransitionsFollowed ==
  ASSUME LegacyOrders = {}
  PROVE  Spec => FollowsTransitions
<1>1. Init => order \in [Orders -> Lifecycle!InboundState]
  BY DEF Init, Lifecycle!InboundState
<1>2. SplitInv /\ [Next]_vars =>
        [\E o \in Orders : Lifecycle!Move(Lifecycle!INBOUND_TRANSITIONS, o)]_order
  BY OrderStep DEF Table
<1> QED BY <1>1, <1>2, SplitInvariant, PTL DEF Spec, FollowsTransitions, Lifecycle!InboundSpec

-------------------------------------------------------------------------------
(***************************************************************************)
(* The mint cap is never overcommitted: CapInv is an invariant of          *)
(* MintExecutor for a single instance when no authorization predates the   *)
(* cap split, whatever crashes and however the chain moves.                *)
(***************************************************************************)

-------------------------------------------------------------------------------
(* Totals of the orders owed.                                              *)

LEMMA TotalMember ==
  ASSUME NEW S \in SUBSET Orders, NEW f \in [Orders -> Nat], NEW o \in S
  PROVE  f[o] <= TotalOf(f, S) /\ TotalOf(f, S) = TotalOf(f, S \ {o}) + f[o]
<1>1. S \ {o} \in SUBSET Orders /\ o \in Orders /\ o \notin S \ {o}
  OBVIOUS
<1>2. (S \ {o}) \cup {o} = S
  OBVIOUS
<1>3. TotalOf(f, S) = TotalOf(f, S \ {o}) + f[o]
  BY <1>1, <1>2, TotalAdd
<1>4. TotalOf(f, S \ {o}) \in Nat /\ f[o] \in Nat
  BY <1>1, TotalType
<1> QED BY <1>3, <1>4

LEMMA OwedType ==
  ASSUME TypeOK
  PROVE  /\ Owed \in SUBSET Orders
         /\ RequestAmount \in [Orders -> Nat]
         /\ Committed \in Nat
         /\ MintedToday(CapState, now) \in Nat
         /\ chain.supply \in Nat
<1>1. Owed \in SUBSET Orders
  BY DEF Owed, Reserving
<1>2. RequestAmount \in [Orders -> Nat]
  BY DEF TypeOK, DatabaseOK, Requests, RequestAmount
<1>3. Committed \in Nat
  BY <1>1, <1>2, TotalType DEF Committed
<1>4. CapState \in CapStates /\ now \in Nat /\ chain.supply \in Nat
  BY CapStateType DEF TypeOK, ChainOK
<1>5. MintedToday(CapState, now) \in Nat
  BY <1>4, RemainingType
<1> QED BY <1>1, <1>2, <1>3, <1>4, <1>5

Sums == Committed \in Nat /\ MintedToday(CapState, now) \in Nat /\ chain.supply \in Nat

LEMMA SumsNext == TypeOK' => Sums'
<1>1. TypeOK => Sums
  BY OwedType DEF Sums
<1> QED BY <1>1, PTL

(* No order comes to be owed and the amounts stay. *)
LEMMA CommittedShrinks ==
  ASSUME TypeOK, TypeOK', \A o \in Orders : req'[o].amount = req[o].amount,
         Owed' \subseteq Owed
  PROVE  Committed' <= Committed
<1>1. RequestAmount' = RequestAmount
  BY DEF RequestAmount
<1>2. TotalOf(RequestAmount, Owed') <= TotalOf(RequestAmount, Owed)
  BY OwedType, TotalMonotone
<1> QED BY <1>1, <1>2 DEF Committed

LEMMA OwedShrinks ==
  ASSUME TypeOK, UNCHANGED <<minted, mined>>,
         \A o \in Orders :
           /\ order'[o] \in {"MINT_AUTH_CREATED", "MINT_SUBMITTED"} =>
                order[o] \in {"MINT_AUTH_CREATED", "MINT_SUBMITTED"}
           /\ req'[o].hash = req[o].hash \/ req[o].hash = 0
  PROVE  Owed' \subseteq Owed
<1> SUFFICES ASSUME NEW o \in Orders, o \in Owed' PROVE o \in Owed
  BY DEF Owed, Reserving
<1> QED BY DEF Owed, Reserving

(* Time only makes the window stale. *)
LEMMA MintedTodayFalls ==
  ASSUME TypeOK, now' \in Nat, now <= now',
         chain'.minted = chain.minted, chain'.dayStart = chain.dayStart
  PROVE  MintedToday(CapState, now)' <= MintedToday(CapState, now)
<1>1. chain.minted \in Nat /\ chain.dayStart \in Nat /\ now \in Nat /\ DayLength \in Nat
  BY CapAssumption DEF TypeOK, ChainOK
<1> QED BY <1>1 DEF MintedToday, WindowStale, CapState

LEMMA CapacityKept ==
  ASSUME TypeOK, TypeOK', CapacityNotOvercommitted, Committed' <= Committed,
         MintedToday(CapState, now)' <= MintedToday(CapState, now),
         chain'.supply <= chain.supply
  PROVE  CapacityNotOvercommitted'
<1>1. /\ Committed \in Nat /\ MintedToday(CapState, now) \in Nat /\ chain.supply \in Nat
      /\ Committed' \in Nat /\ MintedToday(CapState, now)' \in Nat /\ chain'.supply \in Nat
  BY OwedType, SumsNext DEF Sums
<1>2. /\ MintedToday(CapState, now) + Committed <= DailyMintLimit
      /\ MaxSupply > 0 => chain.supply + Committed <= MaxSupply
  BY DEF CapacityNotOvercommitted, Committed
<1>3. /\ MintedToday(CapState, now)' + Committed' <= DailyMintLimit
      /\ MaxSupply > 0 => chain'.supply + Committed' <= MaxSupply
  BY <1>1, <1>2, CapAssumption
<1> QED BY <1>3 DEF CapacityNotOvercommitted, Committed

(* What is owed is not refused for the cap. *)
LEMMA OwedNotRefused ==
  ASSUME TypeOK, CapacityNotOvercommitted, NEW auth, auth.order \in Owed,
         auth.amount = req[auth.order].amount
  PROVE  Refusals(auth) \cap CapRefusals = {}
<1> DEFINE o == auth.order
<1>1. /\ Committed \in Nat /\ MintedToday(CapState, now) \in Nat /\ chain.supply \in Nat
      /\ o \in Orders /\ req[o].amount \in Nat /\ RequestAmount[o] = req[o].amount
  BY OwedType DEF RequestAmount, TypeOK, DatabaseOK, Requests
<1>2. req[o].amount <= Committed
  BY <1>1, OwedType, TotalMember DEF Committed
<1>3. /\ ~(MintedToday(CapState, now) + auth.amount > DailyMintLimit)
      /\ ~(MaxSupply > 0 /\ chain.supply + auth.amount > MaxSupply)
  BY <1>1, <1>2, CapAssumption DEF CapacityNotOvercommitted, Committed
<1> QED BY <1>3 DEF Refusals, CapRefusals

LEMMA ReservedSame ==
  ASSUME UNCHANGED order, NEW b,
         \A o \in Orders : req'[o].amount = req[o].amount /\ req'[o].hash = req[o].hash
  PROVE  OutstandingReserved(b, {})' = OutstandingReserved(b, {})
<1>1. RequestAmount' = RequestAmount
  BY DEF RequestAmount
<1>2. Reserving(b)' = Reserving(b)
  BY DEF Reserving
<1> QED BY <1>1, <1>2 DEF OutstandingReserved
-------------------------------------------------------------------------------
(* Steps that leave the rows' amounts, states and hashes and the chain.    *)

OneInstance == \A i, j \in Instances : i = j

(* The errors a step leaves are not those of the cap, or name a deposit    *)
(* already minted.                                                         *)
ErrorsKept ==
  \A o \in Orders : \/ req'[o].error = req[o].error
                    \/ req'[o].error \notin CapRefusals
                    \/ minted[o] > 0

LEMMA StillCap ==
  ASSUME CapInv, SplitInv', KeepsRows, UNCHANGED <<chain, mined, now>>, ErrorsKept
  PROVE  /\ \A o \in Orders : SentInv(o)'
         /\ CapacityNotOvercommitted'
         /\ NeverRefusedForTheCap'
         /\ Committed' = Committed /\ MintedToday(CapState, now)' = MintedToday(CapState, now)
<1>1. \A o \in Orders : SentInv(o)'
  <2> SUFFICES ASSUME NEW o \in Orders PROVE SentInv(o)'
    OBVIOUS
  <2>1. SentInv(o)
    BY DEF CapInv
  <2> QED BY <2>1 DEF SentInv, KeepsRows
<1>2. RequestAmount' = RequestAmount
  BY DEF RequestAmount, KeepsRows
<1>3. Owed' = Owed
  BY DEF Owed, Reserving, KeepsRows
<1>4. Committed' = Committed
  BY <1>2, <1>3 DEF Committed
<1>5. MintedToday(CapState, now)' = MintedToday(CapState, now)
  BY DEF MintedToday, WindowStale, CapState
<1>6. CapacityNotOvercommitted'
  BY <1>4, <1>5 DEF CapInv, CapacityNotOvercommitted, Committed
<1>7. NeverRefusedForTheCap'
  BY DEF CapInv, NeverRefusedForTheCap, KeepsRows, ErrorsKept
<1> QED BY <1>1, <1>4, <1>5, <1>6, <1>7

(* One instance moves on with a job that is not a creation. *)
LEMMA CapJobStep ==
  ASSUME OneInstance, CapInv, SplitInv', KeepsRows, UNCHANGED <<chain, mined, now>>,
         ErrorsKept, NEW i \in Instances, proc'[i].pc # "create",
         proc'[i].pc # "record",
         proc'[i].pc \in {"simulate", "send"} => order[proc'[i].order] = "MINT_AUTH_CREATED"
  PROVE  CapInv'
<1>1. \A j \in Instances : CapJobInv(j)'
  <2> SUFFICES CapJobInv(i)'
    BY DEF OneInstance
  <2>1. order' = order
    BY DEF KeepsRows
  <2> QED BY <2>1 DEF CapJobInv
<1> QED BY <1>1, StillCap DEF CapInv

(* Nobody moves. *)
LEMMA CapRowsStep ==
  ASSUME CapInv, SplitInv', KeepsRows, UNCHANGED <<chain, mined, now, proc>>, ErrorsKept
  PROVE  CapInv'
<1>1. ASSUME NEW j \in Instances PROVE CapJobInv(j)'
  <2>1. CapJobInv(j)
    BY DEF CapInv
  <2>2. order' = order /\ txs' = txs
    BY DEF KeepsRows
  <2>3. \A b : OutstandingReserved(b, {})' = OutstandingReserved(b, {})
    BY ReservedSame DEF KeepsRows
  <2>4. Committed' = Committed /\ MintedToday(CapState, now)' = MintedToday(CapState, now)
    BY StillCap
  <2> QED BY <2>1, <2>2, <2>3, <2>4 DEF CapJobInv
<1> QED BY <1>1, StillCap DEF CapInv

LEMMA SameErrors ==
  ASSUME UNCHANGED req
  PROVE  ErrorsKept
BY DEF ErrorsKept

LEMMA OneError ==
  ASSUME SplitInv, NEW o \in Orders, NEW why, RecordError(o, why),
         why \notin CapRefusals \/ minted[o] > 0
  PROVE  ErrorsKept
<1>1. req \in [Orders -> Requests]
  BY DEF SplitInv, TypeOK, DatabaseOK
<1> QED BY <1>1 DEF RecordError, ErrorsKept, Requests

LEMMA CreateLockCap ==
  ASSUME OneInstance, CapInv, SplitInv', NEW i \in Instances, NEW o \in Orders, CreateLock(i, o)
  PROVE  CapInv'
<1> DEFINE p == [pc |-> "create", order |-> o, nonce |-> chain.nonce, cap |-> CapState]
<1>1. /\ UNCHANGED <<dbVars, chain, minted, txs, mined, now>>
      /\ proc' = [proc EXCEPT ![i] = p] /\ req' = req
  BY DEF CreateLock, chainVars, dbVars
<1>2. KeepsRows /\ ErrorsKept
  BY <1>1, SameKeeps, SameErrors
<1>3. p.pc = "create" /\ p.cap = CapState
  OBVIOUS
<1> HIDE DEF p
<1>4. proc'[i] = p
  BY <1>1, ProcAt DEF CapInv, SplitInv
<1>5. Committed <= OutstandingReserved(mined, {})
  <2>1. Reserving(mined) \in SUBSET Orders /\ Owed \in SUBSET Reserving(mined)
    BY DEF Reserving, Owed
  <2>2. RequestAmount \in [Orders -> Nat]
    BY OwedType DEF CapInv, SplitInv
  <2>3. TotalOf(RequestAmount, Owed) <= TotalOf(RequestAmount, Reserving(mined))
    BY <2>1, <2>2, TotalMonotone
  <2>4. Reserving(mined) \ {} = Reserving(mined)
    OBVIOUS
  <2> QED BY <2>3, <2>4 DEF Committed, OutstandingReserved
<1>6. /\ Committed \in Nat /\ MintedToday(CapState, now) \in Nat /\ chain.supply \in Nat
      /\ OutstandingReserved(mined, {}) \in Nat
  <2>1. CapState \in CapStates /\ CapState.block = mined
    BY CapStateType DEF CapInv, SplitInv, CapState
  <2>2. OutstandingReserved(CapState.block, {}) \in Nat
    BY <2>1, DecisionType DEF CapInv, SplitInv
  <2> QED BY <2>1, <2>2, OwedType DEF CapInv, SplitInv
<1>7. /\ MintedToday(CapState, now) + Committed <= MintedToday(CapState, now) + OutstandingReserved(mined, {})
      /\ chain.supply + Committed <= chain.supply + OutstandingReserved(mined, {})
  BY <1>5, <1>6
<1>8. \A b : OutstandingReserved(b, {})' = OutstandingReserved(b, {})
  BY <1>2, ReservedSame DEF KeepsRows
<1>9. Committed' = Committed /\ MintedToday(CapState, now)' = MintedToday(CapState, now)
  BY <1>1, <1>2, StillCap
<1>10. p.cap.time = now /\ p.cap.block = mined /\ p.cap.supply = chain.supply
  BY <1>3 DEF CapState
<1>11. CapJobInv(i)'
  <2>1. proc'[i].cap.time = now /\ proc'[i].cap.block = mined /\ proc'[i].cap.supply = chain.supply
    BY <1>4, <1>10
  <2>2. MintedToday(proc'[i].cap, proc'[i].cap.time) = MintedToday(CapState, now)
    BY <1>3, <1>4, <2>1
  <2>3. proc'[i].pc = "create"
    BY <1>3, <1>4
  <2> QED BY <1>1, <1>7, <1>8, <1>9, <2>1, <2>2, <2>3 DEF CapJobInv
<1>12. \A j \in Instances : CapJobInv(j)'
  BY <1>11 DEF OneInstance
<1> QED BY <1>1, <1>2, <1>12, StillCap DEF CapInv
LEMMA RegenSelectCap ==
  ASSUME OneInstance, CapInv, SplitInv', NEW i \in Instances, NEW o \in Orders, RegenSelect(i, o)
  PROVE  CapInv'
<1>1. UNCHANGED <<order, refund, pooled, chain, minted, txs, mined, now>>
  BY DEF RegenSelect, chainVars
<1>2. CASE minted[o] > 0
  <2>1. RecordError(o, "AlreadyProcessed") /\ UNCHANGED proc
    BY <1>2 DEF RegenSelect
  <2>2. KeepsRows /\ ErrorsKept
    BY <1>1, <1>2, <2>1, ErrorKeeps, OneError DEF CapInv
  <2> QED BY <1>1, <2>1, <2>2, CapRowsStep
<1>3. CASE ~(minted[o] > 0)
  <2> DEFINE p == [pc |-> "regen", order |-> o, nonce |-> chain.nonce, legacy |-> req[o].legacy]
  <2>1. UNCHANGED dbVars /\ req' = req /\ proc' = [proc EXCEPT ![i] = p]
    BY <1>1, <1>3 DEF RegenSelect, dbVars
  <2>2. KeepsRows /\ ErrorsKept
    BY <1>1, <2>1, SameKeeps, SameErrors
  <2>3. p.pc = "regen"
    OBVIOUS
  <2> HIDE DEF p
  <2>4. proc'[i] = p
    BY <2>1, ProcAt DEF CapInv, SplitInv
  <2> QED BY <1>1, <2>2, <2>3, <2>4, CapJobStep
<1> QED BY <1>2, <1>3

LEMMA RegenCommitCap ==
  ASSUME OneInstance, CapInv, SplitInv', NEW i \in Instances, RegenCommit(i)
  PROVE  CapInv'
<1> DEFINE o == proc[i].order
           new == Reissued(req[o], now, proc[i].nonce)
<1>1. /\ UNCHANGED <<order, refund, pooled, chain, minted, txs, mined, now>>
      /\ proc' = [proc EXCEPT ![i] = Idle]
  BY DEF RegenCommit, chainVars
<1>2. o \in Orders /\ proc[i].nonce \in Nat /\ now \in Nat /\ req \in [Orders -> Requests]
  <2>1. TypeOK /\ proc[i].pc = "regen"
    BY DEF RegenCommit, CapInv, SplitInv
  <2>2. ProcOK(proc[i], Len(txs)) /\ now \in Nat /\ req \in [Orders -> Requests]
    BY <2>1 DEF TypeOK, DatabaseOK, ProcsOK, ChainOK
  <2>3. o \in Orders /\ proc[i].nonce \in Nat
    BY <2>1, <2>2 DEF ProcOK
  <2> QED BY <2>2, <2>3
<1>3. req' = req \/ req' = [req EXCEPT ![o] = new]
  BY DEF RegenCommit
<1>4. /\ new.hash = req[o].hash /\ new.amount = req[o].amount /\ new.legacy = req[o].legacy
      /\ new.error = "none"
  BY <1>2, ReissuedType
<1> HIDE DEF o, new
<1>5. KeepsRows
  BY <1>1, <1>2, <1>3, <1>4 DEF KeepsRows
<1>6. ErrorsKept
  BY <1>2, <1>3, <1>4 DEF ErrorsKept, CapRefusals
<1>7. proc'[i] = Idle /\ Idle.pc = "idle"
  BY <1>1, ProcAt DEF CapInv, SplitInv, Idle
<1> QED BY <1>1, <1>5, <1>6, <1>7, CapJobStep

LEMMA CollectSignaturesCap ==
  ASSUME CapInv, SplitInv', NEW o \in Orders, CollectSignatures(o)
  PROVE  CapInv'
<1>1. req \in [Orders -> Requests]
  BY DEF CapInv, SplitInv, TypeOK, DatabaseOK
<1>2. KeepsRows /\ ErrorsKept /\ UNCHANGED <<chain, mined, now, proc>>
  BY <1>1 DEF CollectSignatures, chainVars, KeepsRows, ErrorsKept, Requests
<1> QED BY <1>2, CapRowsStep

LEMMA SubmitSelectCap ==
  ASSUME OneInstance, CapInv, SplitInv', NEW i \in Instances, NEW o \in Orders, SubmitSelect(i, o)
  PROVE  CapInv'
<1> DEFINE p == [pc |-> "simulate", order |-> o, amount |-> req[o].amount,
                 deadline |-> req[o].deadline, nonce |-> req[o].nonce]
<1>1. /\ UNCHANGED <<dbVars, chain, minted, txs, mined, now>>
      /\ proc' = [proc EXCEPT ![i] = p] /\ req' = req
  BY DEF SubmitSelect, chainVars, dbVars
<1>2. KeepsRows /\ ErrorsKept
  BY <1>1, SameKeeps, SameErrors
<1>3. p.pc = "simulate" /\ p.order = o
  OBVIOUS
<1> HIDE DEF p
<1>4. proc'[i] = p
  BY <1>1, ProcAt DEF CapInv, SplitInv
<1> QED BY <1>1, <1>2, <1>3, <1>4, CapJobStep DEF SubmitSelect

(* An authorization with no signature of its deposit on the chain is owed. *)
LEMMA PendingIsOwed ==
  ASSUME CapInv, NEW o \in Orders, order[o] = "MINT_AUTH_CREATED", ~(minted[o] > 0)
  PROVE  o \in Owed
<1>1. SentInv(o) /\ minted[o] \in Nat
  BY DEF CapInv, SplitInv, TypeOK, ChainOK
<1>2. req[o].hash = 0 /\ minted[o] = 0
  BY <1>1 DEF SentInv
<1> QED BY <1>2 DEF Owed, Reserving

LEMMA SimulateCap ==
  ASSUME OneInstance, CapInv, SplitInv', NEW i \in Instances, Simulate(i)
  PROVE  CapInv'
<1> DEFINE o == proc[i].order
           p == [pc |-> "send", order |-> proc[i].order, amount |-> proc[i].amount,
                 deadline |-> proc[i].deadline, nonce |-> proc[i].nonce]
<1>1. UNCHANGED <<order, refund, pooled, chain, minted, txs, mined, now>>
  BY DEF Simulate, chainVars
<1>2. /\ o \in Orders /\ i \in DOMAIN proc /\ proc[i].amount = req[o].amount
      /\ order[o] = "MINT_AUTH_CREATED"
  BY DEF Simulate, CapInv, SplitInv, TypeOK, ProcsOK, ProcOK, JobInv, CapJobInv
<1>3. CASE Refusals(proc[i]) = {}
  <2>1. UNCHANGED dbVars /\ req' = req /\ proc' = [proc EXCEPT ![i] = p]
    BY <1>1, <1>2, <1>3 DEF Simulate, dbVars
  <2>2. KeepsRows /\ ErrorsKept
    BY <1>1, <2>1, SameKeeps, SameErrors
  <2>3. p.pc = "send" /\ p.order = o
    OBVIOUS
  <2> HIDE DEF p
  <2>4. proc'[i] = p
    BY <2>1, ProcAt DEF CapInv, SplitInv
  <2> QED BY <1>1, <1>2, <2>2, <2>3, <2>4, CapJobStep
<1>4. CASE Refusals(proc[i]) # {}
  <2>1. PICK why \in Refusals(proc[i]) : RecordError(o, why)
    BY <1>4 DEF Simulate
  <2>2. why \notin CapRefusals \/ minted[o] > 0
    <3>1. SUFFICES ASSUME ~(minted[o] > 0) PROVE why \notin CapRefusals
      OBVIOUS
    <3>2. o \in Owed
      BY <1>2, <3>1, PendingIsOwed
    <3>3. Refusals(proc[i]) \cap CapRefusals = {}
      BY <1>2, <3>2, OwedNotRefused DEF CapInv, SplitInv
    <3> QED BY <2>1, <3>3
  <2>3. KeepsRows /\ ErrorsKept
    BY <1>1, <1>2, <2>1, <2>2, ErrorKeeps, OneError DEF CapInv
  <2>4. proc' = [proc EXCEPT ![i] = Idle]
    BY <1>4 DEF Simulate
  <2>5. proc'[i] = Idle /\ Idle.pc = "idle"
    BY <2>4, ProcAt DEF CapInv, SplitInv, Idle
  <2> QED BY <1>1, <2>3, <2>5, CapJobStep
<1> QED BY <1>3, <1>4

LEMMA SubmitThrowsCap ==
  ASSUME OneInstance, CapInv, SplitInv', NEW i \in Instances, SubmitThrows(i)
  PROVE  CapInv'
<1>1. proc[i].order \in Orders
  BY DEF SubmitThrows, CapInv, SplitInv, TypeOK, ProcsOK, ProcOK
<1>2. KeepsRows /\ ErrorsKept
  BY <1>1, ErrorKeeps, OneError DEF SubmitThrows, chainVars, CapInv, CapRefusals
<1>3. /\ proc' = [proc EXCEPT ![i] = Idle]
      /\ UNCHANGED <<chain, mined, now>>
  BY DEF SubmitThrows, chainVars
<1>4. proc'[i] = Idle /\ Idle.pc = "idle"
  BY <1>3, ProcAt DEF CapInv, SplitInv, Idle
<1> QED BY <1>2, <1>3, <1>4, CapJobStep

LEMMA CrashCap ==
  ASSUME OneInstance, CapInv, SplitInv', NEW i \in Instances, Crash(i)
  PROVE  CapInv'
<1>1. /\ proc' = [proc EXCEPT ![i] = Idle] /\ req' = req
      /\ UNCHANGED <<dbVars, chain, minted, txs, mined, now>>
  BY DEF Crash, chainVars, dbVars
<1>2. KeepsRows /\ ErrorsKept
  BY <1>1, SameKeeps, SameErrors
<1>3. proc'[i] = Idle /\ Idle.pc = "idle"
  BY <1>1, ProcAt DEF CapInv, SplitInv, Idle
<1> QED BY <1>1, <1>2, <1>3, CapJobStep

-------------------------------------------------------------------------------
(* Steps that move the chain or the rows. *)

(* The chain's figures move in the safe direction only. *)
LEMMA EnvironmentCap ==
  ASSUME CapInv, SplitInv', Burn \/ BumpNonce \/ Tick
  PROVE  CapInv'
<1>1. UNCHANGED <<order, req, refund, pooled, minted, txs, mined, proc>>
  BY DEF Burn, BumpNonce, Tick, chainVars, dbVars
<1>2. /\ now' \in Nat /\ now <= now' /\ chain'.supply <= chain.supply
      /\ chain'.minted = chain.minted /\ chain'.dayStart = chain.dayStart
  <2>1. now \in Nat /\ chain \in [minted : Nat, dayStart : Nat, supply : Nat, nonce : Nat]
    BY DEF CapInv, SplitInv, TypeOK, ChainOK
  <2>2. CASE Burn
    BY <2>1, <2>2 DEF Burn
  <2>3. CASE BumpNonce
    BY <2>1, <2>3 DEF BumpNonce
  <2>4. CASE Tick
    BY <2>1, <2>4 DEF Tick, chainVars
  <2> QED BY <2>2, <2>3, <2>4
<1>3. MintedToday(CapState, now)' <= MintedToday(CapState, now)
  BY <1>2, MintedTodayFalls DEF CapInv, SplitInv
<1>4. Committed' = Committed /\ \A b : OutstandingReserved(b, {})' = OutstandingReserved(b, {})
  BY <1>1, ReservedSame DEF Committed, RequestAmount, Owed, Reserving
<1>5. Sums /\ Sums'
  BY OwedType, SumsNext DEF Sums, CapInv, SplitInv
<1>6. CapacityNotOvercommitted'
  BY <1>2, <1>3, <1>4, <1>5, CapacityKept DEF CapInv, SplitInv, Sums
<1>7. \A o \in Orders : SentInv(o)'
  BY <1>1 DEF CapInv, SentInv
<1>8. NeverRefusedForTheCap'
  BY <1>1 DEF CapInv, NeverRefusedForTheCap
<1>9. ASSUME NEW j \in Instances PROVE CapJobInv(j)'
  <2>1. CapJobInv(j) /\ ProcOK(proc[j], Len(txs))
    BY DEF CapInv, SplitInv, TypeOK, ProcsOK
  <2>2. CASE proc[j].pc # "create"
    BY <1>1, <2>1, <2>2 DEF CapJobInv
  <2>3. CASE proc[j].pc = "create"
    <3> DEFINE c == proc[j].cap
    <3>1. c \in CapStates
      BY <2>1, <2>3 DEF ProcOK
    <3>2. MintedToday(c, c.time) \in Nat /\ c.supply \in Nat
      BY <3>1, RemainingType DEF CapStates
    <3>3. OutstandingReserved(c.block, {}) \in Nat
      <4>1. Reserving(c.block) \ {} \in SUBSET Orders
        BY DEF Reserving
      <4> QED BY <4>1, OwedType, TotalType DEF OutstandingReserved, CapInv, SplitInv
    <3>4. /\ MintedToday(CapState, now) + Committed
               <= MintedToday(c, c.time) + OutstandingReserved(c.block, {})
          /\ chain.supply + Committed <= c.supply + OutstandingReserved(c.block, {})
      BY <2>1, <2>3 DEF CapJobInv
    <3> HIDE DEF c
    <3>5. /\ MintedToday(CapState, now)' + Committed'
               <= MintedToday(c, c.time) + OutstandingReserved(c.block, {})
          /\ chain'.supply + Committed' <= c.supply + OutstandingReserved(c.block, {})
      BY <1>2, <1>3, <1>4, <1>5, <3>2, <3>3, <3>4 DEF Sums
    <3> QED BY <1>1, <1>4, <2>3, <3>5 DEF CapJobInv, c
  <2> QED BY <2>2, <2>3
<1> QED BY <1>6, <1>7, <1>8, <1>9 DEF CapInv
LEMMA SendCap ==
  ASSUME OneInstance, CapInv, SplitInv', NEW i \in Instances, Send(i)
  PROVE  CapInv'
<1> DEFINE p == [pc |-> "record", order |-> proc[i].order, tx |-> Len(txs) + 1]
<1>1. /\ UNCHANGED <<order, req, chain, minted, mined, now>>
      /\ txs' = Append(txs, SentBy(i)) /\ proc' = [proc EXCEPT ![i] = p]
  BY DEF Send, SentBy, dbVars
<1>2. /\ SentBy(i) \in Transactions /\ SentBy(i).order = proc[i].order
      /\ proc[i].order \in Orders /\ order[proc[i].order] = "MINT_AUTH_CREATED"
  BY SentByType DEF Send, SentBy, CapInv, CapJobInv, SplitInv, TypeOK, ProcsOK, ProcOK
<1>3. /\ Len(txs') = Len(txs) + 1 /\ Len(txs) \in Nat /\ mined \in 0 .. Len(txs)
      /\ \A k \in 1 .. Len(txs) : txs'[k] = txs[k]
      /\ txs'[Len(txs) + 1] = SentBy(i)
  BY <1>1, <1>2, AppendType DEF CapInv, SplitInv, TypeOK, ChainOK
<1>4. p.pc = "record" /\ p.order = proc[i].order /\ p.tx = Len(txs) + 1
  OBVIOUS
<1> HIDE DEF p
<1>5. proc'[i] = p
  BY <1>1, ProcAt DEF CapInv, SplitInv
<1>6. \A j \in Instances : CapJobInv(j)'
  <2> SUFFICES CapJobInv(i)'
    BY DEF OneInstance
  <2> QED BY <1>1, <1>2, <1>3, <1>4, <1>5 DEF CapJobInv
<1>7. ASSUME NEW o \in Orders PROVE SentInv(o)'
  <2>1. SentInv(o)
    BY DEF CapInv
  <2>2. order[o] # "MINT_AUTH_CREATED" =>
          \A k \in 1 .. Len(txs') : txs'[k].order = o => k \in 1 .. Len(txs) /\ txs[k].order = o
    BY <1>2, <1>3
  <2> QED BY <1>1, <2>1, <2>2 DEF SentInv
<1>8. CapacityNotOvercommitted'
  BY <1>1 DEF CapInv, CapacityNotOvercommitted, MintedToday, WindowStale, CapState,
              RequestAmount, Owed, Reserving
<1>9. NeverRefusedForTheCap'
  <2>1. \A k \in 1 .. mined : txs'[k] = txs[k]
    BY <1>3
  <2> QED BY <1>1, <2>1 DEF CapInv, NeverRefusedForTheCap
<1> QED BY <1>6, <1>7, <1>8, <1>9 DEF CapInv

(* A step of the only instance that leaves the chain and keeps or drops    *)
(* what is owed.                                                           *)
LEMMA RowMovesCap ==
  ASSUME OneInstance, CapInv, SplitInv', UNCHANGED <<chain, minted, txs, mined, now>>,
         NEW i \in Instances, proc'[i].pc \in {"idle", "complete"},
         \A o \in Orders :
           /\ req'[o].amount = req[o].amount
           /\ order'[o] \in {"MINT_AUTH_CREATED", "MINT_SUBMITTED"} =>
                order[o] \in {"MINT_AUTH_CREATED", "MINT_SUBMITTED"}
           /\ req'[o].hash = req[o].hash \/ req[o].hash = 0
           /\ SentInv(o)',
         ErrorsKept
  PROVE  CapInv'
<1>1. Owed' \subseteq Owed
  BY OwedShrinks DEF CapInv, SplitInv
<1>2. Committed' <= Committed
  BY <1>1, CommittedShrinks DEF CapInv, SplitInv
<1>3. Sums
  BY OwedType DEF Sums, CapInv, SplitInv
<1>4. MintedToday(CapState, now)' = MintedToday(CapState, now)
  BY DEF MintedToday, WindowStale, CapState
<1>5. CapacityNotOvercommitted'
  BY <1>2, <1>3, <1>4, CapacityKept DEF CapInv, SplitInv, Sums
<1>6. NeverRefusedForTheCap'
  BY DEF CapInv, NeverRefusedForTheCap, ErrorsKept
<1>7. \A j \in Instances : CapJobInv(j)'
  <2> SUFFICES CapJobInv(i)'
    BY DEF OneInstance
  <2> QED BY DEF CapJobInv
<1> QED BY <1>5, <1>6, <1>7 DEF CapInv

LEMMA RecordSubmissionCap ==
  ASSUME OneInstance, CapInv, SplitInv', NEW i \in Instances, RecordSubmission(i)
  PROVE  CapInv'
<1> DEFINE o == proc[i].order
           t == proc[i].tx
<1>1. UNCHANGED <<chain, minted, txs, mined, now>> /\ proc' = [proc EXCEPT ![i] = Idle]
  BY DEF RecordSubmission, chainVars
<1>2. o \in Orders /\ order[o] = "MINT_AUTH_CREATED" /\ t = Len(txs) /\ SentInv(o)
  BY DEF RecordSubmission, CapInv, SplitInv, TypeOK, ProcsOK, ProcOK, CapJobInv
<1>3. proc'[i] = Idle /\ Idle.pc = "idle"
  BY <1>1, ProcAt DEF CapInv, SplitInv, Idle
<1>4. /\ req' = [req EXCEPT ![o].hash = t, ![o].error = "none"]
      /\ order' = [order EXCEPT ![o] = "MINT_SUBMITTED"]
  BY <1>2 DEF RecordSubmission
<1>5. req \in [Orders -> Requests] /\ order \in [Orders -> States] /\ Len(txs) \in Nat
  BY DEF CapInv, SplitInv, TypeOK, DatabaseOK, ChainOK
<1> HIDE DEF o, t
<1>6. /\ order'[o] = "MINT_SUBMITTED" /\ req'[o].hash = t /\ req'[o].error = "none"
      /\ req'[o].amount = req[o].amount
      /\ \A x \in Orders : x # o => order'[x] = order[x] /\ req'[x] = req[x]
  BY <1>2, <1>4, <1>5 DEF Requests
<1>7. ErrorsKept
  BY <1>6 DEF ErrorsKept, CapRefusals
<1>8. ASSUME NEW x \in Orders PROVE SentInv(x)'
  <2>1. SentInv(x)
    BY DEF CapInv
  <2>2. CASE x = o
    BY <1>1, <1>2, <1>5, <1>6, <2>2 DEF SentInv
  <2>3. CASE x # o
    BY <1>1, <1>6, <2>1, <2>3 DEF SentInv
  <2> QED BY <2>2, <2>3
<1>9. req[o].hash = 0
  BY <1>2 DEF SentInv
<1>10. \A x \in Orders :
           /\ req'[x].amount = req[x].amount
           /\ order'[x] \in {"MINT_AUTH_CREATED", "MINT_SUBMITTED"} =>
                order[x] \in {"MINT_AUTH_CREATED", "MINT_SUBMITTED"}
           /\ req'[x].hash = req[x].hash \/ req[x].hash = 0
  BY <1>2, <1>6, <1>9
<1> QED BY <1>1, <1>3, <1>7, <1>8, <1>10, RowMovesCap

LEMMA ConfirmMintCap ==
  ASSUME OneInstance, CapInv, SplitInv', NEW i \in Instances, NEW o \in Orders, ConfirmMint(i, o)
  PROVE  CapInv'
<1>1. UNCHANGED <<req, chain, minted, txs, mined, now>>
  BY DEF ConfirmMint, chainVars
<1>2. /\ order[o] = "MINT_SUBMITTED" /\ req[o].hash \in 1 .. mined /\ SentInv(o)
      /\ mined \in 0 .. Len(txs) /\ Len(txs) \in Nat /\ order \in [Orders -> States]
  BY DEF ConfirmMint, CapInv, SplitInv, TypeOK, ChainOK, DatabaseOK
<1>3. /\ order'[o] \in {"MINT_CONFIRMED", "FAILED"}
      /\ \A x \in Orders : x # o => order'[x] = order[x]
  BY <1>2 DEF ConfirmMint
<1>4. proc'[i].pc \in {"idle", "complete"}
  <2>1. proc[i].pc = "idle" /\ proc = [j \in Instances |-> proc[j]]
    BY DEF ConfirmMint, CapInv, SplitInv, TypeOK, ProcsOK
  <2>2. \/ proc' = [proc EXCEPT ![i] = [pc |-> "complete", order |-> o]]
        \/ proc' = proc
    BY DEF ConfirmMint
  <2> QED BY <2>1, <2>2
<1>5. ASSUME NEW x \in Orders PROVE SentInv(x)'
  <2>1. SentInv(x)
    BY DEF CapInv
  <2>2. CASE x = o
    BY <1>1, <1>2, <1>3, <2>2 DEF SentInv
  <2>3. CASE x # o
    BY <1>1, <1>3, <2>1, <2>3 DEF SentInv
  <2> QED BY <2>2, <2>3
<1>6. ErrorsKept
  BY <1>1, SameErrors
<1> QED BY <1>1, <1>3, <1>4, <1>5, <1>6, RowMovesCap

LEMMA CompleteMintCap ==
  ASSUME OneInstance, CapInv, SplitInv', NEW i \in Instances, CompleteMint(i)
  PROVE  CapInv'
<1> DEFINE o == proc[i].order
<1>1. UNCHANGED <<req, chain, minted, txs, mined, now>> /\ proc' = [proc EXCEPT ![i] = Idle]
  BY DEF CompleteMint, chainVars
<1>2. o \in Orders /\ order \in [Orders -> States]
  BY DEF CompleteMint, CapInv, SplitInv, TypeOK, ProcsOK, ProcOK, DatabaseOK
<1>3. proc'[i] = Idle /\ Idle.pc = "idle"
  BY <1>1, ProcAt DEF CapInv, SplitInv, Idle
<1>4. \A x \in Orders : \/ order'[x] = order[x]
                        \/ order[x] = "MINT_CONFIRMED" /\ order'[x] = "COMPLETED"
  BY <1>2 DEF CompleteMint
<1>5. ASSUME NEW x \in Orders PROVE SentInv(x)'
  <2>1. SentInv(x)
    BY DEF CapInv
  <2> QED BY <1>1, <1>4, <2>1 DEF SentInv
<1>6. ErrorsKept
  BY <1>1, SameErrors
<1> QED BY <1>1, <1>3, <1>4, <1>5, <1>6, RowMovesCap
(* What is committed of a limit grows by m, and m was free. *)
LEMMA StillWithin ==
  ASSUME NEW used \in Nat, NEW owed \in Nat, NEW owedNext \in Nat, NEW m \in Nat,
         NEW read \in Nat, NEW reserved \in Nat, NEW limit \in Nat,
         owedNext <= owed + m, used + owed <= read + reserved, m + reserved + read <= limit
  PROVE  used + owedNext <= limit
OBVIOUS

(* The split takes no more than what is left of what it read, and what it  *)
(* read still bounds what is committed.                                    *)
LEMMA CreateCommitCap ==
  ASSUME OneInstance, CapInv, SplitInv', NEW i \in Instances, CreateCommit(i)
  PROVE  CapInv'
<1> DEFINE o     == proc[i].order
           c     == proc[i].cap
           split == DecideSplit(c, Deposit[o], {})
           m     == split.mint
           row   == IF m > 0
                    THEN [NoRequest EXCEPT !.amount = m,
                                           !.deadline = now + MintDeadline,
                                           !.nonce = proc[i].nonce]
                    ELSE req[o]
           s     == IF m > 0 THEN "MINT_AUTH_CREATED" ELSE "REFUNDED"
           R     == OutstandingReserved(c.block, {})
           MT    == MintedToday(c, c.time)
<1>1. /\ UNCHANGED <<chain, minted, txs, mined, now>>
      /\ proc' = [proc EXCEPT ![i] = Idle]
      /\ req' = [req EXCEPT ![o] = row]
      /\ order' = [order EXCEPT ![o] = s]
  BY DEF CreateCommit, chainVars
<1>2. /\ o \in Orders /\ c \in CapStates /\ RowInv(o) /\ JobInv(i) /\ CapJobInv(i)
      /\ order[o] = "DEPOSIT_FINALIZED"
  BY DEF CreateCommit, CapInv, SplitInv, TypeOK, ProcsOK, ProcOK, JobInv
<1>3. /\ split \in [mint : Nat, excess : Nat]
      /\ m <= Monus(RemainingToday(c, c.time), R)
      /\ R \in Nat
  BY <1>2, DecisionType DEF CapInv, SplitInv
<1>4. /\ MT \in Nat /\ RemainingToday(c, c.time) \in Nat /\ c.supply \in Nat
      /\ RemainingToday(c, c.time) <= Monus(DailyMintLimit, MT)
      /\ MaxSupply > 0 => RemainingToday(c, c.time) <= Monus(MaxSupply, c.supply)
  BY <1>2, RemainingType DEF CapStates
<1>5. /\ MintedToday(CapState, now) + Committed <= MT + R
      /\ chain.supply + Committed <= c.supply + R
  BY <1>2 DEF CapJobInv, CreateCommit
<1>6. Sums
  BY OwedType DEF Sums, CapInv, SplitInv
<1>7. /\ row.amount = m
      /\ m > 0 => row.hash = 0 /\ row.error = "none"
      /\ ~(m > 0) => row = req[o]
  <2>1. req[o].amount \in Nat /\ ~(req[o].amount > 0)
    BY <1>2 DEF RowInv, Decided, CapInv, SplitInv, TypeOK, DatabaseOK, Requests
  <2>2. m \in Nat
    BY <1>3
  <2> HIDE DEF m
  <2>3. CASE m > 0
    BY <2>3 DEF NoRequest
  <2>4. CASE ~(m > 0)
    BY <2>1, <2>2, <2>4
  <2> QED BY <2>3, <2>4
<1>8. \/ s = "MINT_AUTH_CREATED" /\ m > 0
      \/ s = "REFUNDED" /\ ~(m > 0)
  OBVIOUS
<1>9. m \in Nat
  BY <1>3
<1> HIDE DEF row, s, m, split, o, c, R, MT
<1>10. /\ order'[o] = s /\ req'[o] = row
       /\ \A x \in Orders : x # o => order'[x] = order[x] /\ req'[x] = req[x]
  BY <1>1, <1>2 DEF CapInv, SplitInv, TypeOK, DatabaseOK
<1>11. o \notin Owed
  BY <1>2 DEF Owed, Reserving
<1>12. /\ Owed' \subseteq Owed \cup {o}
       /\ ~(m > 0) => Owed' \subseteq Owed
  <2>1. ASSUME NEW x \in Orders, x # o, x \in Owed' PROVE x \in Owed
    BY <1>1, <1>10, <2>1 DEF Owed, Reserving
  <2>2. ~(m > 0) => o \notin Owed'
    BY <1>8, <1>10 DEF Owed, Reserving
  <2>3. Owed' \subseteq Orders
    BY DEF Owed, Reserving
  <2> QED BY <2>1, <2>2, <2>3
<1>13. Committed' <= Committed + m
  <2>1. Owed \in SUBSET Orders /\ RequestAmount \in [Orders -> Nat]
    BY OwedType DEF CapInv, SplitInv
  <2>2. RequestAmount' \in [Orders -> Nat] /\ RequestAmount'[o] = m
        /\ \A x \in Owed : RequestAmount'[x] = RequestAmount[x]
    <3>1. \A x \in Orders : req'[x].amount \in Nat
      BY DEF SplitInv, TypeOK, DatabaseOK, Requests
    <3> QED BY <1>2, <1>7, <1>10, <1>11, <2>1, <3>1 DEF RequestAmount
  <2> DEFINE f == RequestAmount
             g == RequestAmount'
             A == Owed
             B == Owed'
  <2>3. Committed = TotalOf(f, A) /\ Committed' = TotalOf(g, B)
    BY DEF Committed
  <2>4. f \in [Orders -> Nat] /\ g \in [Orders -> Nat] /\ g[o] = m
        /\ (\A x \in A : f[x] = g[x]) /\ A \in SUBSET Orders /\ o \notin A
        /\ B \subseteq A \cup {o} /\ (~(m > 0) => B \subseteq A)
    BY <1>11, <1>12, <2>1, <2>2
  <2> HIDE DEF f, g, A, B
  <2>5. TotalOf(f, A) = TotalOf(g, A)
    BY <2>4, TotalCongruent
  <2>6. TotalOf(g, A) \in Nat
    BY <2>4, TotalType
  <2>7. CASE m > 0
    <3>1. A \cup {o} \in SUBSET Orders
      BY <1>2, <2>4
    <3>2. TotalOf(g, A \cup {o}) = TotalOf(g, A) + m
      BY <1>2, <2>4, TotalAdd
    <3>3. TotalOf(g, B) <= TotalOf(g, A \cup {o})
      BY <2>4, <3>1, TotalMonotone
    <3> QED BY <2>3, <2>5, <3>2, <3>3
  <2>8. CASE ~(m > 0)
    <3>1. TotalOf(g, B) <= TotalOf(g, A)
      BY <2>4, <2>8, TotalMonotone
    <3>2. TotalOf(g, B) \in Nat
      <4>1. B \in SUBSET Orders
        BY <2>4, <2>8
      <4> QED BY <2>4, <4>1, TotalType
    <3> QED BY <1>9, <2>3, <2>5, <2>6, <2>8, <3>1, <3>2
  <2> QED BY <2>7, <2>8
<1>14. MintedToday(CapState, now)' = MintedToday(CapState, now) /\ chain' = chain
  BY <1>1 DEF MintedToday, WindowStale, CapState
<1>15. CapacityNotOvercommitted'
  <2>1. Sums'
    BY SumsNext DEF SplitInv
  <2>2. CASE ~(m > 0)
    <3>1. Committed' <= Committed
      BY <1>6, <1>9, <1>13, <2>1, <2>2 DEF Sums
    <3> QED BY <1>6, <1>14, <3>1, CapacityKept DEF CapInv, SplitInv, Sums
  <2>3. CASE m > 0
    <3> DEFINE rem == RemainingToday(c, c.time)
               T == MintedToday(CapState, now)
    <3>1. rem \in Nat /\ m <= Monus(rem, R)
      BY <1>3, <1>4 DEF m, split, c, o, R
    <3>2. rem <= Monus(DailyMintLimit, MT) /\ (MaxSupply > 0 => rem <= Monus(MaxSupply, c.supply))
      BY <1>4
    <3> HIDE DEF rem, T
    <3>3. m + R <= rem
      BY <1>3, <1>9, <2>3, <3>1 DEF Monus
    <3>4. m + R + MT <= DailyMintLimit
      BY <1>3, <1>4, <1>9, <2>3, <3>1, <3>2, <3>3, CapAssumption DEF Monus
    <3>5. MaxSupply > 0 => m + R + c.supply <= MaxSupply
      BY <1>3, <1>4, <1>9, <2>3, <3>1, <3>2, <3>3, CapAssumption DEF Monus
    <3>6. T \in Nat /\ Committed \in Nat /\ Committed' \in Nat /\ chain.supply \in Nat
      BY <1>6, <2>1 DEF Sums, T
    <3>7. T + Committed <= MT + R /\ chain.supply + Committed <= c.supply + R
      BY <1>5 DEF T
    <3>n. R \in Nat /\ MT \in Nat /\ c.supply \in Nat /\ m \in Nat
      BY <1>3, <1>4, <1>9
    <3>8. T + Committed' <= DailyMintLimit
      BY ONLY <3>n, <1>13, <3>4, <3>6, <3>7, CapAssumption, StillWithin
    <3>9. MaxSupply > 0 => chain.supply + Committed' <= MaxSupply
      BY ONLY <3>n, <1>13, <3>5, <3>6, <3>7, CapAssumption, StillWithin
    <3> QED BY <1>14, <3>8, <3>9 DEF CapacityNotOvercommitted, Committed, T
  <2> QED BY <2>2, <2>3
<1>16. NeverRefusedForTheCap'
  <2>1. \A x \in Orders : req'[x].error = req[x].error \/ req'[x].error = "none"
    BY <1>7, <1>10
  <2> QED BY <1>1, <2>1 DEF CapInv, NeverRefusedForTheCap, CapRefusals
<1>17. ASSUME NEW x \in Orders PROVE SentInv(x)'
  <2>1. SentInv(x)
    BY DEF CapInv
  <2>2. CASE x = o
    BY <1>7, <1>8, <1>10, <2>2 DEF SentInv
  <2>3. CASE x # o
    BY <1>1, <1>10, <2>1, <2>3 DEF SentInv
  <2> QED BY <2>2, <2>3
<1>18. \A j \in Instances : CapJobInv(j)'
  <2>1. proc'[i] = Idle /\ Idle.pc = "idle"
    BY <1>1, ProcAt DEF CapInv, SplitInv, Idle
  <2> SUFFICES CapJobInv(i)'
    BY DEF OneInstance
  <2> QED BY <2>1 DEF CapJobInv
<1> QED BY <1>15, <1>16, <1>17, <1>18 DEF CapInv
(* The next transaction of the account is for an order still owed, unless  *)
(* its deposit is minted already.                                          *)
LEMMA NextIsOwed ==
  ASSUME CapInv, mined + 1 \in 1 .. Len(txs), ~(minted[txs[mined + 1].order] > 0)
  PROVE  /\ txs[mined + 1].order \in Owed
         /\ txs[mined + 1].amount = req[txs[mined + 1].order].amount
         /\ txs[mined + 1].amount > 0
<1> DEFINE k == mined + 1
           o == txs[k].order
<1>1. /\ o \in Orders /\ TxInv(k) /\ SentInv(o) /\ RowInv(o)
      /\ mined \in Nat /\ minted[o] \in Nat /\ req[o].hash \in Nat
  BY SentType, SMTT(30) DEF CapInv, SplitInv, TypeOK, ChainOK, DatabaseOK, Requests
<1>2. Decided(o) /\ txs[k].amount = req[o].amount /\ req[o].amount > 0
  BY <1>1 DEF TxInv, RowInv
<1>3. minted[o] = 0
  BY <1>1
<1>4. order[o] \notin {"MINT_CONFIRMED", "COMPLETED", "FAILED"}
  <2>1. ~(k <= mined)
    BY <1>1
  <2>2. k \in 1 .. Len(txs) /\ txs[k].order = o
    OBVIOUS
  <2> HIDE DEF k, o
  <2> QED BY <1>1, <2>1, <2>2 DEF SentInv
<1>5. CASE order[o] = "MINT_AUTH_CREATED"
  BY <1>1, <1>2, <1>3, <1>5 DEF SentInv, Owed, Reserving
<1>6. CASE order[o] = "MINT_SUBMITTED"
  <2>1. k <= req[o].hash
    BY <1>1, <1>6 DEF SentInv
  <2>2. ~(req[o].hash <= mined)
    BY <1>1, <2>1
  <2> QED BY <1>1, <1>2, <1>3, <1>6, <2>2 DEF Owed, Reserving
<1> QED BY <1>2, <1>4, <1>5, <1>6 DEF Decided

LEMMA OneForOne ==
  ASSUME NEW used \in Nat, NEW usedNext \in Nat, NEW owed \in Nat, NEW owedNext \in Nat,
         NEW a \in Nat, usedNext <= used + a, owedNext + a <= owed
  PROVE  usedNext + owedNext <= used + owed
OBVIOUS

(* A block turns what is owed into what is minted, one for one, and        *)
(* refuses nothing owed for the cap.                                       *)
LEMMA MineNextCap ==
  ASSUME CapInv, SplitInv', MineNext
  PROVE  CapInv'
<1> DEFINE k0 == mined + 1
           o  == txs[k0].order
           a  == txs[k0].amount
<1>1. UNCHANGED <<order, req, proc, now>>
  BY DEF MineNext, dbVars
<1>2. /\ k0 \in 1 .. Len(txs) /\ Len(txs') = Len(txs) /\ mined' = mined + 1
      /\ \A k \in 1 .. Len(txs) :
           /\ txs'[k].order = txs[k].order
           /\ txs'[k].amount = txs[k].amount
           /\ k # k0 => txs'[k] = txs[k]
  BY MineType DEF CapInv, SplitInv
<1>3. /\ o \in Orders /\ a \in Nat /\ mined \in Nat /\ Len(txs) \in Nat
      /\ txs \in Seq(Transactions) /\ minted \in [Orders -> Nat]
      /\ chain \in [minted : Nat, dayStart : Nat, supply : Nat, nonce : Nat]
  BY <1>2, SentType DEF CapInv, SplitInv, TypeOK, ChainOK
<1>4. Sums /\ Sums'
  BY OwedType, SumsNext DEF Sums, CapInv, SplitInv
<1>5. \A b : OutstandingReserved(b, {})' = OutstandingReserved(b, {})
  BY <1>1, ReservedSame
<1>6. RequestAmount' = RequestAmount
  BY <1>1 DEF RequestAmount
<1>7. txs[k0] \in Transactions
  BY <1>2, <1>3
<1>8. /\ MintedToday(CapState, now)' + Committed' <= MintedToday(CapState, now) + Committed
      /\ chain'.supply + Committed' <= chain.supply + Committed
      /\ txs'[k0].outcome \in CapRefusals => minted[o] > 0
      /\ \A x \in Orders : minted[x] > 0 => minted'[x] > 0
  <2>1. CASE Refusals(txs[k0]) = {}
    <3>1. /\ minted' = [minted EXCEPT ![o] = a]
          /\ chain' = [chain EXCEPT !.minted = MintedToday(CapState, now) + a,
                                    !.dayStart = WindowStart(CapState, now),
                                    !.supply = @ + a]
          /\ txs' = [txs EXCEPT ![k0].outcome = "minted"]
          /\ ~(minted[o] > 0)
      BY <2>1 DEF MineNext, Refusals
    <3>2. o \in Owed /\ a = req[o].amount /\ a > 0
      BY <1>2, <3>1, NextIsOwed
    <3>3. txs'[k0].outcome = "minted"
      BY <1>2, <1>3, <1>7, <3>1 DEF Transactions
    <3> DEFINE before == MintedToday(CapState, now)
               after  == MintedToday(CapState, now)'
               T == before + a
               W == WindowStart(CapState, now)
    <3>4. before \in Nat /\ after \in Nat /\ T \in Nat /\ chain.supply \in Nat
          /\ Committed \in Nat /\ Committed' \in Nat
      BY <1>3, <1>4, SMTT(30) DEF Sums
    <3>5. chain'.minted = T /\ chain'.supply = chain.supply + a
      BY <1>3, <3>1
    <3>6. after \in {0, chain'.minted}
      BY DEF MintedToday, CapState
    <3> HIDE DEF before, after, T, W
    <3>7. after <= before + a
      BY <1>3, <3>4, <3>5, <3>6 DEF T
    <3>8. Committed' + a <= Committed
      <4>1. Owed \in SUBSET Orders /\ RequestAmount \in [Orders -> Nat]
        BY OwedType DEF CapInv, SplitInv
      <4>2. Owed' \subseteq Owed \ {o}
        <5>1. ASSUME NEW x \in Owed' PROVE x \in Owed /\ x # o
          <6>1. x \in Orders /\ minted'[x] = 0
            BY DEF Owed, Reserving
          <6>2. x # o /\ minted[x] = 0
            BY <1>3, <3>1, <3>2, <6>1
          <6>3. req[x].hash \in Nat
            BY <6>1 DEF CapInv, SplitInv, TypeOK, DatabaseOK, Requests
          <6> QED BY <1>1, <1>2, <1>3, <6>1, <6>2, <6>3 DEF Owed, Reserving
        <5> QED BY <5>1
      <4>3. Committed = TotalOf(RequestAmount, Owed \ {o}) + RequestAmount[o]
        BY <3>2, <4>1, TotalMember DEF Committed
      <4>4. RequestAmount[o] = a
        BY <1>3, <3>2 DEF RequestAmount
      <4> DEFINE A == Owed
                 B == Owed'
                 f == RequestAmount
      <4>5. B \in SUBSET (A \ {o}) /\ A \ {o} \in SUBSET Orders /\ f \in [Orders -> Nat]
            /\ Committed' = TotalOf(f, B) /\ Committed = TotalOf(f, A \ {o}) + a
        BY <1>6, <4>1, <4>2, <4>3, <4>4 DEF Committed
      <4> HIDE DEF A, B, f
      <4>6. TotalOf(f, B) <= TotalOf(f, A \ {o}) /\ TotalOf(f, A \ {o}) \in Nat
        BY <4>5, TotalMonotone, TotalType
      <4> QED BY <1>3, <3>4, <4>5, <4>6
    <3>9. after + Committed' <= before + Committed
      BY ONLY <1>3, <3>4, <3>7, <3>8, OneForOne
    <3>10. chain'.supply + Committed' <= chain.supply + Committed
      BY <1>3, <3>4, <3>5, <3>8
    <3>11. \A x \in Orders : minted[x] > 0 => minted'[x] > 0
      BY <1>3, <3>1, <3>2
    <3> QED BY <3>3, <3>9, <3>10, <3>11 DEF before, after, CapRefusals
  <2>2. CASE Refusals(txs[k0]) # {}
    <3>1. PICK why \in Refusals(txs[k0]) : txs' = [txs EXCEPT ![k0].outcome = why]
      BY <2>2 DEF MineNext
    <3>2. UNCHANGED <<minted, chain>>
      BY <2>2 DEF MineNext
    <3>3. txs'[k0].outcome = why
      BY <1>2, <1>3, <1>7, <3>1 DEF Transactions
    <3>4. why \in CapRefusals => minted[o] > 0
      <4> SUFFICES ASSUME ~(minted[o] > 0) PROVE why \notin CapRefusals
        OBVIOUS
      <4>1. o \in Owed /\ a = req[o].amount
        BY <1>2, NextIsOwed
      <4>2. Refusals(txs[k0]) \cap CapRefusals = {}
        BY <4>1, OwedNotRefused DEF CapInv, SplitInv
      <4> QED BY <3>1, <4>2
    <3>5. Owed' \subseteq Owed
      <4>1. \A x \in Orders : req[x].hash \in Nat
        BY DEF CapInv, SplitInv, TypeOK, DatabaseOK, Requests
      <4> QED BY <1>1, <1>2, <1>3, <3>2, <4>1 DEF Owed, Reserving
    <3>6. Committed' <= Committed
      BY <1>1, <3>5, CommittedShrinks DEF CapInv, SplitInv
    <3>7. MintedToday(CapState, now)' = MintedToday(CapState, now)
      BY <1>1, <3>2 DEF MintedToday, WindowStale, CapState
    <3> QED BY <1>4, <3>2, <3>3, <3>4, <3>6, <3>7 DEF Sums
  <2> QED BY <2>1, <2>2
<1>9. CapacityNotOvercommitted'
  <2>1. /\ MintedToday(CapState, now) + Committed <= DailyMintLimit
        /\ MaxSupply > 0 => chain.supply + Committed <= MaxSupply
    BY DEF CapInv, CapacityNotOvercommitted, Committed
  <2> DEFINE mt == MintedToday(CapState, now)
             mtn == MintedToday(CapState, now)'
             sn == chain'.supply
             cn == Committed'
  <2>2. mt \in Nat /\ mtn \in Nat /\ Committed \in Nat /\ cn \in Nat /\ chain.supply \in Nat /\ sn \in Nat
    BY <1>4 DEF Sums
  <2>3. mtn + cn <= mt + Committed /\ sn + cn <= chain.supply + Committed
    BY <1>8
  <2>4. mt + Committed <= DailyMintLimit /\ (MaxSupply > 0 => chain.supply + Committed <= MaxSupply)
    BY <2>1
  <2> HIDE DEF mt, mtn, sn, cn
  <2>5. mtn + cn <= DailyMintLimit /\ (MaxSupply > 0 => sn + cn <= MaxSupply)
    BY <2>2, <2>3, <2>4, CapAssumption
  <2> QED BY <2>5 DEF CapacityNotOvercommitted, Committed, mtn, sn, cn
<1>10. NeverRefusedForTheCap'
  <2>1. \A x \in Orders : req'[x].error \in CapRefusals => minted'[x] > 0
    BY <1>1, <1>8 DEF CapInv, NeverRefusedForTheCap
  <2>2. ASSUME NEW k \in 1 .. mined', txs'[k].outcome \in CapRefusals
        PROVE  minted'[txs'[k].order] > 0
    <3>1. k \in 1 .. Len(txs)
      BY <1>2, <1>3
    <3>2. txs'[k].order = txs[k].order /\ txs[k].order \in Orders
      BY <1>2, <3>1, SentType DEF CapInv, SplitInv
    <3>3. minted[txs[k].order] > 0
      <4>1. CASE k = k0
        BY <1>8, <2>2, <4>1
      <4>2. CASE k # k0
        <5>1. k \in 1 .. mined /\ txs'[k] = txs[k]
          BY <1>2, <1>3, <3>1, <4>2
        <5> QED BY <2>2, <5>1 DEF CapInv, NeverRefusedForTheCap
      <4> QED BY <4>1, <4>2
    <3> QED BY <1>8, <3>2, <3>3
  <2> QED BY <2>1, <2>2 DEF NeverRefusedForTheCap
<1>11. ASSUME NEW x \in Orders PROVE SentInv(x)'
  <2>1. SentInv(x)
    BY DEF CapInv
  <2>2. \A k \in 1 .. Len(txs') : txs'[k].order = x => k \in 1 .. Len(txs) /\ txs[k].order = x
    BY <1>2
  <2>3. \A k \in Nat : k <= mined => k <= mined'
    BY <1>2, <1>3
  <2> QED BY <1>1, <2>1, <2>2, <2>3 DEF SentInv
<1>12. ASSUME NEW j \in Instances PROVE CapJobInv(j)'
  <2>1. CapJobInv(j) /\ ProcOK(proc[j], Len(txs))
    BY DEF CapInv, SplitInv, TypeOK, ProcsOK
  <2>2. CASE proc[j].pc # "create"
    BY <1>1, <1>2, <2>1, <2>2 DEF CapJobInv
  <2>3. CASE proc[j].pc = "create"
    <3> DEFINE c == proc[j].cap
               mt == MintedToday(CapState, now)
               mtn == MintedToday(CapState, now)'
               sn == chain'.supply
               cn == Committed'
               R == OutstandingReserved(c.block, {})
    <3>1. c \in CapStates
      BY <2>1, <2>3 DEF ProcOK
    <3>2. MintedToday(c, c.time) \in Nat /\ c.supply \in Nat
      BY <3>1, RemainingType DEF CapStates
    <3>3. R \in Nat
      <4>1. Reserving(c.block) \ {} \in SUBSET Orders
        BY DEF Reserving
      <4> QED BY <4>1, OwedType, TotalType DEF OutstandingReserved, CapInv, SplitInv
    <3>4. mt \in Nat /\ mtn \in Nat /\ Committed \in Nat /\ cn \in Nat /\ chain.supply \in Nat /\ sn \in Nat
      BY <1>4 DEF Sums
    <3>5. mt + Committed <= MintedToday(c, c.time) + R /\ chain.supply + Committed <= c.supply + R
      BY <2>1, <2>3 DEF CapJobInv
    <3>6. mtn + cn <= mt + Committed /\ sn + cn <= chain.supply + Committed
      BY <1>8
    <3> HIDE DEF c, mt, mtn, sn, cn, R
    <3>7. mtn + cn <= MintedToday(c, c.time) + R /\ sn + cn <= c.supply + R
      BY <3>2, <3>3, <3>4, <3>5, <3>6
    <3> QED BY <1>1, <1>5, <2>3, <3>7 DEF CapJobInv, c, mtn, sn, cn, R
  <2> QED BY <2>2, <2>3
<1> QED BY <1>9, <1>10, <1>11, <1>12 DEF CapInv
-------------------------------------------------------------------------------
LEMMA CapInit ==
  ASSUME LegacyOrders = {}
  PROVE  Init => CapInv
<1> SUFFICES ASSUME Init PROVE CapInv
  OBVIOUS
<1>1. SplitInv
  BY SplitInit
<1>2. /\ Len(txs) = 0 /\ mined = 0 /\ chain.supply = 0
      /\ \A o \in Orders : order[o] = "DEPOSIT_FINALIZED" /\ req[o].error = "none"
      /\ \A i \in Instances : proc[i].pc = "idle"
  BY DEF Init, Idle, NoRequest
<1>3. \A o \in Orders : SentInv(o)
  BY <1>2 DEF SentInv
<1>4. \A i \in Instances : CapJobInv(i)
  BY <1>2 DEF CapJobInv
<1>5. Committed = 0
  <2>1. Owed = {}
    BY <1>2 DEF Owed, Reserving
  <2>2. UNION {{x} \X (1 .. RequestAmount[x]) : x \in {}} = {}
    OBVIOUS
  <2> QED BY <2>1, <2>2, FS_EmptySet DEF Committed, TotalOf
<1>6. MintedToday(CapState, now) \in 0 .. DailyMintLimit
  <2>1. CapState.minted = MintedBefore
    BY DEF Init, CapState
  <2> QED BY <2>1, ExecutorAssumption, CapAssumption DEF MintedToday
<1>7. CapacityNotOvercommitted
  BY <1>2, <1>5, <1>6, CapAssumption DEF CapacityNotOvercommitted, Committed
<1>8. NeverRefusedForTheCap
  <2>1. \A k \in 1 .. mined : FALSE
    BY <1>2
  <2> QED BY <1>2, <2>1 DEF NeverRefusedForTheCap, CapRefusals
<1> QED BY <1>1, <1>3, <1>4, <1>7, <1>8 DEF CapInv

LEMMA CapStutter ==
  ASSUME CapInv, SplitInv', UNCHANGED vars
  PROVE  CapInv'
<1>1. KeepsRows /\ ErrorsKept /\ UNCHANGED <<chain, mined, now, proc>>
  BY SameKeeps, SameErrors DEF vars, chainVars, dbVars
<1> QED BY <1>1, CapRowsStep

LEMMA CapNext ==
  ASSUME OneInstance
  PROVE  CapInv /\ [Next]_vars => CapInv'
<1> SUFFICES ASSUME CapInv, [Next]_vars PROVE CapInv'
  OBVIOUS
<1>s. SplitInv /\ SplitInv'
  BY SplitNext DEF CapInv
<1>1. ASSUME NEW i \in Instances, NEW o \in Orders,
             \/ CreateLock(i, o) \/ RegenSelect(i, o)
             \/ SubmitSelect(i, o) \/ ConfirmMint(i, o)
      PROVE  CapInv'
  BY <1>s, <1>1, CreateLockCap, RegenSelectCap, SubmitSelectCap, ConfirmMintCap
<1>2. ASSUME NEW i \in Instances, Work(i) PROVE CapInv'
  BY <1>s, <1>2, CreateCommitCap, RegenCommitCap, ResplitSplit, SimulateCap,
     SendCap, RecordSubmissionCap, CompleteMintCap DEF Work
<1>3. ASSUME NEW i \in Instances, SubmitThrows(i) \/ Crash(i) PROVE CapInv'
  BY <1>s, <1>3, SubmitThrowsCap, CrashCap
<1>4. ASSUME NEW o \in Orders, CollectSignatures(o) PROVE CapInv'
  BY <1>s, <1>4, CollectSignaturesCap
<1>5. ASSUME MineNext \/ Burn \/ BumpNonce \/ Tick PROVE CapInv'
  BY <1>s, <1>5, MineNextCap, EnvironmentCap
<1>6. CASE UNCHANGED vars
  BY <1>s, <1>6, CapStutter
<1> QED BY <1>1, <1>2, <1>3, <1>4, <1>5, <1>6 DEF Next

(* A single instance never decides from capacity that is gone by its       *)
(* commit, whatever crashes and however the chain moves meanwhile.         *)
THEOREM CapInvariant ==
  ASSUME LegacyOrders = {}, OneInstance
  PROVE  Spec => []CapInv
<1>1. Init => CapInv
  BY CapInit
<1>2. CapInv /\ [Next]_vars => CapInv'
  BY CapNext
<1> QED BY <1>1, <1>2, PTL DEF Spec

(* Minted today plus everything promised stays under the daily limit and   *)
(* the supply cap.                                                         *)
THEOREM CapacityHolds ==
  ASSUME LegacyOrders = {}, OneInstance
  PROVE  Spec => []CapacityNotOvercommitted
<1>1. CapInv => CapacityNotOvercommitted
  BY DEF CapInv
<1> QED BY <1>1, CapInvariant, PTL

(* The contract refuses no authorization of a deposit not yet minted for   *)
(* the cap.                                                                *)
THEOREM CapNeverRefuses ==
  ASSUME LegacyOrders = {}, OneInstance
  PROVE  Spec => []NeverRefusedForTheCap
<1>1. CapInv => NeverRefusedForTheCap
  BY DEF CapInv
<1> QED BY <1>1, CapInvariant, PTL

-------------------------------------------------------------------------------
(***************************************************************************)
(* Reservations fit a day, for any number of instances: a split is decided *)
(* from what is reserved when it is written, so all it needs of the chain  *)
(* is that the block its state was read at is not ahead of the chain.      *)
(***************************************************************************)

Open == {"MINT_AUTH_CREATED", "MINT_SUBMITTED"}

DayInv ==
  /\ TypeOK
  /\ \A o \in Orders : order[o] = "MINT_AUTH_CREATED" => req[o].hash = 0
  /\ \A i \in Instances : proc[i].pc \in {"create", "resplit"} => proc[i].cap.block <= mined
  /\ ReservationsFitADay

(* No reservation comes to be, and none gets larger. *)
QuietRows ==
  /\ \A o \in Orders :
       /\ req'[o].amount = req[o].amount
       /\ order'[o] \in Open =>
            order[o] \in Open /\ (req'[o].hash = req[o].hash \/ req[o].hash = 0)
       /\ order'[o] = "MINT_AUTH_CREATED" =>
            order[o] = "MINT_AUTH_CREATED" /\ req'[o].hash = req[o].hash
  /\ mined <= mined'

(* A capacity state is read of the chain as it is. *)
QuietJobs ==
  \A j \in Instances : proc'[j].pc \in {"create", "resplit"} =>
                         proc'[j] = proc[j] \/ proc'[j].cap.block = mined

LEMMA DayTypes ==
  ASSUME TypeOK
  PROVE  /\ RequestAmount \in [Orders -> Nat] /\ DailyMintLimit \in Nat /\ mined \in Nat
         /\ \A o \in Orders : req[o].hash \in Nat
         /\ \A n : Reserving(n) \in SUBSET Orders
         /\ \A j \in Instances : proc[j].pc \in {"create", "resplit"} =>
                                   proc[j].cap.block \in Nat
BY CapAssumption DEF TypeOK, DatabaseOK, ChainOK, ProcsOK, ProcOK, Requests, CapStates,
   RequestAmount, Reserving

LEMMA DayNat == TypeOK' => mined' \in Nat
BY DEF TypeOK, ChainOK

LEMMA QuietFits ==
  ASSUME TypeOK, TypeOK', ReservationsFitADay, QuietRows
  PROVE  ReservationsFitADay'
<1>1. RequestAmount' = RequestAmount
  BY DEF RequestAmount, QuietRows
<1>2. Reserving(mined)' \subseteq Reserving(mined)
  BY DayTypes, DayNat DEF Reserving, QuietRows, Open
<1>3. PICK R \in SUBSET Reserving(mined) : R = Reserving(mined)'
  BY <1>2
<1>4. TotalOf(RequestAmount, R) <= TotalOf(RequestAmount, Reserving(mined))
  BY DayTypes, TotalMonotone
<1>5. R \in SUBSET Orders /\ Reserving(mined) \in SUBSET Orders
  BY DayTypes
<1>6. TotalOf(RequestAmount, R) \in Nat /\ TotalOf(RequestAmount, Reserving(mined)) \in Nat
  BY <1>5, DayTypes, TotalType
<1>7. TotalOf(RequestAmount, Reserving(mined))' = TotalOf(RequestAmount, R)
  BY <1>1, <1>3
<1> QED BY <1>4, <1>6, <1>7, DayTypes DEF ReservationsFitADay

LEMMA QuietJobsKeep ==
  ASSUME DayInv, TypeOK', QuietJobs, mined <= mined'
  PROVE  \A i \in Instances : proc'[i].pc \in {"create", "resplit"} =>
                                proc'[i].cap.block <= mined'
<1>1. mined \in Nat /\ mined' \in Nat
  BY DayTypes, DayNat DEF DayInv
<1> SUFFICES ASSUME NEW i \in Instances, proc'[i].pc \in {"create", "resplit"}
             PROVE  proc'[i].cap.block <= mined'
  OBVIOUS
<1>2. CASE proc'[i] = proc[i]
  <2>1. proc[i].cap.block \in Nat /\ proc[i].cap.block <= mined
    BY <1>2, DayTypes DEF DayInv
  <2> QED BY <1>1, <1>2, <2>1
<1>3. CASE proc'[i].cap.block = mined
  BY <1>1, <1>3
<1> QED BY <1>2, <1>3 DEF QuietJobs

LEMMA QuietStep ==
  ASSUME DayInv, TypeOK', QuietRows, QuietJobs
  PROVE  DayInv'
<1>1. \A o \in Orders : order'[o] = "MINT_AUTH_CREATED" => req'[o].hash = 0
  BY DEF DayInv, QuietRows
<1>2. \A i \in Instances : proc'[i].pc \in {"create", "resplit"} => proc'[i].cap.block <= mined'
  BY QuietJobsKeep DEF QuietRows
<1>3. ReservationsFitADay'
  BY QuietFits DEF DayInv
<1> QED BY <1>1, <1>2, <1>3 DEF DayInv

(* The split of one order takes no more than what the others leave.        *)
LEMMA DecidedFits ==
  ASSUME TypeOK, TypeOK', NEW o \in Orders, NEW x \in {{}, {o}}, NEW cap \in CapStates,
         cap.block <= mined, mined' = mined, req'[o].amount > 0,
         req'[o].amount = DecideSplit(cap, Deposit[o], x).mint,
         \A y \in Orders \ {o} : req'[y] = req[y] /\ order'[y] = order[y]
  PROVE  ReservationsFitADay'
<1>1. /\ RequestAmount \in [Orders -> Nat] /\ DailyMintLimit \in Nat /\ mined \in Nat
      /\ cap.block \in Nat /\ cap.time \in Nat
  BY DayTypes DEF CapStates
<1>2. PICK f \in [Orders -> Nat] : f = RequestAmount'
  BY DEF TypeOK, DatabaseOK, Requests, RequestAmount
<1>3. f[o] = DecideSplit(cap, Deposit[o], x).mint /\ f[o] > 0
      /\ \A y \in Orders \ {o} : f[y] = RequestAmount[y]
  BY <1>2 DEF RequestAmount
<1>4. PICK R \in SUBSET Orders : R = Reserving(mined)'
  BY DEF Reserving
<1> DEFINE Q == R \ {o}
           P == Reserving(cap.block) \ x
<1>5. Q \in SUBSET P
  BY <1>1, <1>4, DayTypes DEF Reserving
<1>6. Q \in SUBSET Orders /\ P \in SUBSET Orders /\ o \notin Q /\ R \in SUBSET (Q \cup {o})
  BY <1>5 DEF Reserving
<1> HIDE DEF Q
<1>7. TotalOf(f, R) <= TotalOf(f, Q \cup {o}) /\ TotalOf(f, Q \cup {o}) = TotalOf(f, Q) + f[o]
  BY <1>6, TotalMonotone, TotalAdd
<1>8. TotalOf(f, Q) = TotalOf(RequestAmount, Q)
  BY <1>3, <1>6, TotalCongruent
<1>9. TotalOf(RequestAmount, Q) <= TotalOf(RequestAmount, P)
  BY <1>1, <1>5, <1>6, TotalMonotone
<1>10. TotalOf(RequestAmount, P) = OutstandingReserved(cap.block, x)
  BY DEF OutstandingReserved
<1>11. OutstandingReserved(cap.block, x) + f[o] <= DailyMintLimit
  <2>1. /\ OutstandingReserved(cap.block, x) \in Nat
        /\ f[o] <= Monus(RemainingToday(cap, cap.time), OutstandingReserved(cap.block, x))
    BY <1>3, DecisionType
  <2>2. /\ RemainingToday(cap, cap.time) \in Nat /\ MintedToday(cap, cap.time) \in Nat
        /\ RemainingToday(cap, cap.time) <= Monus(DailyMintLimit, MintedToday(cap, cap.time))
    BY <1>1, RemainingType
  <2>3. /\ Monus(DailyMintLimit, MintedToday(cap, cap.time)) \in Nat
        /\ Monus(DailyMintLimit, MintedToday(cap, cap.time)) <= DailyMintLimit
    BY <1>1, <2>2, MonusType
  <2>4. f[o] + OutstandingReserved(cap.block, x) <= RemainingToday(cap, cap.time)
    <3>1. f[o] \in Nat
      OBVIOUS
    <3> QED BY <1>3, <2>1, <2>2, <3>1 DEF Monus
  <2>5. f[o] \in Nat
    OBVIOUS
  <2> QED BY <1>1, <2>1, <2>2, <2>3, <2>4, <2>5
<1>12. /\ TotalOf(f, R) \in Nat /\ TotalOf(f, Q \cup {o}) \in Nat /\ TotalOf(f, Q) \in Nat
       /\ TotalOf(RequestAmount, P) \in Nat /\ f[o] \in Nat
  BY <1>1, <1>6, TotalType
<1>13. TotalOf(f, R) <= DailyMintLimit
  <2> HIDE DEF P
  <2> QED BY <1>1, <1>7, <1>8, <1>9, <1>10, <1>11, <1>12
<1> QED BY <1>2, <1>4, <1>13 DEF ReservationsFitADay

(* What an instance remembers next is not read of the chain, or as it is.  *)
LEMMA JobQuiet ==
  ASSUME TypeOK, NEW i \in Instances, NEW p, proc' = [proc EXCEPT ![i] = p],
         p.pc \in {"create", "resplit"} => p.cap.block = mined
  PROVE  QuietJobs
<1>1. proc'[i] = p /\ \A j \in Instances : j # i => proc'[j] = proc[j]
  BY ProcAt
<1> QED BY <1>1 DEF QuietJobs

LEMMA IdleQuiet ==
  ASSUME TypeOK, NEW i \in Instances, proc' = [proc EXCEPT ![i] = Idle]
  PROVE  QuietJobs
<1>1. Idle.pc \notin {"create", "resplit"}
  BY DEF Idle
<1> QED BY <1>1, JobQuiet

LEMMA SameJobsQuiet == UNCHANGED proc => QuietJobs
BY DEF QuietJobs

LEMMA SameRowsQuiet ==
  ASSUME TypeOK, UNCHANGED <<order, req, mined>>
  PROVE  QuietRows
BY DayTypes DEF QuietRows

LEMMA ErrorQuiet ==
  ASSUME TypeOK, NEW o \in Orders, NEW why, RecordError(o, why), UNCHANGED <<order, mined>>
  PROVE  QuietRows
BY DayTypes DEF TypeOK, DatabaseOK, Requests, RecordError, QuietRows

LEMMA OrderMovesQuiet ==
  ASSUME TypeOK, UNCHANGED <<req, mined>>, NEW o \in Orders, NEW s,
         s \notin Open, order' = [order EXCEPT ![o] = s]
  PROVE  QuietRows
BY DayTypes DEF TypeOK, DatabaseOK, QuietRows, Open

LEMMA BeginDay ==
  ASSUME DayInv, TypeOK', NEW i \in Instances, NEW o \in Orders,
         \/ CreateLock(i, o) \/ RegenSelect(i, o)
         \/ SubmitSelect(i, o) \/ ConfirmMint(i, o)
  PROVE  DayInv'
<1>t. TypeOK
  BY DEF DayInv
<1>1. CASE CreateLock(i, o)
  <2> DEFINE p == [pc |-> "create", order |-> o, nonce |-> chain.nonce, cap |-> CapState]
  <2>1. UNCHANGED <<order, req, mined>> /\ proc' = [proc EXCEPT ![i] = p]
    BY <1>1 DEF CreateLock, dbVars, chainVars
  <2>2. p.cap.block = mined
    BY DEF CapState
  <2> HIDE DEF p
  <2> QED BY <1>t, <2>1, <2>2, JobQuiet, SameRowsQuiet, QuietStep
<1>2. CASE RegenSelect(i, o)
  <2>1. UNCHANGED <<order, mined>>
    BY <1>2 DEF RegenSelect, chainVars
  <2>2. CASE minted[o] > 0
    <3>1. RecordError(o, "AlreadyProcessed") /\ UNCHANGED proc
      BY <1>2, <2>2 DEF RegenSelect
    <3> QED BY <1>t, <2>1, <3>1, ErrorQuiet, SameJobsQuiet, QuietStep
  <2>3. CASE ~(minted[o] > 0)
    <3> DEFINE p == [pc |-> "regen", order |-> o, nonce |-> chain.nonce, legacy |-> req[o].legacy]
    <3>1. UNCHANGED req /\ proc' = [proc EXCEPT ![i] = p]
      BY <1>2, <2>3 DEF RegenSelect
    <3>2. p.pc = "regen"
      OBVIOUS
    <3> HIDE DEF p
    <3> QED BY <1>t, <2>1, <3>1, <3>2, JobQuiet, SameRowsQuiet, QuietStep
  <2> QED BY <2>2, <2>3
<1>3. CASE SubmitSelect(i, o)
  <2> DEFINE p == [pc |-> "simulate", order |-> o, amount |-> req[o].amount,
                   deadline |-> req[o].deadline, nonce |-> req[o].nonce]
  <2>1. UNCHANGED <<order, req, mined>> /\ proc' = [proc EXCEPT ![i] = p]
    BY <1>3 DEF SubmitSelect, dbVars, chainVars
  <2>2. p.pc = "simulate"
    OBVIOUS
  <2> HIDE DEF p
  <2> QED BY <1>t, <2>1, <2>2, JobQuiet, SameRowsQuiet, QuietStep
<1>4. CASE ConfirmMint(i, o)
  <2>1. UNCHANGED <<req, mined>>
    BY <1>4 DEF ConfirmMint, chainVars
  <2>2. \/ order' = [order EXCEPT ![o] = "MINT_CONFIRMED"]
        \/ order' = [order EXCEPT ![o] = "FAILED"]
    BY <1>4 DEF ConfirmMint
  <2>3. "MINT_CONFIRMED" \notin Open /\ "FAILED" \notin Open
    BY DEF Open
  <2>4. QuietRows
    BY <1>t, <2>1, <2>2, <2>3, OrderMovesQuiet
  <2> DEFINE p == [pc |-> "complete", order |-> o]
  <2>5. UNCHANGED proc \/ proc' = [proc EXCEPT ![i] = p]
    BY <1>4 DEF ConfirmMint
  <2>6. p.pc = "complete"
    OBVIOUS
  <2> HIDE DEF p
  <2>7. QuietJobs
    BY <1>t, <2>5, <2>6, JobQuiet, SameJobsQuiet
  <2> QED BY <2>4, <2>7, QuietStep
<1> QED BY <1>1, <1>2, <1>3, <1>4

LEMMA CreateCommitDay ==
  ASSUME DayInv, TypeOK', NEW i \in Instances, CreateCommit(i)
  PROVE  DayInv'
<1>t. TypeOK
  BY DEF DayInv
<1> DEFINE o     == proc[i].order
           split == DecideSplit(proc[i].cap, Deposit[o], {})
           row   == [NoRequest EXCEPT !.amount = split.mint, !.deadline = now + MintDeadline,
                                      !.nonce = proc[i].nonce]
<1>1. /\ o \in Orders /\ proc[i].cap \in CapStates /\ proc[i].cap.block <= mined
      /\ req \in [Orders -> Requests] /\ order \in [Orders -> States]
  BY DEF CreateCommit, DayInv, TypeOK, DatabaseOK, ProcsOK, ProcOK
<1>2. /\ mined' = mined /\ proc' = [proc EXCEPT ![i] = Idle]
      /\ req' = [req EXCEPT ![o] = IF split.mint > 0 THEN row ELSE @]
      /\ order' = [order EXCEPT ![o] = IF split.mint > 0 THEN "MINT_AUTH_CREATED" ELSE "REFUNDED"]
  BY DEF CreateCommit, chainVars
<1>3. row.amount = split.mint /\ row.hash = 0
  BY DEF NoRequest
<1>4. QuietJobs
  BY <1>t, <1>2, IdleQuiet
<1> HIDE DEF row
<1>5. CASE split.mint > 0
  <2>1. /\ req'[o] = row
        /\ \A y \in Orders \ {o} : req'[y] = req[y] /\ order'[y] = order[y]
    BY <1>1, <1>2, <1>5
  <2>2. ReservationsFitADay'
    <3>1. \A d \in CapStates, e \in Orders :
            /\ d.block <= mined /\ mined' = mined /\ req'[e].amount > 0
            /\ req'[e].amount = DecideSplit(d, Deposit[e], {}).mint
            /\ \A y \in Orders \ {e} : req'[y] = req[y] /\ order'[y] = order[y]
            => ReservationsFitADay'
      BY <1>t, DecidedFits
    <3> QED BY <1>1, <1>2, <1>3, <1>5, <2>1, <3>1
  <2>3. \A y \in Orders : order'[y] = "MINT_AUTH_CREATED" => req'[y].hash = 0
    BY <1>3, <2>1 DEF DayInv
  <2>4. mined <= mined'
    BY <1>t, <1>2, DayTypes
  <2> QED BY <1>4, <2>2, <2>3, <2>4, QuietJobsKeep DEF DayInv
<1>6. CASE ~(split.mint > 0)
  <2>1. req' = req /\ order' = [order EXCEPT ![o] = "REFUNDED"]
    BY <1>1, <1>2, <1>6
  <2>2. "REFUNDED" \notin Open
    BY DEF Open
  <2>3. QuietRows
    BY <1>t, <1>1, <1>2, <2>1, <2>2, OrderMovesQuiet
  <2> QED BY <1>4, <2>3, QuietStep
<1> QED BY <1>5, <1>6

LEMMA ResplitCommitDay ==
  ASSUME DayInv, TypeOK', NEW i \in Instances, ResplitCommit(i)
  PROVE  DayInv'
<1>t. TypeOK
  BY DEF DayInv
<1> DEFINE o     == proc[i].order
           split == DecideSplit(proc[i].cap, Deposit[o], {o})
           row   == [Reissued(req[o], proc[i].cap.time, proc[i].nonce)
                       EXCEPT !.amount = split.mint, !.legacy = FALSE]
<1>1. /\ o \in Orders /\ proc[i].cap \in CapStates /\ proc[i].cap.block <= mined
      /\ req \in [Orders -> Requests] /\ proc[i].nonce \in Nat /\ req[o] \in Requests
      /\ proc[i].cap.time \in Nat
  BY DEF ResplitCommit, DayInv, TypeOK, DatabaseOK, ProcsOK, ProcOK, CapStates
<1>2. mined' = mined /\ proc' = [proc EXCEPT ![i] = Idle] /\ order' = order
  BY DEF ResplitCommit, chainVars
<1>3. QuietJobs
  BY <1>t, <1>2, IdleQuiet
<1>4. CASE split.mint = 0
  <2>1. req' = req
    BY <1>4 DEF ResplitCommit
  <2> QED BY <1>t, <1>2, <1>3, <2>1, SameRowsQuiet, QuietStep
<1>5. CASE split.mint # 0
  <2>1. req' = [req EXCEPT ![o] = row]
    BY <1>5 DEF ResplitCommit
  <2>2. split.mint \in Nat
    BY <1>t, <1>1, DecisionType
  <2>3. row.amount = split.mint /\ row.hash = req[o].hash
    <3> HIDE DEF split
    <3> QED BY <1>1, ReissuedType DEF Requests
  <2> HIDE DEF row
  <2>4. req'[o] = row /\ \A y \in Orders \ {o} : req'[y] = req[y] /\ order'[y] = order[y]
    BY <1>1, <1>2, <2>1
  <2>5. ReservationsFitADay'
    <3>1. \A d \in CapStates, e \in Orders :
            /\ d.block <= mined /\ mined' = mined /\ req'[e].amount > 0
            /\ req'[e].amount = DecideSplit(d, Deposit[e], {e}).mint
            /\ \A y \in Orders \ {e} : req'[y] = req[y] /\ order'[y] = order[y]
            => ReservationsFitADay'
      BY <1>t, DecidedFits
    <3>2. req'[o].amount = split.mint /\ req'[o].amount > 0
      BY <1>5, <2>2, <2>3, <2>4
    <3> QED BY <1>1, <1>2, <2>4, <3>1, <3>2
  <2>6. \A y \in Orders : order'[y] = "MINT_AUTH_CREATED" => req'[y].hash = 0
    BY <1>2, <2>3, <2>4 DEF DayInv
  <2>7. mined <= mined'
    BY <1>t, <1>2, DayTypes
  <2> QED BY <1>3, <2>5, <2>6, <2>7, QuietJobsKeep DEF DayInv
<1> QED BY <1>4, <1>5

LEMMA RecordSubmissionDay ==
  ASSUME DayInv, TypeOK', NEW i \in Instances, RecordSubmission(i)
  PROVE  DayInv'
<1>t. TypeOK
  BY DEF DayInv
<1>1. mined' = mined /\ proc' = [proc EXCEPT ![i] = Idle] /\ proc[i].order \in Orders
  BY <1>t DEF RecordSubmission, chainVars, TypeOK, ProcsOK, ProcOK
<1>2. QuietRows
  <2>1. PICK o \in Orders : o = proc[i].order
    BY <1>1
  <2>2. CASE UNCHANGED <<req, order>>
    BY <1>t, <1>1, <2>2, SameRowsQuiet
  <2>3. CASE /\ order[o] = "MINT_AUTH_CREATED"
             /\ req' = [req EXCEPT ![o].hash = proc[i].tx, ![o].error = "none"]
             /\ order' = [order EXCEPT ![o] = "MINT_SUBMITTED"]
    <3>1. /\ req'[o].amount = req[o].amount /\ req[o].hash = 0
          /\ order'[o] = "MINT_SUBMITTED"
          /\ \A y \in Orders \ {o} : req'[y] = req[y] /\ order'[y] = order[y]
      BY <1>t, <2>3 DEF DayInv, TypeOK, DatabaseOK, Requests
    <3>2. mined <= mined'
      BY <1>t, <1>1, DayTypes
    <3> QED BY <2>3, <3>1, <3>2 DEF QuietRows, Open
  <2> QED BY <2>1, <2>2, <2>3 DEF RecordSubmission
<1> QED BY <1>t, <1>1, <1>2, IdleQuiet, QuietStep

LEMMA WorkDay ==
  ASSUME DayInv, TypeOK', NEW i \in Instances, Work(i)
  PROVE  DayInv'
<1>t. TypeOK
  BY DEF DayInv
<1>1. CASE RegenCommit(i)
  <2>1. /\ UNCHANGED <<order, mined>> /\ proc' = [proc EXCEPT ![i] = Idle]
        /\ proc[i].order \in Orders /\ proc[i].nonce \in Nat /\ now \in Nat
    BY <1>1, <1>t DEF RegenCommit, chainVars, TypeOK, ChainOK, ProcsOK, ProcOK
  <2>2. QuietRows
    <3>1. PICK o \in Orders : o = proc[i].order
      BY <2>1
    <3>2. PICK r : r = Reissued(req[o], now, proc[i].nonce)
      OBVIOUS
    <3>3. req \in [Orders -> Requests]
      BY <1>t DEF TypeOK, DatabaseOK
    <3>4. r.hash = req[o].hash /\ r.amount = req[o].amount
      BY <2>1, <3>2, <3>3, ReissuedType
    <3>5. req' = req \/ req' = [req EXCEPT ![o] = r]
      BY <1>1, <3>1, <3>2 DEF RegenCommit
    <3>6. \A y \in Orders : req'[y].amount = req[y].amount /\ req'[y].hash = req[y].hash
      BY <3>3, <3>4, <3>5
    <3> QED BY <1>t, <2>1, <3>6, DayTypes DEF QuietRows
  <2> QED BY <1>t, <2>1, <2>2, IdleQuiet, QuietStep
<1>2. CASE ResplitLock(i)
  <2> DEFINE p == IF NeedsRegeneration(proc[i].order, proc[i].nonce)
                  THEN [pc |-> "resplit", order |-> proc[i].order,
                        nonce |-> proc[i].nonce, cap |-> CapState]
                  ELSE Idle
  <2>1. UNCHANGED <<order, req, mined>> /\ proc' = [proc EXCEPT ![i] = p]
    BY <1>2 DEF ResplitLock, dbVars, chainVars
  <2>2. p.pc \in {"create", "resplit"} => p.cap.block = mined
    BY DEF CapState, Idle
  <2> HIDE DEF p
  <2> QED BY <1>t, <2>1, <2>2, JobQuiet, SameRowsQuiet, QuietStep
<1>3. CASE Simulate(i)
  <2>1. UNCHANGED <<order, mined>> /\ proc[i].order \in Orders
    BY <1>3, <1>t DEF Simulate, chainVars, TypeOK, ProcsOK, ProcOK
  <2>2. CASE Refusals(proc[i]) = {}
    <3> DEFINE p == [pc |-> "send", order |-> proc[i].order, amount |-> proc[i].amount,
                     deadline |-> proc[i].deadline, nonce |-> proc[i].nonce]
    <3>1. UNCHANGED req /\ proc' = [proc EXCEPT ![i] = p]
      BY <1>3, <2>2, <1>t DEF Simulate, TypeOK, ProcsOK
    <3>2. p.pc = "send"
      OBVIOUS
    <3> HIDE DEF p
    <3> QED BY <1>t, <2>1, <3>1, <3>2, JobQuiet, SameRowsQuiet, QuietStep
  <2>3. CASE Refusals(proc[i]) # {}
    <3>1. PICK why : RecordError(proc[i].order, why)
      BY <1>3, <2>3 DEF Simulate
    <3>2. proc' = [proc EXCEPT ![i] = Idle]
      BY <1>3, <2>3 DEF Simulate
    <3> QED BY <1>t, <2>1, <3>1, <3>2, ErrorQuiet, IdleQuiet, QuietStep
  <2> QED BY <2>2, <2>3
<1>4. CASE Send(i)
  <2> DEFINE p == [pc |-> "record", order |-> proc[i].order, tx |-> Len(txs) + 1]
  <2>1. UNCHANGED <<order, req, mined>> /\ proc' = [proc EXCEPT ![i] = p]
    BY <1>4 DEF Send, dbVars
  <2>2. p.pc = "record"
    OBVIOUS
  <2> HIDE DEF p
  <2> QED BY <1>t, <2>1, <2>2, JobQuiet, SameRowsQuiet, QuietStep
<1>5. CASE CompleteMint(i)
  <2>1. /\ UNCHANGED <<req, mined>> /\ proc' = [proc EXCEPT ![i] = Idle]
        /\ proc[i].order \in Orders
    BY <1>5, <1>t DEF CompleteMint, chainVars, TypeOK, ProcsOK, ProcOK
  <2>2. order' = order \/ order' = [order EXCEPT ![proc[i].order] = "COMPLETED"]
    BY <1>5 DEF CompleteMint
  <2>3. "COMPLETED" \notin Open
    BY DEF Open
  <2>4. QuietRows
    BY <1>t, <2>1, <2>2, <2>3, SameRowsQuiet, OrderMovesQuiet
  <2> QED BY <1>t, <2>1, <2>4, IdleQuiet, QuietStep
<1> QED BY <1>1, <1>2, <1>3, <1>4, <1>5, CreateCommitDay, ResplitCommitDay, RecordSubmissionDay
        DEF Work

LEMMA OthersDay ==
  ASSUME DayInv, TypeOK',
         \/ \E i \in Instances : SubmitThrows(i) \/ Crash(i)
         \/ \E o \in Orders : CollectSignatures(o)
         \/ MineNext \/ Burn \/ BumpNonce \/ Tick
         \/ UNCHANGED vars
  PROVE  DayInv'
<1>t. TypeOK
  BY DEF DayInv
<1>1. ASSUME NEW i \in Instances, SubmitThrows(i) PROVE DayInv'
  <2>1. /\ UNCHANGED <<order, mined>> /\ proc[i].order \in Orders
        /\ proc' = [proc EXCEPT ![i] = Idle] /\ RecordError(proc[i].order, "other")
    BY <1>1, <1>t DEF SubmitThrows, chainVars, TypeOK, ProcsOK, ProcOK
  <2> QED BY <1>t, <2>1, ErrorQuiet, IdleQuiet, QuietStep
<1>2. ASSUME NEW i \in Instances, Crash(i) PROVE DayInv'
  <2>1. UNCHANGED <<order, req, mined>> /\ proc' = [proc EXCEPT ![i] = Idle]
    BY <1>2 DEF Crash, dbVars, chainVars
  <2> QED BY <1>t, <2>1, SameRowsQuiet, IdleQuiet, QuietStep
<1>3. ASSUME NEW o \in Orders, CollectSignatures(o) PROVE DayInv'
  <2>1. UNCHANGED <<order, mined, proc>>
    BY <1>3 DEF CollectSignatures, chainVars
  <2>2. \A y \in Orders : req'[y].amount = req[y].amount /\ req'[y].hash = req[y].hash
    BY <1>3, <1>t DEF CollectSignatures, TypeOK, DatabaseOK, Requests
  <2>3. QuietRows
    BY <1>t, <2>1, <2>2, DayTypes DEF QuietRows
  <2> QED BY <2>1, <2>3, SameJobsQuiet, QuietStep
<1>4. CASE MineNext
  <2>1. UNCHANGED <<order, req, proc>> /\ mined' = mined + 1
    BY <1>4 DEF MineNext, dbVars
  <2>2. QuietRows
    BY <1>t, <2>1, DayTypes DEF QuietRows
  <2> QED BY <2>1, <2>2, SameJobsQuiet, QuietStep
<1>5. CASE Burn \/ BumpNonce \/ Tick \/ UNCHANGED vars
  <2>1. UNCHANGED <<order, req, mined, proc>>
    BY <1>5 DEF Burn, BumpNonce, Tick, vars, dbVars, chainVars
  <2> QED BY <1>t, <2>1, SameRowsQuiet, SameJobsQuiet, QuietStep
<1> QED BY <1>1, <1>2, <1>3, <1>4, <1>5

(* Rows that predate the split reserve their whole deposit from the start. *)
LegacyFits == TotalOf(Deposit, LegacyOrders) <= DailyMintLimit

LEMMA DayInit ==
  ASSUME LegacyFits, Init
  PROVE  DayInv
<1>1. TypeOK
  BY TypeInit
<1>2. /\ mined = 0 /\ LegacyOrders \in SUBSET Orders
      /\ \A o \in Orders : /\ req[o].hash = 0
                           /\ order[o] = "MINT_AUTH_CREATED" <=> o \in LegacyOrders
                           /\ order[o] # "MINT_SUBMITTED"
                           /\ o \in LegacyOrders => req[o].amount = Deposit[o]
  BY ExecutorAssumption DEF Init, NoRequest
<1>3. Reserving(mined) = LegacyOrders
  BY <1>2 DEF Reserving
<1>4. \A o \in LegacyOrders : RequestAmount[o] = Deposit[o]
  BY <1>2 DEF RequestAmount
<1>5. TotalOf(RequestAmount, LegacyOrders) = TotalOf(Deposit, LegacyOrders)
  BY <1>2, <1>4, TotalCongruent
<1>6. ReservationsFitADay
  BY <1>3, <1>5 DEF ReservationsFitADay, LegacyFits
<1>7. \A i \in Instances : proc[i].pc \notin {"create", "resplit"}
  BY DEF Init, Idle
<1> QED BY <1>1, <1>2, <1>6, <1>7 DEF DayInv

LEMMA DayNext == DayInv /\ [Next]_vars => DayInv'
<1> SUFFICES ASSUME DayInv, [Next]_vars PROVE DayInv'
  OBVIOUS
<1>1. TypeOK'
  BY TypeNext DEF DayInv
<1> QED BY <1>1, BeginDay, WorkDay, OthersDay DEF Next

(* The inductive invariant: besides the types, a deposit decided and not   *)
(* yet sent has no hash, and a decision in progress was read at a block    *)
(* the chain has.                                                          *)
THEOREM DayInvariant ==
  ASSUME LegacyFits
  PROVE  Spec => []DayInv
<1>1. Init => DayInv
  BY DayInit
<1> QED BY <1>1, DayNext, PTL DEF Spec

(* Whatever any number of instances reserve at once, crash and reissue,    *)
(* one day can mint it (createPendingAuths, decideSplit).                  *)
THEOREM ReservationsFit ==
  ASSUME LegacyFits
  PROVE  Spec => []ReservationsFitADay
<1>1. DayInv => ReservationsFitADay
  BY DEF DayInv
<1> QED BY <1>1, DayInvariant, PTL
===============================================================================
