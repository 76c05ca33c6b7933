---------------------------- MODULE SolvencyProofs ----------------------------
(***************************************************************************)
(* What is proved of the amounts of the bridge and of its monitor, for any *)
(* deposits, splits, burns, fee rate, wBOB from outside, faults and        *)
(* retries.                                                                *)
(***************************************************************************)
EXTENDS SolvencyMonitor, SetFacts

-------------------------------------------------------------------------------
(* Sums over finite sets.  SumOver is defined by recursion over the        *)
(* subsets of a set; each fact is shown of a smallest subset of which it   *)
(* could fail.                                                             *)

Summed(f, g, P) ==
  IF P = {} THEN 0 ELSE LET x == CHOOSE x \in P : TRUE IN f[x] + g[P \ {x}]

SumsTo(f, S, g) == g = [P \in SUBSET S |-> Summed(f, g, P)]

(* The recursion defines a function, on larger and larger subsets. *)
LEMMA SumExists ==
  ASSUME NEW f, NEW S, IsFiniteSet(S)
  PROVE  \E g : SumsTo(f, S, g)
<1> DEFINE Upto(n) == {P \in SUBSET S : Cardinality(P) <= n}
<1> DEFINE Fits(g, n) == g = [P \in Upto(n) |-> Summed(f, g, P)]
<1> DEFINE Bad == {n \in Nat : ~ \E g : Fits(g, n)}
<1>1. \A P \in SUBSET S : IsFiniteSet(P) /\ Cardinality(P) \in Nat
  BY FS_Subset, FS_CardinalityType
<1>2. \A P \in SUBSET S : \A x \in P : Cardinality(P \ {x}) = Cardinality(P) - 1
  BY <1>1, FS_RemoveElement
<1>3. Bad = {}
  <2>1. SUFFICES ASSUME Bad # {} PROVE FALSE
    OBVIOUS
  <2>2. PICK n \in Bad : \A m \in Bad : n <= m
    <3>1. Bad \in SUBSET Nat
      OBVIOUS
    <3> HIDE DEF Bad
    <3> QED BY <2>1, <3>1, LeastOf
  <2>3. n \in Nat /\ ~ \E g : Fits(g, n)
    BY <2>2
  <2>4. CASE n = 0
    <3> DEFINE g == [P \in Upto(0) |-> 0]
    <3>1. \A P \in Upto(0) : P = {}
      BY <1>1, FS_EmptySet
    <3>2. \A P \in Upto(0) : Summed(f, g, P) = 0
      BY <3>1 DEF Summed
    <3>3. Fits(g, 0)
      BY <3>2
    <3> QED BY <2>3, <2>4, <3>3
  <2>5. CASE n # 0
    <3>1. n - 1 \in Nat /\ n - 1 < n
      BY <2>3, <2>5
    <3>2. n - 1 \notin Bad
      <4> HIDE DEF Bad
      <4> QED BY <2>2, <2>3, <3>1
    <3>3. PICK g : Fits(g, n - 1)
      BY <3>1, <3>2
    <3> DEFINE h == [P \in Upto(n) |-> Summed(f, g, P)]
    <3>4. \A P \in Upto(n - 1) : P \in Upto(n) /\ h[P] = g[P]
      BY <1>1, <2>3, <3>3
    <3>5. \A P \in Upto(n) : \A x \in P : P \ {x} \in Upto(n - 1)
      <4>1. TAKE P \in Upto(n)
      <4>2. TAKE x \in P
      <4>3. P \in SUBSET S /\ P \ {x} \in SUBSET S /\ Cardinality(P) <= n
        BY <4>1
      <4>4. Cardinality(P) \in Nat /\ Cardinality(P \ {x}) = Cardinality(P) - 1
        BY <1>1, <1>2, <4>2, <4>3
      <4> QED BY <2>3, <4>3, <4>4
    <3>6. ASSUME NEW P \in Upto(n) PROVE Summed(f, h, P) = Summed(f, g, P)
      <4>1. CASE P = {}
        BY <4>1 DEF Summed
      <4>2. CASE P # {}
        <5> DEFINE x == CHOOSE x \in P : TRUE
        <5>1. x \in P
          BY <4>2
        <5>2. h[P \ {x}] = g[P \ {x}]
          BY <3>4, <3>5, <5>1
        <5> HIDE DEF h
        <5> QED BY <4>2, <5>2 DEF Summed
      <4> QED BY <4>1, <4>2
    <3>7. Fits(h, n)
      <4> HIDE DEF h
      <4>1. h = [P \in Upto(n) |-> Summed(f, g, P)]
        BY DEF h
      <4> HIDE DEF Upto
      <4> QED BY <3>6, <4>1
    <3> HIDE DEF h, Fits
    <3> QED BY <2>3, <3>7
  <2> QED BY <2>4, <2>5
<1>4. PICK g : Fits(g, Cardinality(S))
  <2>1. Cardinality(S) \in Nat
    BY <1>1
  <2> QED BY <1>3, <2>1
<1>5. Upto(Cardinality(S)) = SUBSET S
  BY FS_Subset
<1> QED BY <1>4, <1>5 DEF SumsTo

(* So SumOver is where the recursion ends. *)
LEMMA SumUnfolds ==
  ASSUME NEW f, NEW S, IsFiniteSet(S)
  PROVE  \E g : SumsTo(f, S, g) /\ SumOver(f, S) = g[S]
<1> DEFINE sum == CHOOSE g : g = [P \in SUBSET S |-> Summed(f, g, P)]
<1>1. sum = [P \in SUBSET S |-> Summed(f, sum, P)]
  BY SumExists DEF SumsTo
<1>2. SumOver(f, S) = sum[S]
  BY DEF SumOver, Summed
<1> QED BY <1>1, <1>2 DEF SumsTo

LEMMA SumStep ==
  ASSUME NEW f, NEW S, NEW g, SumsTo(f, S, g), NEW P \in SUBSET S
  PROVE  g[P] = Summed(f, g, P)
BY DEF SumsTo

(* What is summed of a set is the same in every set around it. *)
LEMMA SumAgrees ==
  ASSUME NEW f, NEW S, NEW g, SumsTo(f, S, g),
         NEW k, NEW T, NEW h, SumsTo(k, T, h),
         NEW P \in SUBSET (S \cap T), IsFiniteSet(P), \A x \in P : f[x] = k[x]
  PROVE  g[P] = h[P]
<1> DEFINE Bad == {Q \in SUBSET P : g[Q] # h[Q]}
<1>1. Bad = {}
  <2>1. SUFFICES ASSUME Bad # {} PROVE FALSE
    OBVIOUS
  <2>2. PICK Q \in Bad : \A x \in Q : Q \ {x} \notin Bad
    <3>1. Bad \in SUBSET SUBSET P
      OBVIOUS
    <3> HIDE DEF Bad
    <3> QED BY <2>1, <3>1, SmallestOf
  <2>3. Q \in SUBSET P /\ Q \in SUBSET S /\ Q \in SUBSET T /\ g[Q] # h[Q]
    BY <2>2
  <2>4. g[Q] = Summed(f, g, Q) /\ h[Q] = Summed(k, h, Q)
    BY <2>3, SumStep
  <2>5. CASE Q = {}
    BY <2>3, <2>4, <2>5 DEF Summed
  <2>6. CASE Q # {}
    <3> DEFINE x == CHOOSE x \in Q : TRUE
    <3>1. x \in Q
      BY <2>6
    <3>2. g[Q \ {x}] = h[Q \ {x}] /\ f[x] = k[x]
      BY <2>2, <2>3, <3>1
    <3> QED BY <2>3, <2>4, <2>6, <3>2 DEF Summed
  <2> QED BY <2>5, <2>6
<1> QED BY <1>1

LEMMA SumIsNat ==
  ASSUME NEW f, NEW S, IsFiniteSet(S), NEW g, SumsTo(f, S, g), \A x \in S : f[x] \in Nat
  PROVE  \A P \in SUBSET S : g[P] \in Nat
<1> DEFINE Bad == {P \in SUBSET S : g[P] \notin Nat}
<1>1. SUFFICES ASSUME Bad # {} PROVE FALSE
  OBVIOUS
<1>2. PICK P \in Bad : \A x \in P : P \ {x} \notin Bad
  <2>1. Bad \in SUBSET SUBSET S
    OBVIOUS
  <2> HIDE DEF Bad
  <2> QED BY <1>1, <2>1, SmallestOf
<1>3. P \in SUBSET S /\ g[P] \notin Nat /\ g[P] = Summed(f, g, P)
  BY <1>2, SumStep
<1>4. CASE P = {}
  BY <1>3, <1>4 DEF Summed
<1>5. CASE P # {}
  <2> DEFINE y == CHOOSE y \in P : TRUE
  <2>1. y \in P
    BY <1>5
  <2>2. g[P \ {y}] \in Nat /\ f[y] \in Nat
    BY <1>2, <1>3, <2>1
  <2>3. g[P] = f[y] + g[P \ {y}]
    BY <1>3, <1>5 DEF Summed
  <2> HIDE DEF y
  <2> QED BY <1>3, <2>2, <2>3
<1> QED BY <1>4, <1>5

(* The sum does not depend on which element is taken first. *)
LEMMA SumTakes ==
  ASSUME NEW f, NEW S, IsFiniteSet(S), NEW g, SumsTo(f, S, g), \A x \in S : f[x] \in Nat,
         NEW R \in SUBSET S, NEW z \in R
  PROVE  g[R] = f[z] + g[R \ {z}]
<1> DEFINE Good(P) == \A x \in P : g[P] = f[x] + g[P \ {x}]
<1> DEFINE Bad == {P \in SUBSET S : ~Good(P)}
<1>1. SUFFICES ASSUME Bad # {} PROVE FALSE
  OBVIOUS
<1>2. PICK P \in Bad : \A x \in P : P \ {x} \notin Bad
  <2>1. Bad \in SUBSET SUBSET S
    OBVIOUS
  <2> HIDE DEF Bad
  <2> QED BY <1>1, <2>1, SmallestOf
<1>3. P \in SUBSET S /\ ~Good(P)
  BY <1>2
<1>4. \A x \in P : Good(P \ {x})
  BY <1>2, <1>3
<1>5. CASE P = {}
  BY <1>3, <1>5
<1>6. CASE P # {}
  <2>1. PICK y \in P : g[P] = f[y] + g[P \ {y}]
    <3> DEFINE y == CHOOSE y \in P : TRUE
    <3>1. y \in P
      BY <1>6
    <3>2. g[P] = Summed(f, g, P)
      BY <1>3, SumStep
    <3>3. g[P] = f[y] + g[P \ {y}]
      BY <1>6, <3>2 DEF Summed
    <3> HIDE DEF y
    <3> QED BY <3>1, <3>3
  <2>2. \A Q \in SUBSET S : g[Q] \in Nat
    BY SumIsNat
  <2>3. ASSUME NEW x \in P, x # y PROVE g[P] = f[x] + g[P \ {x}]
    <3>1. (P \ {y}) \ {x} = (P \ {x}) \ {y}
      OBVIOUS
    <3>2. g[P \ {y}] = f[x] + g[(P \ {y}) \ {x}]
      BY <1>4, <2>3
    <3>3. g[P \ {x}] = f[y] + g[(P \ {x}) \ {y}]
      BY <1>4, <2>3
    <3>4. g[(P \ {x}) \ {y}] \in Nat /\ f[x] \in Nat /\ f[y] \in Nat
      <4>1. P \in SUBSET S /\ x \in P /\ y \in P
        BY <1>3, <2>1, <2>3
      <4>2. (P \ {x}) \ {y} \in SUBSET S /\ x \in S /\ y \in S
        BY <4>1
      <4> HIDE DEF Good, Bad
      <4> QED BY <2>2, <4>2
    <3>5. g[(P \ {y}) \ {x}] = g[(P \ {x}) \ {y}]
      BY <3>1
    <3> HIDE DEF Good, Bad
    <3> QED BY <2>1, <3>2, <3>3, <3>4, <3>5
  <2> QED BY <1>3, <2>1, <2>3
<1> QED BY <1>5, <1>6

(* A sum of naturals is one. *)
LEMMA SumType ==
  ASSUME NEW f, NEW S, IsFiniteSet(S), \A x \in S : f[x] \in Nat
  PROVE  SumOver(f, S) \in Nat
<1>1. PICK g : SumsTo(f, S, g) /\ SumOver(f, S) = g[S]
  BY SumUnfolds
<1> QED BY <1>1, SumIsNat

LEMMA SumEmpty ==
  ASSUME NEW f
  PROVE  SumOver(f, {}) = 0
<1>1. IsFiniteSet({})
  BY FS_EmptySet
<1>2. PICK g : SumsTo(f, {}, g) /\ SumOver(f, {}) = g[{}]
  BY <1>1, SumUnfolds
<1>3. g[{}] = Summed(f, g, {})
  BY <1>2, SumStep
<1> QED BY <1>2, <1>3 DEF Summed

(* Only the values on the set count. *)
LEMMA SumSame ==
  ASSUME NEW f, NEW k, NEW S, IsFiniteSet(S), \A x \in S : f[x] = k[x]
  PROVE  SumOver(f, S) = SumOver(k, S)
<1>1. PICK g : SumsTo(f, S, g) /\ SumOver(f, S) = g[S]
  BY SumUnfolds
<1>2. PICK h : SumsTo(k, S, h) /\ SumOver(k, S) = h[S]
  BY SumUnfolds
<1>3. S \in SUBSET (S \cap S)
  OBVIOUS
<1>4. g[S] = h[S]
  BY <1>1, <1>2, <1>3, SumAgrees
<1> QED BY <1>1, <1>2, <1>4

(* One element is taken out of a sum. *)
LEMMA SumOut ==
  ASSUME NEW f, NEW S, IsFiniteSet(S), \A x \in S : f[x] \in Nat, NEW y \in S
  PROVE  SumOver(f, S) = f[y] + SumOver(f, S \ {y})
<1>1. IsFiniteSet(S \ {y})
  BY FS_RemoveElement
<1>2. PICK g : SumsTo(f, S, g) /\ SumOver(f, S) = g[S]
  BY SumUnfolds
<1>3. PICK h : SumsTo(f, S \ {y}, h) /\ SumOver(f, S \ {y}) = h[S \ {y}]
  BY <1>1, SumUnfolds
<1>4. g[S \ {y}] = h[S \ {y}]
  <2>1. S \ {y} \in SUBSET (S \cap (S \ {y})) /\ \A x \in S \ {y} : f[x] = f[x]
    OBVIOUS
  <2> QED BY <1>1, <1>2, <1>3, <2>1, SumAgrees
<1>5. g[S] = f[y] + g[S \ {y}]
  BY <1>2, SumTakes
<1> QED BY <1>2, <1>3, <1>4, <1>5

(* A sum moves with one of its values. *)
LEMMA SumMoves ==
  ASSUME NEW f, NEW k, NEW S, IsFiniteSet(S), \A x \in S : f[x] \in Nat /\ k[x] \in Nat,
         NEW y \in S, \A x \in S \ {y} : f[x] = k[x]
  PROVE  SumOver(k, S) + f[y] = SumOver(f, S) + k[y]
<1>1. IsFiniteSet(S \ {y})
  BY FS_RemoveElement
<1>2. SumOver(f, S) = f[y] + SumOver(f, S \ {y})
  BY SumOut
<1>3. SumOver(k, S) = k[y] + SumOver(k, S \ {y})
  BY SumOut
<1>4. SumOver(f, S \ {y}) = SumOver(k, S \ {y})
  BY <1>1, SumSame
<1>5. SumOver(f, S \ {y}) \in Nat /\ f[y] \in Nat /\ k[y] \in Nat
  BY <1>1, SumType
<1> QED BY <1>2, <1>3, <1>4, <1>5

(* Sums over sets apart add up. *)
LEMMA SumSplits ==
  ASSUME NEW f, NEW A, NEW B, IsFiniteSet(A), IsFiniteSet(B), A \cap B = {},
         \A x \in A \cup B : f[x] \in Nat
  PROVE  SumOver(f, A \cup B) = SumOver(f, A) + SumOver(f, B)
<1> DEFINE Adds(T) == SumOver(f, A \cup T) = SumOver(f, A) + SumOver(f, T)
<1> DEFINE Bad == {T \in SUBSET B : ~Adds(T)}
<1>1. SUFFICES ASSUME Bad # {} PROVE FALSE
  OBVIOUS
<1>2. PICK T \in Bad : IsFiniteSet(T) /\ \A x \in T : T \ {x} \notin Bad
  <2>1. Bad \in SUBSET SUBSET B
    OBVIOUS
  <2> HIDE DEF Bad
  <2> QED BY <1>1, <2>1, SmallestOf
<1>3. T \in SUBSET B /\ ~Adds(T)
  BY <1>2
<1>4. SumOver(f, A) \in Nat
  BY SumType
<1>5. CASE T = {}
  <2>1. SumOver(f, T) = 0 /\ A \cup T = A
    BY <1>5, SumEmpty
  <2>2. SumOver(f, A \cup T) = SumOver(f, A) + SumOver(f, T)
    <3>1. SumOver(f, A \cup T) = SumOver(f, A)
      BY <2>1, Zenon
    <3>2. SumOver(f, T) = 0
      BY <2>1
    <3> HIDE DEF Bad, Adds
    <3> QED BY <1>4, <3>1, <3>2
  <2> QED BY <1>3, <2>2
<1>6. CASE T # {}
  <2>1. PICK y \in T : TRUE
    BY <1>6
  <2>2. Adds(T \ {y})
    BY <1>2, <1>3, <2>1
  <2>3. IsFiniteSet(A \cup T) /\ IsFiniteSet(T \ {y})
    BY <1>2, FS_Union, FS_RemoveElement
  <2>4. SumOver(f, T) = f[y] + SumOver(f, T \ {y})
    BY <1>2, <1>3, <2>1, SumOut
  <2>5. SumOver(f, A \cup T) = f[y] + SumOver(f, (A \cup T) \ {y})
    <3>1. y \in A \cup T /\ \A x \in A \cup T : f[x] \in Nat
      BY <1>3, <2>1
    <3> HIDE DEF Bad, Adds
    <3> QED BY <2>3, <3>1, SumOut
  <2>6. (A \cup T) \ {y} = A \cup (T \ {y})
    BY <1>3, <2>1
  <2>7. SumOver(f, T \ {y}) \in Nat /\ f[y] \in Nat
    BY <1>3, <2>1, <2>3, SumType
  <2>8. SumOver(f, A \cup (T \ {y})) = SumOver(f, A) + SumOver(f, T \ {y})
    BY <2>2
  <2>9. Adds(T)
    <3>1. SumOver(f, A \cup T) = f[y] + (SumOver(f, A) + SumOver(f, T \ {y}))
      <4> HIDE DEF Bad, Adds
      <4> QED BY <2>5, <2>6, <2>8
    <3>2. SumOver(f, A \cup T) = SumOver(f, A) + SumOver(f, T)
      <4> HIDE DEF Bad, Adds
      <4> QED BY <1>4, <2>4, <2>7, <3>1
    <3> QED BY <3>2
  <2> QED BY <1>3, <2>9
<1> QED BY <1>5, <1>6

-------------------------------------------------------------------------------
(* The total of a set of coins. *)

Coins == [of : Spenders, kind : {"deposit", "change"}, sat : Nat]

Purse(S) == IsFiniteSet(S) /\ \A c \in S : c.sat \in Nat

LEMMA TotalType ==
  ASSUME NEW S, Purse(S)
  PROVE  TotalSat(S) \in Nat
<1> DEFINE f == [c \in S |-> c.sat]
<1>1. \A c \in S : f[c] \in Nat
  BY DEF Purse
<1>2. SumOver(f, S) \in Nat
  <2> HIDE DEF f
  <2> QED BY <1>1, SumType DEF Purse
<1> QED BY <1>2 DEF TotalSat

LEMMA TotalEmpty == TotalSat({}) = 0
<1>1. \A f : SumOver(f, {}) = 0
  BY SumEmpty
<1> QED BY <1>1 DEF TotalSat

LEMMA TotalOne ==
  ASSUME NEW c, c.sat \in Nat
  PROVE  Purse({c}) /\ TotalSat({c}) = c.sat
<1> DEFINE f == [x \in {c} |-> x.sat]
<1>1. IsFiniteSet({c})
  BY FS_Singleton
<1>2. f[c] = c.sat /\ \A x \in {c} : f[x] \in Nat
  OBVIOUS
<1>3. {c} \ {c} = {}
  OBVIOUS
<1>4. SumOver(f, {c}) = f[c] + SumOver(f, {})
  <2> HIDE DEF f
  <2>1. SumOver(f, {c}) = f[c] + SumOver(f, {c} \ {c})
    BY <1>1, <1>2, SumOut
  <2> QED BY <1>3, <2>1
<1>5. SumOver(f, {}) = 0
  BY SumEmpty
<1> QED BY <1>1, <1>2, <1>4, <1>5 DEF TotalSat, Purse

LEMMA TotalSplits ==
  ASSUME NEW A, NEW B, Purse(A), Purse(B), A \cap B = {}
  PROVE  Purse(A \cup B) /\ TotalSat(A \cup B) = TotalSat(A) + TotalSat(B)
<1> DEFINE f == [c \in A \cup B |-> c.sat]
<1> DEFINE a == [c \in A |-> c.sat]
<1> DEFINE b == [c \in B |-> c.sat]
<1>1. IsFiniteSet(A) /\ IsFiniteSet(B) /\ IsFiniteSet(A \cup B)
  BY FS_Union DEF Purse
<1>2. /\ \A c \in A \cup B : f[c] \in Nat
      /\ \A c \in A : f[c] = a[c]
      /\ \A c \in B : f[c] = b[c]
  BY DEF Purse
<1>3. TotalSat(A \cup B) = SumOver(f, A \cup B) /\ TotalSat(A) = SumOver(a, A)
      /\ TotalSat(B) = SumOver(b, B)
  BY DEF TotalSat
<1>4. SumOver(f, A) = SumOver(a, A)
  <2> HIDE DEF f, a, b
  <2> QED BY <1>1, <1>2, SumSame
<1>5. SumOver(f, B) = SumOver(b, B)
  <2> HIDE DEF f, a, b
  <2> QED BY <1>1, <1>2, SumSame
<1>6. SumOver(f, A \cup B) = SumOver(f, A) + SumOver(f, B)
  <2> HIDE DEF f, a, b
  <2> QED BY <1>1, <1>2, SumSplits
<1> QED BY <1>1, <1>3, <1>4, <1>5, <1>6 DEF Purse

(* Coins taken out of a purse. *)
LEMMA TotalOut ==
  ASSUME NEW A, NEW B \in SUBSET A, Purse(A)
  PROVE  /\ Purse(B) /\ Purse(A \ B)
         /\ TotalSat(A \ B) = TotalSat(A) - TotalSat(B)
         /\ TotalSat(B) \in Nat /\ TotalSat(A) \in Nat /\ TotalSat(B) <= TotalSat(A)
<1>1. Purse(B) /\ Purse(A \ B)
  BY FS_Subset DEF Purse
<1>2. TotalSat(B) \in Nat /\ TotalSat(A \ B) \in Nat /\ TotalSat(A) \in Nat
  BY <1>1, TotalType
<1>3. (A \ B) \cup B = A /\ (A \ B) \cap B = {}
  OBVIOUS
<1>4. TotalSat((A \ B) \cup B) = TotalSat(A \ B) + TotalSat(B)
  BY <1>1, <1>3, TotalSplits
<1>5. TotalSat(A) = TotalSat(A \ B) + TotalSat(B)
  BY <1>3, <1>4
<1> QED BY <1>1, <1>2, <1>5

-------------------------------------------------------------------------------
(***************************************************************************)
(* What the arithmetic of a transaction conserves, for every fee rate,     *)
(* every number of inputs and every amount.  The solvency monitor adds the *)
(* pool and the fees on record and compares them with the supply: its sum  *)
(* moves by what users are owed and by nothing else.                       *)
(***************************************************************************)

(* A product with the fee rate grows with its other factor. *)
LEMMA RateMonotone ==
  ASSUME NEW a \in Nat, NEW b \in Nat, a < b
  PROVE  a * FeeRate \in Nat /\ a * FeeRate < b * FeeRate
<1>1. FeeRate \in Nat /\ FeeRate > 0
  BY FeeRateAssumption
<1>2. \A x \in Nat : x * FeeRate \in Nat
  BY <1>1
<1>3. b * FeeRate = a * FeeRate + (b - a) * FeeRate
  BY <1>1
<1>4. (b - a) * FeeRate > 0
  BY <1>1
<1> QED
  BY <1>2, <1>3, <1>4

(* An output more costs more (estimateFee). *)
LEMMA FeeOfOutputs ==
  ASSUME NEW n \in Nat
  PROVE  /\ EstimateFee(n, 1) \in Nat
         /\ EstimateFee(n, 2) \in Nat
         /\ EstimateFee(n, 1) < EstimateFee(n, 2)
<1> DEFINE bytes(m) == TX_OVERHEAD + n * BYTES_PER_INPUT + m * BYTES_PER_OUTPUT
<1>1. /\ bytes(1) \in Nat /\ bytes(2) \in Nat
      /\ bytes(2) + 1 \in Nat
      /\ bytes(1) < bytes(2) /\ bytes(2) < bytes(2) + 1
  BY DEF TX_OVERHEAD, BYTES_PER_INPUT, BYTES_PER_OUTPUT
<1>2. EstimateFee(n, 1) = bytes(1) * FeeRate /\ EstimateFee(n, 2) = bytes(2) * FeeRate
  BY DEF EstimateFee
<1> HIDE DEF bytes
<1>3. bytes(1) * FeeRate \in Nat /\ bytes(1) * FeeRate < bytes(2) * FeeRate
  BY <1>1, RateMonotone
<1>4. bytes(2) * FeeRate \in Nat
  BY <1>1, RateMonotone
<1> QED
  BY <1>2, <1>3, <1>4

(***************************************************************************)
(* A payout whose inputs suffice divides them into what it pays, the       *)
(* change and the fee on record; it leaves no dust, pays at least the fee  *)
(* of its outputs and overpays by no more than one output and dust         *)
(* (buildPayoutTx).                                                        *)
(***************************************************************************)
THEOREM PayoutConserves ==
  ASSUME NEW total \in Nat, NEW n \in Nat, NEW amount \in Nat,
         Covers(total, n, amount)
  PROVE  LET t == PayoutTx(total, n, amount)
         IN  /\ total = t.pays + t.change + t.bridgeFee
             /\ t.pays = amount
             /\ t.change = 0 \/ t.change > DUST_THRESHOLD_SAT
             /\ t.fee >= EstimateFee(n, IF t.change > 0 THEN 2 ELSE 1)
             /\ t.fee <= EstimateFee(n, 2) + DUST_THRESHOLD_SAT
<1> DEFINE fee  == SelectionFee(total, n, amount)
           rest == total - amount - fee
<1>1. /\ EstimateFee(n, 1) \in Nat /\ EstimateFee(n, 2) \in Nat
      /\ EstimateFee(n, 1) < EstimateFee(n, 2)
  BY FeeOfOutputs
<1>2. fee = EstimateFee(n, IF total > amount THEN 2 ELSE 1) /\ total >= amount + fee
  BY DEF Covers, SelectionFee
<1>3. fee \in Nat /\ rest \in Nat /\ total = amount + fee + rest
  BY <1>1, <1>2
<1>4. fee > 0 => total > amount
  BY <1>3
<1>5. /\ total > amount => fee = EstimateFee(n, 2)
      /\ ~(total > amount) => fee = EstimateFee(n, 1)
  BY <1>2
<1>6. EstimateFee(n, 1) <= fee /\ fee <= EstimateFee(n, 2)
  BY <1>1, <1>5
<1>7. PayoutTx(total, n, amount)
        = [pays |-> amount, change |-> IF rest > DUST_THRESHOLD_SAT THEN rest ELSE 0,
           fee |-> IF rest <= DUST_THRESHOLD_SAT THEN total - amount ELSE fee,
           bridgeFee |-> IF rest <= DUST_THRESHOLD_SAT THEN total - amount ELSE fee]
  BY DEF PayoutTx
<1> HIDE DEF fee, rest
<1>8. CASE rest > DUST_THRESHOLD_SAT
  <2>1. total > amount
    BY <1>3, <1>8 DEF DUST_THRESHOLD_SAT
  <2>2. fee = EstimateFee(n, 2)
    BY <2>1, <1>5
  <2> QED
    BY <2>2, <1>1, <1>3, <1>7, <1>8 DEF DUST_THRESHOLD_SAT
<1>9. CASE ~(rest > DUST_THRESHOLD_SAT)
  BY <1>1, <1>3, <1>6, <1>7, <1>9 DEF DUST_THRESHOLD_SAT
<1> QED
  BY <1>8, <1>9

(***************************************************************************)
(* A refund divides its inputs in the same way; the pool loses what is     *)
(* refunded and the fee on record as the bridge's, which is dust at most,  *)
(* and the recipient and the fee share the rest (planRefund).              *)
(***************************************************************************)
THEOREM RefundConserves ==
  ASSUME NEW total \in Nat, NEW n \in Nat, NEW gross \in Nat,
         RefundSendable(total, n, gross)
  PROVE  LET t == RefundTx(total, n, gross)
         IN  /\ total = t.pays + t.change + t.fee
             /\ total - t.change = gross + t.bridgeFee
             /\ t.change = 0 \/ t.change > DUST_THRESHOLD_SAT
             /\ t.pays > DUST_THRESHOLD_SAT
             /\ t.bridgeFee \in 0 .. DUST_THRESHOLD_SAT
             /\ t.fee >= EstimateFee(n, IF t.change > 0 THEN 2 ELSE 1)
<1> DEFINE rest   == total - gross
           change == IF rest > DUST_THRESHOLD_SAT THEN rest ELSE 0
           fee    == EstimateFee(n, IF rest > DUST_THRESHOLD_SAT THEN 2 ELSE 1)
<1>1. EstimateFee(n, 1) \in Nat /\ EstimateFee(n, 2) \in Nat
  BY FeeOfOutputs
<1>2. RefundTx(total, n, gross)
        = [pays |-> gross - fee, change |-> change,
           fee |-> total - (gross - fee) - change,
           bridgeFee |-> total - (gross - fee) - change - fee]
  BY DEF RefundTx
<1>3. fee \in Nat
  BY <1>1
<1>4. rest \in Nat /\ total = gross + rest /\ gross - fee > DUST_THRESHOLD_SAT
  BY <1>2 DEF RefundSendable
<1>5. change \in {0, rest} /\ (change = 0 \/ change > DUST_THRESHOLD_SAT)
  BY DEF DUST_THRESHOLD_SAT
<1>6. rest - change \in 0 .. DUST_THRESHOLD_SAT /\ change \in Nat
  BY <1>4 DEF DUST_THRESHOLD_SAT
<1>7. RefundTx(total, n, gross).change = change
  BY <1>2
<1>8. fee = EstimateFee(n, IF change > 0 THEN 2 ELSE 1)
  BY DEF DUST_THRESHOLD_SAT
<1> HIDE DEF rest, change, fee
<1> QED
  BY <1>2, <1>3, <1>4, <1>5, <1>6, <1>8 DEF DUST_THRESHOLD_SAT

(***************************************************************************)
(* An excess that was not recorded as too small can be refunded out of any *)
(* one coin that holds it, its own deposit before all (isRefundTooSmall    *)
(* decides at the split, planRefund at the refund).                        *)
(***************************************************************************)
THEOREM RefundOfOneCoin ==
  ASSUME NEW total \in Nat, NEW gross \in Nat, total >= gross,
         ~IsRefundTooSmall(gross)
  PROVE  RefundSendable(total, 1, gross)
<1>1. /\ EstimateFee(1, 1) \in Nat /\ EstimateFee(1, 2) \in Nat
      /\ EstimateFee(1, 1) < EstimateFee(1, 2)
  BY FeeOfOutputs
<1>2. gross - EstimateFee(1, 2) > DUST_THRESHOLD_SAT
  BY <1>1 DEF IsRefundTooSmall, DUST_THRESHOLD_SAT
<1>3. PICK m \in {1, 2} : RefundTx(total, 1, gross).pays = gross - EstimateFee(1, m)
  BY DEF RefundTx
<1> QED
  BY <1>1, <1>2, <1>3 DEF RefundSendable, DUST_THRESHOLD_SAT

-------------------------------------------------------------------------------
(***************************************************************************)
(* The inductive invariant of the amounts: what the bridge owns and the    *)
(* fees on record are the supply and what is still owed.                   *)
(***************************************************************************)

IsMinted(d) == deposit[d] \in {"MINT_SUBMITTED", "COMPLETED"}

(* What the bridge owes its users: the parts of a deposit that are neither *)
(* minted nor refunded, and a burn that is not paid.                       *)
Owed == [x \in Spenders |->
  IF x \in Deposits
  THEN IF deposit[x] = "DEPOSIT_FINALIZED" THEN 0
       ELSE (IF IsMinted(x) THEN 0 ELSE MintedSat[x]) + (IF x \in sent THEN 0 ELSE Excess(x))
  ELSE IF withdrawal[x] # "none" /\ x \notin sent THEN BurnSat[x] ELSE 0]

Held == UNION {held[x] : x \in Spenders}

(* Every satoshi of the supply is backed, whatever the executors are in    *)
(* the middle of: coins, free or reserved, and the fees on record are the  *)
(* supply that deposits stand for, and what is owed.                       *)
Balanced ==
  OwnSat + FeesPaidSat + (IF outside THEN OutsideSat ELSE 0)
    = supply + SumOver(Owed, Spenders)

LedgerTypes ==
  /\ deposit \in [Deposits -> {"DEPOSIT_FINALIZED", "MINT_AUTH_CREATED", "MINT_SUBMITTED",
                               "COMPLETED", "REFUNDED"}]
  /\ refund \in [Deposits -> {"none", "queued", "too_small", "needs_attention", "signed",
                              "broadcast"}]
  /\ withdrawal \in [Withdrawals -> {"none", "PAYOUT_QUEUED", "PAYOUT_SIGNED",
                                     "PAYOUT_BROADCAST", "COMPLETED", "MANUAL_REVIEW"}]
  /\ available \in SUBSET Coins /\ IsFiniteSet(available)
  /\ held \in [Spenders -> SUBSET Coins] /\ \A x \in Spenders : IsFiniteSet(held[x])
  /\ tx \in [Spenders -> [pays : Nat, change : Nat, fee : Nat, bridgeFee : Nat]]
  /\ sent \in SUBSET Spenders
  /\ supply \in Nat /\ outside \in BOOLEAN /\ incidents \in Nat

(* A coin is in one place.  It is a deposit that was taken, or the change  *)
(* of a transaction that is out.                                           *)
CoinsInv ==
  /\ \A x \in Spenders : held[x] \cap available = {}
  /\ \A x, y \in Spenders : x # y => held[x] \cap held[y] = {}
  /\ \A c \in available \cup Held :
       IF c.kind = "deposit"
       THEN c.of \in Deposits /\ deposit[c.of] # "DEPOSIT_FINALIZED"
       ELSE c.of \in sent

(* What a transaction takes from the bridge but its fee. *)
Worth(x) == IF x \in Deposits THEN Excess(x) ELSE BurnSat[x]

(* What is signed has its coins, and divides them; what is out has none.   *)
SpendersInv ==
  /\ \A d \in Deposits :
       /\ d \in sent <=> refund[d] = "broadcast"
       /\ held[d] # {} => refund[d] \in {"signed", "needs_attention"}
       /\ refund[d] = "signed" => held[d] # {}
       /\ deposit[d] = "DEPOSIT_FINALIZED" => refund[d] = "none"
  /\ \A w \in Withdrawals :
       /\ w \in sent => held[w] = {}
       /\ withdrawal[w] = "PAYOUT_SIGNED" => w \notin sent /\ held[w] # {}
       /\ withdrawal[w] = "none" => w \notin sent /\ held[w] = {}
  /\ \A x \in Spenders :
       held[x] # {} => TotalSat(held[x]) = Worth(x) + tx[x].change + tx[x].bridgeFee

LedgerInv == LedgerTypes /\ CoinsInv /\ SpendersInv /\ Balanced

(* What the verdict will be made from, of what is read and what is to be.  *)
Reading ==
  IF poll.pc = "pool" THEN OwnSat + FeesPaidSat
  ELSE IF poll.pc = "fees" THEN poll.pool + FeesPaidSat
  ELSE poll.pool + poll.fees

PollInv ==
  \/ poll = Resting
  \/ /\ DOMAIN poll = {"pc", "stale", "supply", "pool", "fees", "began", "strained",
                       "covered"}
     /\ poll.pc \in {"pool", "fees", "report"}
     /\ poll.stale \in BOOLEAN /\ poll.strained \in BOOLEAN /\ poll.covered \in BOOLEAN
     /\ poll.pool \in Nat /\ poll.fees \in Nat /\ poll.began \in Nat
     /\ ~poll.stale => poll.supply = poll.began
     /\ ~poll.strained => ~Reserved \/ poll.pc = "report"
     /\ ~poll.stale /\ ~poll.strained => Reading >= poll.supply
     /\ ~poll.stale /\ ~poll.covered => Reading < poll.supply

SolvencyInv == LedgerInv /\ PollInv

-------------------------------------------------------------------------------
(* What the types say of the amounts. *)

LEMMA GivenAmounts ==
  /\ IsFiniteSet(Spenders) /\ Deposits \subseteq Spenders /\ Withdrawals \subseteq Spenders
  /\ \A x \in Spenders : x \in Deposits \/ x \in Withdrawals
  /\ \A x \in Withdrawals : x \notin Deposits
  /\ \A d \in Deposits :
       /\ DepositSat[d] \in Nat /\ MintedSat[d] \in Nat /\ Excess(d) \in Nat
       /\ DepositSat[d] = MintedSat[d] + Excess(d)
  /\ \A w \in Withdrawals : BurnSat[w] \in Nat
  /\ OutsideSat \in Nat /\ MaxIncidents \in Nat
  /\ \A x \in Spenders : Worth(x) \in Nat
<1>1. IsFiniteSet(Spenders)
  BY LedgerAssumption, FS_Union DEF Spenders
<1>2. \A d \in Deposits :
        /\ DepositSat[d] \in Nat /\ MintedSat[d] \in Nat /\ Excess(d) \in Nat
        /\ DepositSat[d] = MintedSat[d] + Excess(d)
  BY LedgerAssumption DEF Excess
<1> QED BY <1>1, <1>2, LedgerAssumption DEF Spenders, Worth

LEMMA OwedType == \A x \in Spenders : Owed[x] \in Nat /\ Owed'[x] \in Nat
<1>1. ASSUME NEW x \in Spenders PROVE Owed[x] \in Nat
  BY GivenAmounts DEF Owed
<1>2. ASSUME NEW x \in Spenders PROVE Owed'[x] \in Nat
  BY GivenAmounts DEF Owed
<1> QED BY <1>1, <1>2

LEMMA LedgerAmounts ==
  ASSUME LedgerTypes
  PROVE  /\ Purse(available) /\ Purse(Held) /\ \A x \in Spenders : Purse(held[x])
         /\ \A x \in Spenders : held[x] \subseteq Held
         /\ OwnSat = TotalSat(available) + TotalSat(Held)
         /\ TotalSat(available) \in Nat /\ TotalSat(Held) \in Nat
         /\ OwnSat \in Nat /\ PoolSat \in Nat /\ PoolSat <= OwnSat
         /\ FeesPaidSat \in Nat /\ SumOver(Owed, Spenders) \in Nat
         /\ IsFiniteSet(sent)
<1>1. \A c \in Coins : c.sat \in Nat
  BY DEF Coins
<1>2. available \subseteq Coins /\ IsFiniteSet(available)
  BY DEF LedgerTypes
<1>3. \A x \in Spenders : held[x] \subseteq Coins /\ IsFiniteSet(held[x])
  BY DEF LedgerTypes
<1>4. IsFiniteSet(Held)
  <2> DEFINE f == [x \in Spenders |-> held[x]]
  <2>1. IsFiniteSet(DOMAIN f) /\ f \in [DOMAIN f -> {f[x] : x \in DOMAIN f}]
    BY GivenAmounts
  <2>2. IsFiniteSet({f[x] : x \in DOMAIN f})
    <3> HIDE DEF f
    <3> QED BY <2>1, ImageIsFinite
  <2>3. \A T \in {f[x] : x \in DOMAIN f} : IsFiniteSet(T)
    BY <1>3
  <2>4. IsFiniteSet(UNION {f[x] : x \in DOMAIN f})
    <3> HIDE DEF f
    <3> QED BY <2>2, <2>3, FS_UNION
  <2> QED BY <2>4 DEF Held
<1>5. Purse(available) /\ Purse(Held) /\ \A x \in Spenders : Purse(held[x])
  BY <1>1, <1>2, <1>3, <1>4 DEF Purse, Held
<1>6. TotalSat(available) \in Nat /\ TotalSat(Held) \in Nat
  BY <1>5, TotalType
<1>7. OwnSat = TotalSat(available) + TotalSat(Held) /\ PoolSat = TotalSat(available)
  BY DEF OwnSat, PoolSat, Held
<1>8. IsFiniteSet(sent) /\ FeesPaidSat \in Nat
  <2>1. sent \in SUBSET Spenders /\ IsFiniteSet(sent)
    BY GivenAmounts, FS_Subset DEF LedgerTypes
  <2> DEFINE f == [x \in sent |-> tx[x].bridgeFee]
  <2>2. \A x \in sent : f[x] \in Nat
    BY <2>1 DEF LedgerTypes
  <2>3. SumOver(f, sent) \in Nat
    <3> HIDE DEF f
    <3> QED BY <2>1, <2>2, SumType
  <2> QED BY <2>1, <2>3 DEF FeesPaidSat
<1>9. SumOver(Owed, Spenders) \in Nat
  BY OwedType, GivenAmounts, SumType
<1>10. \A x \in Spenders : held[x] \subseteq Held
  BY DEF Held
<1> QED BY <1>5, <1>6, <1>7, <1>8, <1>9, <1>10

-------------------------------------------------------------------------------
(* Steps that touch no coin. *)

Still == UNCHANGED <<available, held, tx, sent>>

LEMMA StillAmounts ==
  ASSUME Still
  PROVE  OwnSat' = OwnSat /\ FeesPaidSat' = FeesPaidSat /\ Held' = Held
BY DEF Still, OwnSat, PoolSat, FeesPaidSat, Held

(* Deposits are not given back, so a coin stays what it was. *)
LEMMA StillCoins ==
  ASSUME LedgerInv, Still,
         \A d \in Deposits : deposit'[d] = "DEPOSIT_FINALIZED" => deposit[d] = "DEPOSIT_FINALIZED"
  PROVE  CoinsInv'
<1>1. Held' = Held
  BY StillAmounts
<1> QED BY <1>1 DEF Still, LedgerInv, CoinsInv

LEMMA OwedKept ==
  ASSUME LedgerTypes, \A x \in Spenders : Owed'[x] = Owed[x]
  PROVE  SumOver(Owed, Spenders)' = SumOver(Owed, Spenders)
<1>1. SumOver(Owed, Spenders) = SumOver(Owed', Spenders)
  <2>1. \A x \in Spenders : Owed[x] = Owed'[x]
    OBVIOUS
  <2> QED BY <2>1, GivenAmounts, SumSame
<1> QED BY <1>1

(* What is owed moves with what is owed to one. *)
LEMMA OwedMoves ==
  ASSUME LedgerTypes, NEW y \in Spenders, \A x \in Spenders \ {y} : Owed'[x] = Owed[x]
  PROVE  /\ SumOver(Owed, Spenders)' + Owed[y] = SumOver(Owed, Spenders) + Owed'[y]
         /\ SumOver(Owed, Spenders)' \in Nat /\ SumOver(Owed, Spenders) \in Nat
         /\ Owed[y] \in Nat /\ Owed'[y] \in Nat
<1>1. \A x \in Spenders : Owed[x] \in Nat /\ Owed'[x] \in Nat
  BY OwedType
<1>2. \A x \in Spenders \ {y} : Owed[x] = Owed'[x]
  OBVIOUS
<1>3. SumOver(Owed', Spenders) + Owed[y] = SumOver(Owed, Spenders) + Owed'[y]
  BY <1>1, <1>2, GivenAmounts, SumMoves
<1>4. SumOver(Owed, Spenders) \in Nat /\ SumOver(Owed', Spenders) \in Nat
  BY <1>1, GivenAmounts, SumType
<1> QED BY <1>1, <1>3, <1>4

(* What every step of the bridge keeps: the invariant; and what the bridge *)
(* owns shrinks only when a transaction goes out, which held its coins.    *)
Advances ==
  /\ LedgerInv'
  /\ sent' # sent => Reserved
  /\ sent' = sent => OwnSat' >= OwnSat /\ FeesPaidSat' = FeesPaidSat

LEMMA StillAdvances ==
  ASSUME LedgerInv, Still, LedgerTypes', SpendersInv',
         \A d \in Deposits : deposit'[d] = "DEPOSIT_FINALIZED" => deposit[d] = "DEPOSIT_FINALIZED",
         (IF outside THEN OutsideSat ELSE 0)' + supply + SumOver(Owed, Spenders)
           = (IF outside THEN OutsideSat ELSE 0) + supply' + SumOver(Owed, Spenders)'
  PROVE  Advances
<1>1. CoinsInv'
  BY StillCoins
<1>2. OwnSat' = OwnSat /\ FeesPaidSat' = FeesPaidSat
  BY StillAmounts
<1>3. Balanced'
  <2>1. LedgerTypes /\ Balanced
    BY DEF LedgerInv
  <2>2. /\ OwnSat \in Nat /\ FeesPaidSat \in Nat /\ SumOver(Owed, Spenders) \in Nat
        /\ supply \in Nat
    BY <2>1, LedgerAmounts DEF LedgerTypes
  <2>3. SumOver(Owed, Spenders)' \in Nat /\ supply' \in Nat
    <3>1. \A x \in Spenders : Owed'[x] \in Nat
      BY OwedType
    <3>2. SumOver(Owed', Spenders) \in Nat
      BY <3>1, GivenAmounts, SumType
    <3> QED BY <3>2 DEF LedgerTypes
  <2> QED BY <1>2, <2>1, <2>2, <2>3, GivenAmounts DEF Balanced
<1>4. sent' = sent /\ OwnSat \in Nat
  BY LedgerAmounts DEF Still, LedgerInv
<1> QED BY <1>1, <1>2, <1>3, <1>4 DEF Advances, LedgerInv

(* A move of an order or a refund that changes nothing owed. *)
LEMMA NothingOwed ==
  ASSUME LedgerInv, UNCHANGED <<supply, outside>>, \A x \in Spenders : Owed'[x] = Owed[x]
  PROVE  (IF outside THEN OutsideSat ELSE 0)' + supply + SumOver(Owed, Spenders)
           = (IF outside THEN OutsideSat ELSE 0) + supply' + SumOver(Owed, Spenders)'
<1>1. SumOver(Owed, Spenders)' = SumOver(Owed, Spenders)
  BY OwedKept DEF LedgerInv
<1> QED BY <1>1

LEMMA MintStep ==
  ASSUME LedgerInv, NEW d \in Deposits, Mint(d)
  PROVE  Advances
<1>1. /\ LedgerTypes /\ SpendersInv /\ CoinsInv
      /\ deposit[d] = "MINT_AUTH_CREATED" /\ supply' = supply + MintedSat[d]
      /\ deposit' = [deposit EXCEPT ![d] = "MINT_SUBMITTED"]
      /\ UNCHANGED <<refund, withdrawal, available, held, tx, sent, outside, incidents>>
  BY DEF Mint, LedgerInv
<1>2. LedgerTypes'
  BY <1>1, GivenAmounts DEF LedgerTypes
<1>3. SpendersInv'
  BY <1>1 DEF SpendersInv, Worth, LedgerTypes
<1>4. \A e \in Deposits : deposit'[e] = "DEPOSIT_FINALIZED" => deposit[e] = "DEPOSIT_FINALIZED"
  BY <1>1 DEF LedgerTypes
<1>5. Owed[d] = Owed'[d] + MintedSat[d]
  BY <1>1, GivenAmounts DEF Owed, IsMinted, LedgerTypes
<1>6. \A x \in Spenders \ {d} : Owed'[x] = Owed[x]
  BY <1>1 DEF Owed, IsMinted, LedgerTypes
<1>7. /\ SumOver(Owed, Spenders)' + Owed[d] = SumOver(Owed, Spenders) + Owed'[d]
      /\ SumOver(Owed, Spenders)' \in Nat /\ SumOver(Owed, Spenders) \in Nat
      /\ Owed[d] \in Nat /\ Owed'[d] \in Nat
  BY <1>1, <1>6, GivenAmounts, OwedMoves
<1>8. (IF outside THEN OutsideSat ELSE 0)' + supply + SumOver(Owed, Spenders)
           = (IF outside THEN OutsideSat ELSE 0) + supply' + SumOver(Owed, Spenders)'
  <2>1. supply \in Nat /\ supply' \in Nat /\ outside' = outside
    BY <1>1, <1>2 DEF LedgerTypes
  <2>2. MintedSat[d] \in Nat
    BY GivenAmounts
  <2>3. SumOver(Owed, Spenders) = SumOver(Owed, Spenders)' + MintedSat[d]
    BY <1>5, <1>7, <2>2
  <2>4. (IF outside THEN OutsideSat ELSE 0)' = IF outside THEN OutsideSat ELSE 0
    BY <2>1
  <2>5. (IF outside THEN OutsideSat ELSE 0) \in Nat
    BY GivenAmounts
  <2> QED BY <1>1, <1>7, <2>1, <2>2, <2>3, <2>4, <2>5
<1> QED BY <1>1, <1>2, <1>3, <1>4, <1>8, StillAdvances DEF Still

LEMMA CompleteMintStep ==
  ASSUME LedgerInv, NEW d \in Deposits, CompleteMint(d)
  PROVE  Advances
<1>1. /\ LedgerTypes /\ SpendersInv /\ deposit[d] = "MINT_SUBMITTED"
      /\ deposit' = [deposit EXCEPT ![d] = "COMPLETED"]
      /\ UNCHANGED <<refund, withdrawal, available, held, tx, sent, supply, outside, incidents>>
  BY DEF CompleteMint, LedgerInv
<1>2. LedgerTypes'
  BY <1>1 DEF LedgerTypes
<1>3. SpendersInv'
  BY <1>1 DEF SpendersInv, Worth, LedgerTypes
<1>4. \A e \in Deposits : deposit'[e] = "DEPOSIT_FINALIZED" => deposit[e] = "DEPOSIT_FINALIZED"
  BY <1>1 DEF LedgerTypes
<1>5. \A x \in Spenders : Owed'[x] = Owed[x]
  BY <1>1 DEF Owed, IsMinted, LedgerTypes
<1>6. (IF outside THEN OutsideSat ELSE 0)' + supply + SumOver(Owed, Spenders)
           = (IF outside THEN OutsideSat ELSE 0) + supply' + SumOver(Owed, Spenders)'
  BY <1>1, <1>5, NothingOwed
<1> QED BY <1>1, <1>2, <1>3, <1>4, <1>6, StillAdvances DEF Still

(* The status of a refund that is not out. *)
LEMMA RefundMoves ==
  ASSUME LedgerInv, NEW d \in Deposits,
         NEW s \in {"too_small", "needs_attention", "signed"},
         refund[d] \notin {"none", "broadcast"}, refund' = [refund EXCEPT ![d] = s],
         held[d] # {} => s # "too_small", s = "signed" => held[d] # {}, incidents' \in Nat,
         UNCHANGED <<deposit, withdrawal, available, held, tx, sent, supply, outside>>
  PROVE  Advances
<1>1. LedgerTypes /\ SpendersInv
  BY DEF LedgerInv
<1>2. LedgerTypes'
  BY <1>1 DEF LedgerTypes
<1>3. SpendersInv'
  <2>1. \A e \in Deposits : refund'[e] = IF e = d THEN s ELSE refund[e]
    BY <1>1 DEF LedgerTypes
  <2>2. d \notin sent /\ deposit[d] # "DEPOSIT_FINALIZED"
    BY <1>1 DEF SpendersInv
  <2>3. \A e \in Deposits :
          /\ e \in sent' <=> refund'[e] = "broadcast"
          /\ held'[e] # {} => refund'[e] \in {"signed", "needs_attention"}
          /\ refund'[e] = "signed" => held'[e] # {}
          /\ deposit'[e] = "DEPOSIT_FINALIZED" => refund'[e] = "none"
    BY <1>1, <2>1, <2>2 DEF SpendersInv
  <2> QED BY <1>1, <2>3 DEF SpendersInv, Worth
<1>4. \A x \in Spenders : Owed'[x] = Owed[x]
  BY DEF Owed, IsMinted
<1>5. (IF outside THEN OutsideSat ELSE 0)' + supply + SumOver(Owed, Spenders)
           = (IF outside THEN OutsideSat ELSE 0) + supply' + SumOver(Owed, Spenders)'
  BY <1>4, NothingOwed
<1> QED BY <1>2, <1>3, <1>5, StillAdvances DEF Still

LEMMA ParkRefundStep ==
  ASSUME LedgerInv, NEW d \in Deposits, ParkRefund(d)
  PROVE  Advances
<1>1. PICK s \in {"needs_attention", "too_small"} : refund' = [refund EXCEPT ![d] = s]
  BY DEF ParkRefund
<1>2. held[d] = {} /\ incidents \in Nat /\ refund[d] = "queued"
  BY DEF ParkRefund, LedgerInv, SpendersInv, LedgerTypes
<1> QED BY <1>1, <1>2, RefundMoves DEF ParkRefund

LEMMA RefuseRefundStep ==
  ASSUME LedgerInv, NEW d \in Deposits, RefuseRefund(d)
  PROVE  Advances
<1>1. incidents \in Nat
  BY DEF LedgerInv, LedgerTypes
<1> QED BY <1>1, RefundMoves DEF RefuseRefund

LEMMA RetryRefundStep ==
  ASSUME LedgerInv, NEW d \in Deposits, RetryRefund(d)
  PROVE  Advances
<1>1. incidents' \in Nat
  BY DEF LedgerInv, LedgerTypes, RetryRefund, Incident
<1> QED BY <1>1, RefundMoves DEF RetryRefund

(* The state of a burn, once it is one. *)
LEMMA WithdrawalMoves ==
  ASSUME LedgerInv, NEW w \in Withdrawals,
         NEW s \in {"PAYOUT_QUEUED", "PAYOUT_SIGNED", "COMPLETED", "MANUAL_REVIEW"},
         withdrawal[w] # "none", withdrawal' = [withdrawal EXCEPT ![w] = s],
         s = "PAYOUT_SIGNED" => w \notin sent /\ held[w] # {}, incidents' \in Nat,
         UNCHANGED <<deposit, refund, available, held, tx, sent, supply, outside>>
  PROVE  Advances
<1>1. LedgerTypes /\ SpendersInv
  BY DEF LedgerInv
<1>2. LedgerTypes'
  BY <1>1 DEF LedgerTypes
<1>3. \A v \in Withdrawals : withdrawal'[v] = IF v = w THEN s ELSE withdrawal[v]
  BY <1>1 DEF LedgerTypes
<1>4. SpendersInv'
  <2>1. \A v \in Withdrawals :
          /\ v \in sent' => held'[v] = {}
          /\ withdrawal'[v] = "PAYOUT_SIGNED" => v \notin sent' /\ held'[v] # {}
          /\ withdrawal'[v] = "none" => v \notin sent' /\ held'[v] = {}
    BY <1>1, <1>3 DEF SpendersInv
  <2> QED BY <1>1, <2>1 DEF SpendersInv, Worth
<1>5. \A x \in Spenders : Owed'[x] = Owed[x]
  <2>1. \A x \in Spenders : x \notin Deposits => (withdrawal'[x] = "none" <=> withdrawal[x] = "none")
    BY <1>3, GivenAmounts
  <2> QED BY <2>1 DEF Owed, IsMinted
<1>6. (IF outside THEN OutsideSat ELSE 0)' + supply + SumOver(Owed, Spenders)
           = (IF outside THEN OutsideSat ELSE 0) + supply' + SumOver(Owed, Spenders)'
  BY <1>5, NothingOwed
<1> QED BY <1>2, <1>4, <1>6, StillAdvances DEF Still

LEMMA OtherPayoutSteps ==
  ASSUME LedgerInv, NEW w \in Withdrawals,
         RetrySameTx(w) \/ ParkPayout(w) \/ CompletePayout(w) \/ Requeue(w)
  PROVE  Advances
<1>1. incidents \in Nat
  BY DEF LedgerInv, LedgerTypes
<1>2. CASE RetrySameTx(w)
  BY <1>1, <1>2, WithdrawalMoves DEF RetrySameTx, Transition
<1>3. CASE ParkPayout(w)
  <2>1. /\ withdrawal[w] \in {"PAYOUT_QUEUED", "PAYOUT_SIGNED", "PAYOUT_BROADCAST"}
        /\ withdrawal' = [withdrawal EXCEPT ![w] = "MANUAL_REVIEW"]
        /\ UNCHANGED <<deposit, refund, available, held, tx, sent, supply, outside, incidents>>
    BY <1>3 DEF ParkPayout, Transition
  <2> QED BY <1>1, <2>1, WithdrawalMoves
<1>4. CASE CompletePayout(w)
  BY <1>1, <1>4, WithdrawalMoves DEF CompletePayout, Transition
<1>5. CASE Requeue(w)
  <2>1. incidents' \in Nat
    BY <1>1, <1>5 DEF Requeue, Incident
  <2> QED BY <1>5, <2>1, WithdrawalMoves DEF Requeue, Transition
<1> QED BY <1>2, <1>3, <1>4, <1>5

LEMMA BurnStep ==
  ASSUME LedgerInv, NEW w \in Withdrawals, Burn(w)
  PROVE  Advances
<1>1. /\ LedgerTypes /\ SpendersInv /\ withdrawal[w] = "none"
      /\ supply >= BurnSat[w] /\ supply' = supply - BurnSat[w]
      /\ withdrawal' = [withdrawal EXCEPT ![w] = "PAYOUT_QUEUED"]
      /\ UNCHANGED <<deposit, refund, available, held, tx, sent, outside, incidents>>
  BY DEF Burn, Transition, LedgerInv
<1>2. LedgerTypes'
  <2>1. supply' \in Nat
    BY <1>1, GivenAmounts DEF LedgerTypes
  <2> QED BY <1>1, <2>1 DEF LedgerTypes
<1>3. \A v \in Withdrawals :
        withdrawal'[v] = IF v = w THEN "PAYOUT_QUEUED" ELSE withdrawal[v]
  BY <1>1 DEF LedgerTypes
<1>4. SpendersInv'
  <2>1. \A v \in Withdrawals :
          /\ v \in sent' => held'[v] = {}
          /\ withdrawal'[v] = "PAYOUT_SIGNED" => v \notin sent' /\ held'[v] # {}
          /\ withdrawal'[v] = "none" => v \notin sent' /\ held'[v] = {}
    BY <1>1, <1>3 DEF SpendersInv
  <2> QED BY <1>1, <2>1 DEF SpendersInv, Worth
<1>5. Owed[w] = 0 /\ Owed'[w] = BurnSat[w]
  <2>1. w \in Spenders /\ w \notin Deposits /\ w \notin sent
    BY <1>1, GivenAmounts DEF SpendersInv
  <2>2. w \notin sent' /\ withdrawal'[w] # "none"
    BY <1>1, <1>3, <2>1
  <2>3. Owed[w] = 0
    BY <1>1, <2>1 DEF Owed
  <2>4. Owed'[w] = BurnSat[w]
    BY <2>1, <2>2 DEF Owed
  <2> QED BY <2>3, <2>4
<1>6. \A x \in Spenders \ {w} : Owed'[x] = Owed[x]
  <2>1. \A x \in Spenders \ {w} : x \notin Deposits => withdrawal'[x] = withdrawal[x]
    BY <1>3, GivenAmounts
  <2> QED BY <1>1, <2>1 DEF Owed, IsMinted
<1>7. /\ SumOver(Owed, Spenders)' + Owed[w] = SumOver(Owed, Spenders) + Owed'[w]
      /\ SumOver(Owed, Spenders)' \in Nat /\ SumOver(Owed, Spenders) \in Nat
  BY <1>1, <1>6, GivenAmounts, OwedMoves
<1>8. (IF outside THEN OutsideSat ELSE 0)' + supply + SumOver(Owed, Spenders)
           = (IF outside THEN OutsideSat ELSE 0) + supply' + SumOver(Owed, Spenders)'
  <2>1. supply \in Nat /\ BurnSat[w] \in Nat
    BY <1>1, GivenAmounts DEF LedgerTypes
  <2>2. SumOver(Owed, Spenders)' = SumOver(Owed, Spenders) + BurnSat[w]
    BY <1>5, <1>7, <2>1
  <2>3. (IF outside THEN OutsideSat ELSE 0)' = IF outside THEN OutsideSat ELSE 0
    BY <1>1
  <2>4. (IF outside THEN OutsideSat ELSE 0) \in Nat
    BY GivenAmounts
  <2> QED BY <1>1, <1>7, <2>1, <2>2, <2>3, <2>4
<1> QED BY <1>1, <1>2, <1>4, <1>8, StillAdvances DEF Still

LEMMA OutsideSteps ==
  ASSUME LedgerInv, OutsideMint \/ OutsideBurn
  PROVE  Advances
<1>1. /\ LedgerTypes /\ SpendersInv /\ outside' = ~outside
      /\ supply' = IF outside THEN supply - OutsideSat ELSE supply + OutsideSat
      /\ outside => supply >= OutsideSat
      /\ UNCHANGED <<deposit, refund, withdrawal, available, held, tx, sent, incidents>>
  BY DEF OutsideMint, OutsideBurn, LedgerInv, LedgerTypes
<1>2. LedgerTypes'
  <2>1. supply' \in Nat /\ outside' \in BOOLEAN
    BY <1>1, GivenAmounts DEF LedgerTypes
  <2> QED BY <1>1, <2>1 DEF LedgerTypes
<1>3. SpendersInv'
  BY <1>1 DEF SpendersInv, Worth
<1>4. SumOver(Owed, Spenders)' = SumOver(Owed, Spenders)
  <2>1. \A x \in Spenders : Owed'[x] = Owed[x]
    BY <1>1 DEF Owed, IsMinted
  <2> QED BY <1>1, <2>1, OwedKept
<1>5. (IF outside THEN OutsideSat ELSE 0)' + supply + SumOver(Owed, Spenders)
           = (IF outside THEN OutsideSat ELSE 0) + supply' + SumOver(Owed, Spenders)'
  <2>1. supply \in Nat /\ SumOver(Owed, Spenders) \in Nat /\ outside \in BOOLEAN
    BY <1>1, LedgerAmounts DEF LedgerTypes
  <2>2. CASE outside
    <3>1. (IF outside THEN OutsideSat ELSE 0)' = 0 /\ (IF outside THEN OutsideSat ELSE 0) = OutsideSat
      BY <1>1, <2>2, Zenon
    <3>2. supply' = supply - OutsideSat
      BY <1>1, <2>2, Zenon
    <3> QED BY <1>4, <2>1, <3>1, <3>2, GivenAmounts
  <2>3. CASE ~outside
    <3>1. (IF outside THEN OutsideSat ELSE 0)' = OutsideSat /\ (IF outside THEN OutsideSat ELSE 0) = 0
      BY <1>1, <2>3, Zenon
    <3>2. supply' = supply + OutsideSat
      BY <1>1, <2>3, Zenon
    <3> QED BY <1>4, <2>1, <3>1, <3>2, GivenAmounts
  <2> QED BY <2>1, <2>2, <2>3
<1> QED BY <1>1, <1>2, <1>3, <1>5, StillAdvances DEF Still

-------------------------------------------------------------------------------
(* A deposit is taken: its coin is new. *)

LEMMA CreateAuthStep ==
  ASSUME LedgerInv, NEW d \in Deposits, CreateAuth(d)
  PROVE  Advances
<1> DEFINE c == DepositCoin(d)
<1> DEFINE s == IF MintedSat[d] > 0 THEN "MINT_AUTH_CREATED" ELSE "REFUNDED"
<1> DEFINE r == IF Excess(d) = 0 THEN "none"
                ELSE IF IsRefundTooSmall(Excess(d)) THEN "too_small" ELSE "queued"
<1>1. /\ LedgerTypes /\ SpendersInv /\ CoinsInv /\ Balanced
      /\ deposit[d] = "DEPOSIT_FINALIZED" /\ deposit' = [deposit EXCEPT ![d] = s]
      /\ available' = available \cup {c} /\ refund' = [refund EXCEPT ![d] = r]
      /\ UNCHANGED <<withdrawal, held, tx, sent, supply, outside, incidents>>
  BY DEF CreateAuth, LedgerInv
<1>2. /\ c \in Coins /\ c.of = d /\ c.kind = "deposit" /\ c.sat = DepositSat[d]
      /\ s \in {"MINT_AUTH_CREATED", "REFUNDED"} /\ r \in {"none", "too_small", "queued"}
  BY GivenAmounts DEF DepositCoin, Coins
<1>3. c \notin available /\ c \notin Held
  BY <1>1, <1>2 DEF CoinsInv
<1> HIDE DEF c, s, r
<1>4. /\ \A e \in Deposits : deposit'[e] = IF e = d THEN s ELSE deposit[e]
      /\ \A e \in Deposits : refund'[e] = IF e = d THEN r ELSE refund[e]
  BY <1>1 DEF LedgerTypes
<1>5. LedgerTypes'
  <2>1. available' \in SUBSET Coins /\ IsFiniteSet(available')
    BY <1>1, <1>2, FS_AddElement DEF LedgerTypes
  <2> QED BY <1>1, <1>2, <2>1 DEF LedgerTypes
<1>6. Held' = Held
  BY <1>1 DEF Held
<1>7. CoinsInv'
  <2>1. \A x \in Spenders : held'[x] \cap available' = {}
    <3>1. \A x \in Spenders : held[x] \subseteq Held
      BY DEF Held
    <3> QED BY <1>1, <1>3, <3>1 DEF CoinsInv
  <2>2. \A a \in available' \cup Held' :
          IF a.kind = "deposit"
          THEN a.of \in Deposits /\ deposit'[a.of] # "DEPOSIT_FINALIZED"
          ELSE a.of \in sent'
    <3>1. TAKE a \in available' \cup Held'
    <3>2. CASE a = c
      BY <1>2, <1>4, <3>2
    <3>3. CASE a # c
      <4>1. a \in available \cup Held
        BY <1>1, <1>6, <3>3
      <4>2. IF a.kind = "deposit"
            THEN a.of \in Deposits /\ deposit[a.of] # "DEPOSIT_FINALIZED"
            ELSE a.of \in sent
        BY <1>1, <4>1 DEF CoinsInv
      <4> QED BY <1>1, <1>2, <1>4, <4>2
    <3> QED BY <3>2, <3>3
  <2> QED BY <1>1, <2>1, <2>2 DEF CoinsInv
<1>8. refund[d] = "none" /\ d \notin sent /\ held[d] = {}
  BY <1>1 DEF SpendersInv
<1>9. SpendersInv'
  <2>1. \A e \in Deposits :
          /\ e \in sent' <=> refund'[e] = "broadcast"
          /\ held'[e] # {} => refund'[e] \in {"signed", "needs_attention"}
          /\ refund'[e] = "signed" => held'[e] # {}
          /\ deposit'[e] = "DEPOSIT_FINALIZED" => refund'[e] = "none"
    BY <1>1, <1>2, <1>4, <1>8 DEF SpendersInv
  <2> QED BY <1>1, <2>1 DEF SpendersInv, Worth
<1>10. /\ FeesPaidSat' = FeesPaidSat
       /\ OwnSat' = OwnSat + DepositSat[d]
       /\ OwnSat \in Nat /\ FeesPaidSat \in Nat
  <2>1. Purse(available) /\ OwnSat = TotalSat(available) + TotalSat(Held)
        /\ TotalSat(available) \in Nat /\ TotalSat(Held) \in Nat
        /\ OwnSat \in Nat /\ FeesPaidSat \in Nat
    BY <1>1, LedgerAmounts
  <2>2. c.sat \in Nat
    BY <1>2, GivenAmounts
  <2>3. Purse({c}) /\ TotalSat({c}) = c.sat
    BY <2>2, TotalOne
  <2>4. available \cap {c} = {}
    BY <1>3
  <2>5. TotalSat(available \cup {c}) = TotalSat(available) + TotalSat({c})
    BY <2>1, <2>3, <2>4, TotalSplits
  <2>6. OwnSat' = TotalSat(available \cup {c}) + TotalSat(Held)
    <3>1. OwnSat' = TotalSat(available') + TotalSat(Held')
      BY DEF OwnSat, PoolSat, Held
    <3> QED BY <1>1, <1>6, <3>1
  <2>7. FeesPaidSat' = FeesPaidSat
    BY <1>1 DEF FeesPaidSat
  <2> QED BY <1>2, <2>1, <2>2, <2>3, <2>5, <2>6, <2>7
<1>11. Balanced'
  <2>1. Owed[d] = 0
    BY <1>1, GivenAmounts DEF Owed
  <2>2. Owed'[d] = DepositSat[d]
    <3>1. deposit'[d] # "DEPOSIT_FINALIZED" /\ ~ IsMinted(d)' /\ d \notin sent'
      BY <1>1, <1>2, <1>4, <1>8 DEF IsMinted
    <3>2. Owed'[d] = MintedSat[d] + Excess(d)
      BY <3>1, GivenAmounts DEF Owed, IsMinted
    <3> QED BY <3>2, GivenAmounts
  <2>3. \A x \in Spenders \ {d} : Owed'[x] = Owed[x]
    <3>1. \A x \in Spenders \ {d} : x \in Deposits => deposit'[x] = deposit[x]
      BY <1>4
    <3> QED BY <1>1, <3>1 DEF Owed, IsMinted
  <2>4. /\ SumOver(Owed, Spenders)' + Owed[d] = SumOver(Owed, Spenders) + Owed'[d]
        /\ SumOver(Owed, Spenders)' \in Nat /\ SumOver(Owed, Spenders) \in Nat
    BY <1>1, <2>3, GivenAmounts, OwedMoves
  <2>5. SumOver(Owed, Spenders)' = SumOver(Owed, Spenders) + DepositSat[d]
        /\ DepositSat[d] \in Nat
    BY <2>1, <2>2, <2>4, GivenAmounts
  <2>6. (IF outside THEN OutsideSat ELSE 0)' = IF outside THEN OutsideSat ELSE 0
    BY <1>1
  <2>7. (IF outside THEN OutsideSat ELSE 0) \in Nat /\ supply \in Nat /\ supply' = supply
    BY <1>1, GivenAmounts DEF LedgerTypes
  <2>8. OwnSat + FeesPaidSat + (IF outside THEN OutsideSat ELSE 0)
          = supply + SumOver(Owed, Spenders)
    BY <1>1 DEF Balanced
  <2>9. OwnSat' + FeesPaidSat' + (IF outside THEN OutsideSat ELSE 0)'
          = supply' + SumOver(Owed, Spenders)'
    BY <1>10, <2>4, <2>5, <2>6, <2>7, <2>8
  <2> QED BY <2>9 DEF Balanced
<1>12. sent' = sent /\ OwnSat' >= OwnSat
  BY <1>1, <1>10, GivenAmounts
<1> QED BY <1>5, <1>7, <1>9, <1>10, <1>11, <1>12 DEF Advances, LedgerInv

-------------------------------------------------------------------------------
(* A transaction is signed: coins change hands within the bridge. *)

Amounts == [pays : Nat, change : Nat, fee : Nat, bridgeFee : Nat]

LEMMA PayoutTxType ==
  ASSUME NEW total \in Nat, NEW n \in Nat, NEW amount \in Nat, Covers(total, n, amount)
  PROVE  PayoutTx(total, n, amount) \in Amounts
<1> DEFINE fee  == SelectionFee(total, n, amount)
           rest == total - amount - fee
<1>1. fee \in Nat
  BY FeeOfOutputs DEF SelectionFee
<1>2. rest \in Nat /\ total - amount \in Nat
  BY <1>1 DEF Covers
<1>3. PayoutTx(total, n, amount)
        = [pays |-> amount, change |-> IF rest > DUST_THRESHOLD_SAT THEN rest ELSE 0,
           fee |-> IF rest <= DUST_THRESHOLD_SAT THEN total - amount ELSE fee,
           bridgeFee |-> IF rest <= DUST_THRESHOLD_SAT THEN total - amount ELSE fee]
  BY DEF PayoutTx
<1> HIDE DEF fee, rest
<1> QED BY <1>1, <1>2, <1>3 DEF Amounts

LEMMA RefundTxType ==
  ASSUME NEW total \in Nat, NEW n \in Nat, NEW gross \in Nat, RefundSendable(total, n, gross)
  PROVE  RefundTx(total, n, gross) \in Amounts
<1> DEFINE rest   == total - gross
           change == IF rest > DUST_THRESHOLD_SAT THEN rest ELSE 0
           fee    == EstimateFee(n, IF rest > DUST_THRESHOLD_SAT THEN 2 ELSE 1)
<1>1. fee \in Nat
  BY FeeOfOutputs
<1>2. RefundTx(total, n, gross)
        = [pays |-> gross - fee, change |-> change,
           fee |-> total - (gross - fee) - change,
           bridgeFee |-> total - (gross - fee) - change - fee]
  BY DEF RefundTx
<1>3. rest \in Nat /\ total = gross + rest /\ gross - fee > DUST_THRESHOLD_SAT
  BY <1>2 DEF RefundSendable
<1>4. change \in Nat /\ rest - change \in Nat
  BY <1>3
<1> HIDE DEF rest, change, fee
<1>5. gross - fee \in Nat
  BY <1>1, <1>3 DEF DUST_THRESHOLD_SAT
<1>6. total - (gross - fee) - change \in Nat /\ total - (gross - fee) - change - fee \in Nat
  BY <1>1, <1>3, <1>4
<1> QED BY <1>2, <1>4, <1>5, <1>6 DEF Amounts

(* Free coins are reserved for one that has none. *)
LEMMA ReserveAmounts ==
  ASSUME LedgerTypes, CoinsInv, NEW x \in Spenders, x \notin sent, held[x] = {},
         NEW inputs \in SUBSET available, NEW t \in Amounts, Reserve(x, inputs, t),
         UNCHANGED <<deposit, sent>>
  PROVE  /\ CoinsInv' /\ OwnSat' = OwnSat /\ FeesPaidSat' = FeesPaidSat
         /\ available' \in SUBSET Coins /\ IsFiniteSet(available')
         /\ held' \in [Spenders -> SUBSET Coins] /\ \A y \in Spenders : IsFiniteSet(held'[y])
         /\ tx' \in [Spenders -> Amounts]
         /\ \A y \in Spenders : held'[y] = IF y = x THEN inputs ELSE held[y]
         /\ \A y \in Spenders : tx'[y] = IF y = x THEN t ELSE tx[y]
<1>1. /\ available' = available \ inputs
      /\ held' = [held EXCEPT ![x] = inputs] /\ tx' = [tx EXCEPT ![x] = t]
  BY DEF Reserve
<1>2. /\ \A y \in Spenders : held'[y] = IF y = x THEN inputs ELSE held[y]
      /\ \A y \in Spenders : tx'[y] = IF y = x THEN t ELSE tx[y]
  BY <1>1 DEF LedgerTypes
<1>3. available \subseteq Coins /\ IsFiniteSet(available) /\ inputs \subseteq Coins
      /\ IsFiniteSet(inputs) /\ IsFiniteSet(available')
  BY <1>1, FS_Subset DEF LedgerTypes
<1>4. /\ held' \in [Spenders -> SUBSET Coins]
      /\ \A y \in Spenders : IsFiniteSet(held'[y])
      /\ tx' \in [Spenders -> Amounts]
  BY <1>1, <1>2, <1>3 DEF LedgerTypes, Amounts
<1>5. Held' = Held \cup inputs
  <2>1. Held' = UNION {held'[y] : y \in Spenders}
    BY DEF Held
  <2> QED BY <1>2, <2>1 DEF Held
<1>6. inputs \cap Held = {}
  BY DEF CoinsInv, Held
<1>7. CoinsInv'
  <2>1. \A y \in Spenders : held'[y] \cap available' = {}
    BY <1>1, <1>2 DEF CoinsInv
  <2>2. \A y, z \in Spenders : y # z => held'[y] \cap held'[z] = {}
    BY <1>2 DEF CoinsInv
  <2>3. available' \cup Held' = available \cup Held
    BY <1>1, <1>5
  <2> QED BY <2>1, <2>2, <2>3 DEF CoinsInv
<1>8. OwnSat' = OwnSat
  <2>1. Purse(available) /\ Purse(Held) /\ OwnSat = TotalSat(available) + TotalSat(Held)
        /\ TotalSat(Held) \in Nat
    BY LedgerAmounts
  <2>2. /\ Purse(inputs) /\ TotalSat(inputs) \in Nat /\ TotalSat(available) \in Nat
        /\ TotalSat(available \ inputs) = TotalSat(available) - TotalSat(inputs)
    BY <2>1, TotalOut
  <2>3. TotalSat(Held \cup inputs) = TotalSat(Held) + TotalSat(inputs)
    <3>1. Held \cap inputs = {}
      BY <1>6
    <3> QED BY <2>1, <2>2, <3>1, TotalSplits
  <2>4. OwnSat' = TotalSat(available \ inputs) + TotalSat(Held \cup inputs)
    <3>1. OwnSat' = TotalSat(available') + TotalSat(Held')
      BY DEF OwnSat, PoolSat, Held
    <3> QED BY <1>1, <1>5, <3>1
  <2> QED BY <2>1, <2>2, <2>3, <2>4
<1>9. FeesPaidSat' = FeesPaidSat
  <2>1. sent' = sent /\ sent \subseteq Spenders
    BY DEF LedgerTypes
  <2>2. \A y \in sent : tx'[y] = tx[y]
    BY <1>2, <2>1
  <2>3. [y \in sent |-> tx'[y].bridgeFee] = [y \in sent |-> tx[y].bridgeFee]
    BY <2>2
  <2>4. FeesPaidSat' = SumOver([y \in sent |-> tx'[y].bridgeFee], sent)
    BY <2>1 DEF FeesPaidSat
  <2> QED BY <2>3, <2>4 DEF FeesPaidSat
<1> QED BY <1>1, <1>2, <1>3, <1>4, <1>7, <1>8, <1>9

(* Nothing owed changes, and nothing owned. *)
LEMMA KeepsBalance ==
  ASSUME LedgerInv, OwnSat' = OwnSat, FeesPaidSat' = FeesPaidSat,
         UNCHANGED <<supply, outside>>, \A y \in Spenders : Owed'[y] = Owed[y]
  PROVE  Balanced'
<1>1. SumOver(Owed, Spenders)' = SumOver(Owed, Spenders)
  BY OwedKept DEF LedgerInv
<1>2. Balanced
  BY DEF LedgerInv
<1> QED BY <1>1, <1>2 DEF Balanced

LEMMA SignRefundStep ==
  ASSUME LedgerInv, NEW d \in Deposits, SignRefund(d)
  PROVE  Advances
<1>1. PICK inputs \in RefundInputs(d) :
        /\ Sendable(d, inputs)
        /\ Reserve(d, inputs, RefundTx(TotalSat(inputs), Cardinality(inputs), Excess(d)))
  BY DEF SignRefund
<1>2. inputs \in SUBSET available /\ inputs # {}
  BY <1>1 DEF RefundInputs, SelectForRefund, Shortest
<1>3. /\ LedgerTypes /\ CoinsInv /\ SpendersInv /\ refund[d] = "queued"
      /\ refund' = [refund EXCEPT ![d] = "signed"]
      /\ UNCHANGED <<deposit, withdrawal, sent, supply, outside, incidents>>
  BY DEF LedgerInv, SignRefund
<1>4. d \in Spenders /\ d \notin sent /\ held[d] = {} /\ deposit[d] # "DEPOSIT_FINALIZED"
  BY <1>3, GivenAmounts DEF SpendersInv
<1> DEFINE total == TotalSat(inputs)
<1> DEFINE n == Cardinality(inputs)
<1> DEFINE t == RefundTx(total, n, Excess(d))
<1>5. total \in Nat /\ n \in Nat /\ Excess(d) \in Nat
  <2>1. Purse(inputs)
    BY <1>2, <1>3, LedgerAmounts, TotalOut
  <2>2. IsFiniteSet(inputs)
    BY <2>1 DEF Purse
  <2> QED BY <2>1, <2>2, TotalType, FS_CardinalityType, GivenAmounts
<1>6. RefundSendable(total, n, Excess(d))
  BY <1>1 DEF Sendable
<1>7. t \in Amounts /\ total - t.change = Excess(d) + t.bridgeFee
  <2> HIDE DEF total, n
  <2>1. RefundTx(total, n, Excess(d)) \in Amounts
    BY <1>5, <1>6, RefundTxType
  <2>2. total - RefundTx(total, n, Excess(d)).change
          = Excess(d) + RefundTx(total, n, Excess(d)).bridgeFee
    BY <1>5, <1>6, RefundConserves
  <2> QED BY <2>1, <2>2
<1>8. Reserve(d, inputs, t)
  BY <1>1
<1> HIDE DEF t
<1>9. /\ CoinsInv' /\ OwnSat' = OwnSat /\ FeesPaidSat' = FeesPaidSat
      /\ available' \in SUBSET Coins /\ IsFiniteSet(available')
      /\ held' \in [Spenders -> SUBSET Coins] /\ \A y \in Spenders : IsFiniteSet(held'[y])
      /\ tx' \in [Spenders -> Amounts]
      /\ \A y \in Spenders : held'[y] = IF y = d THEN inputs ELSE held[y]
      /\ \A y \in Spenders : tx'[y] = IF y = d THEN t ELSE tx[y]
  BY <1>2, <1>3, <1>4, <1>7, <1>8, ReserveAmounts
<1>10. LedgerTypes'
  BY <1>3, <1>9 DEF LedgerTypes, Amounts
<1>11. SpendersInv'
  <2>1. \A e \in Deposits : refund'[e] = IF e = d THEN "signed" ELSE refund[e]
    BY <1>3 DEF LedgerTypes
  <2>2. \A e \in Deposits :
          /\ e \in sent' <=> refund'[e] = "broadcast"
          /\ held'[e] # {} => refund'[e] \in {"signed", "needs_attention"}
          /\ refund'[e] = "signed" => held'[e] # {}
          /\ deposit'[e] = "DEPOSIT_FINALIZED" => refund'[e] = "none"
    BY <1>2, <1>3, <1>4, <1>9, <2>1, GivenAmounts DEF SpendersInv
  <2>3. \A w \in Withdrawals :
          /\ w \in sent' => held'[w] = {}
          /\ withdrawal'[w] = "PAYOUT_SIGNED" => w \notin sent' /\ held'[w] # {}
          /\ withdrawal'[w] = "none" => w \notin sent' /\ held'[w] = {}
    BY <1>3, <1>9, GivenAmounts DEF SpendersInv
  <2>4. ASSUME NEW x \in Spenders, held'[x] # {}
        PROVE  TotalSat(held'[x]) = Worth(x)' + tx'[x].change + tx'[x].bridgeFee
    <3>1. CASE x = d
      <4>1. Worth(x)' = Excess(d)
        BY <3>1 DEF Worth
      <4>2. total = Excess(d) + t.change + t.bridgeFee
        <5>1. t.change \in Nat /\ t.bridgeFee \in Nat
          BY <1>7 DEF Amounts
        <5> HIDE DEF total, n
        <5> QED BY <1>5, <1>7, <5>1
      <4> QED BY <1>9, <3>1, <4>1, <4>2
    <3>2. CASE x # d
      BY <1>3, <1>9, <2>4, <3>2 DEF SpendersInv, Worth
    <3> QED BY <3>1, <3>2
  <2> QED BY <2>2, <2>3, <2>4 DEF SpendersInv
<1>12. \A y \in Spenders : Owed'[y] = Owed[y]
  BY <1>3 DEF Owed, IsMinted
<1>13. Balanced'
  BY <1>3, <1>9, <1>12, KeepsBalance
<1>14. OwnSat \in Nat
  BY <1>3, LedgerAmounts
<1> QED BY <1>3, <1>9, <1>10, <1>11, <1>13, <1>14 DEF Advances, LedgerInv

LEMMA SignPayoutStep ==
  ASSUME LedgerInv, NEW w \in Withdrawals, SignPayout(w)
  PROVE  Advances
<1>1. PICK inputs \in SelectUtxos(available, BurnSat[w]) :
        Reserve(w, inputs, PayoutTx(TotalSat(inputs), Cardinality(inputs), BurnSat[w]))
  BY DEF SignPayout
<1> DEFINE total == TotalSat(inputs)
<1> DEFINE n == Cardinality(inputs)
<1> DEFINE t == PayoutTx(total, n, BurnSat[w])
<1>2. inputs \in SUBSET available /\ inputs # {} /\ Covers(total, n, BurnSat[w])
  BY <1>1 DEF SelectUtxos, Shortest
<1>3. /\ LedgerTypes /\ CoinsInv /\ SpendersInv /\ withdrawal[w] = "PAYOUT_QUEUED"
      /\ w \notin sent /\ held[w] = {}
      /\ withdrawal' = [withdrawal EXCEPT ![w] = "PAYOUT_SIGNED"]
      /\ UNCHANGED <<deposit, refund, sent, supply, outside, incidents>>
  BY DEF LedgerInv, SignPayout, Transition
<1>4. w \in Spenders /\ w \notin Deposits
  BY GivenAmounts
<1>5. total \in Nat /\ n \in Nat /\ BurnSat[w] \in Nat
  <2>1. Purse(inputs)
    BY <1>2, <1>3, LedgerAmounts, TotalOut
  <2>2. IsFiniteSet(inputs)
    BY <2>1 DEF Purse
  <2> QED BY <2>1, <2>2, TotalType, FS_CardinalityType, GivenAmounts
<1>6. t \in Amounts /\ total = BurnSat[w] + t.change + t.bridgeFee
  <2> HIDE DEF total, n
  <2>1. PayoutTx(total, n, BurnSat[w]) \in Amounts
    BY <1>2, <1>5, PayoutTxType
  <2>2. /\ total = PayoutTx(total, n, BurnSat[w]).pays + PayoutTx(total, n, BurnSat[w]).change
                     + PayoutTx(total, n, BurnSat[w]).bridgeFee
        /\ PayoutTx(total, n, BurnSat[w]).pays = BurnSat[w]
    BY <1>2, <1>5, PayoutConserves
  <2> QED BY <2>1, <2>2
<1>7. Reserve(w, inputs, t)
  BY <1>1
<1> HIDE DEF t
<1>8. /\ CoinsInv' /\ OwnSat' = OwnSat /\ FeesPaidSat' = FeesPaidSat
      /\ available' \in SUBSET Coins /\ IsFiniteSet(available')
      /\ held' \in [Spenders -> SUBSET Coins] /\ \A y \in Spenders : IsFiniteSet(held'[y])
      /\ tx' \in [Spenders -> Amounts]
      /\ \A y \in Spenders : held'[y] = IF y = w THEN inputs ELSE held[y]
      /\ \A y \in Spenders : tx'[y] = IF y = w THEN t ELSE tx[y]
  BY <1>2, <1>3, <1>4, <1>6, <1>7, ReserveAmounts
<1>9. LedgerTypes'
  BY <1>3, <1>8 DEF LedgerTypes, Amounts
<1>10. \A v \in Withdrawals : withdrawal'[v] = IF v = w THEN "PAYOUT_SIGNED" ELSE withdrawal[v]
  BY <1>3 DEF LedgerTypes
<1>11. SpendersInv'
  <2>1. \A e \in Deposits :
          /\ e \in sent' <=> refund'[e] = "broadcast"
          /\ held'[e] # {} => refund'[e] \in {"signed", "needs_attention"}
          /\ refund'[e] = "signed" => held'[e] # {}
          /\ deposit'[e] = "DEPOSIT_FINALIZED" => refund'[e] = "none"
    BY <1>3, <1>4, <1>8, GivenAmounts DEF SpendersInv
  <2>2. \A v \in Withdrawals :
          /\ v \in sent' => held'[v] = {}
          /\ withdrawal'[v] = "PAYOUT_SIGNED" => v \notin sent' /\ held'[v] # {}
          /\ withdrawal'[v] = "none" => v \notin sent' /\ held'[v] = {}
    BY <1>2, <1>3, <1>8, <1>10, GivenAmounts DEF SpendersInv
  <2>3. ASSUME NEW x \in Spenders, held'[x] # {}
        PROVE  TotalSat(held'[x]) = Worth(x)' + tx'[x].change + tx'[x].bridgeFee
    <3>1. CASE x = w
      <4>1. Worth(x)' = BurnSat[w]
        BY <1>4, <3>1 DEF Worth
      <4> QED BY <1>6, <1>8, <3>1, <4>1
    <3>2. CASE x # w
      BY <1>3, <1>8, <2>3, <3>2 DEF SpendersInv, Worth
    <3> QED BY <3>1, <3>2
  <2> QED BY <2>1, <2>2, <2>3 DEF SpendersInv
<1>12. \A y \in Spenders : Owed'[y] = Owed[y]
  <2>1. \A y \in Spenders : y \notin Deposits =>
          (withdrawal'[y] = "none" <=> withdrawal[y] = "none")
    BY <1>3, <1>10, GivenAmounts
  <2> QED BY <1>3, <2>1 DEF Owed, IsMinted
<1>13. Balanced'
  BY <1>3, <1>8, <1>12, KeepsBalance
<1>14. OwnSat \in Nat
  BY <1>3, LedgerAmounts
<1> QED BY <1>3, <1>8, <1>9, <1>11, <1>13, <1>14 DEF Advances, LedgerInv

(* Coins that were reserved are free again. *)
LEMMA ParkAndReleaseStep ==
  ASSUME LedgerInv, NEW w \in Withdrawals, ParkAndRelease(w)
  PROVE  Advances
<1>1. /\ LedgerTypes /\ CoinsInv /\ SpendersInv /\ withdrawal[w] = "PAYOUT_SIGNED"
      /\ withdrawal' = [withdrawal EXCEPT ![w] = "MANUAL_REVIEW"]
      /\ available' = available \cup held[w] /\ held' = [held EXCEPT ![w] = {}]
      /\ UNCHANGED <<deposit, refund, tx, sent, supply, outside, incidents>>
  BY DEF LedgerInv, ParkAndRelease, Transition
<1>2. w \in Spenders /\ w \notin Deposits /\ IsFiniteSet(held[w]) /\ held[w] \subseteq Coins
  BY <1>1, GivenAmounts DEF LedgerTypes
<1>3. /\ \A y \in Spenders : held'[y] = IF y = w THEN {} ELSE held[y]
      /\ \A v \in Withdrawals : withdrawal'[v] = IF v = w THEN "MANUAL_REVIEW" ELSE withdrawal[v]
  BY <1>1 DEF LedgerTypes
<1>4. LedgerTypes'
  <2>1. available' \in SUBSET Coins /\ IsFiniteSet(available')
    BY <1>1, <1>2, FS_Union DEF LedgerTypes
  <2>2. held' \in [Spenders -> SUBSET Coins] /\ \A y \in Spenders : IsFiniteSet(held'[y])
    BY <1>1, <1>3, FS_EmptySet DEF LedgerTypes
  <2> QED BY <1>1, <2>1, <2>2 DEF LedgerTypes
<1>5. Held' = Held \ held[w]
  <2>1. Held' = UNION {held'[y] : y \in Spenders}
    BY DEF Held
  <2>2. \A y \in Spenders : y # w => held[y] \cap held[w] = {}
    BY <1>1, <1>2 DEF CoinsInv
  <2>3. \A c : c \in Held' <=> \E y \in Spenders : y # w /\ c \in held[y]
    BY <1>3, <2>1
  <2>4. \A c : c \in Held \ held[w] <=> \E y \in Spenders : y # w /\ c \in held[y]
    BY <1>2, <2>2 DEF Held
  <2> QED BY <2>3, <2>4
<1>6. held[w] \subseteq Held /\ held[w] \cap available = {}
  BY <1>1, <1>2 DEF Held, CoinsInv
<1>7. CoinsInv'
  <2>1. \A y \in Spenders : held'[y] \cap available' = {}
    BY <1>1, <1>2, <1>3 DEF CoinsInv
  <2>2. \A y, z \in Spenders : y # z => held'[y] \cap held'[z] = {}
    BY <1>1, <1>3 DEF CoinsInv
  <2>3. available' \cup Held' = available \cup Held
    BY <1>1, <1>5, <1>6
  <2> QED BY <1>1, <2>1, <2>2, <2>3 DEF CoinsInv
<1>8. OwnSat' = OwnSat /\ FeesPaidSat' = FeesPaidSat /\ OwnSat \in Nat
  <2>1. Purse(available) /\ Purse(Held) /\ OwnSat = TotalSat(available) + TotalSat(Held)
        /\ TotalSat(available) \in Nat /\ OwnSat \in Nat
    BY <1>1, LedgerAmounts
  <2>2. /\ Purse(held[w]) /\ TotalSat(held[w]) \in Nat /\ TotalSat(Held) \in Nat
        /\ TotalSat(Held \ held[w]) = TotalSat(Held) - TotalSat(held[w])
    BY <1>6, <2>1, TotalOut
  <2>3. TotalSat(available \cup held[w]) = TotalSat(available) + TotalSat(held[w])
    <3>1. available \cap held[w] = {}
      BY <1>6
    <3> QED BY <2>1, <2>2, <3>1, TotalSplits
  <2>4. OwnSat' = TotalSat(available \cup held[w]) + TotalSat(Held \ held[w])
    <3>1. OwnSat' = TotalSat(available') + TotalSat(Held')
      BY DEF OwnSat, PoolSat, Held
    <3> QED BY <1>1, <1>5, <3>1
  <2>5. FeesPaidSat' = FeesPaidSat
    BY <1>1 DEF FeesPaidSat
  <2> QED BY <2>1, <2>2, <2>3, <2>4, <2>5
<1>9. SpendersInv'
  <2>1. \A e \in Deposits :
          /\ e \in sent' <=> refund'[e] = "broadcast"
          /\ held'[e] # {} => refund'[e] \in {"signed", "needs_attention"}
          /\ refund'[e] = "signed" => held'[e] # {}
          /\ deposit'[e] = "DEPOSIT_FINALIZED" => refund'[e] = "none"
    BY <1>1, <1>2, <1>3, GivenAmounts DEF SpendersInv
  <2>2. \A v \in Withdrawals :
          /\ v \in sent' => held'[v] = {}
          /\ withdrawal'[v] = "PAYOUT_SIGNED" => v \notin sent' /\ held'[v] # {}
          /\ withdrawal'[v] = "none" => v \notin sent' /\ held'[v] = {}
    BY <1>1, <1>3, GivenAmounts DEF SpendersInv
  <2>3. ASSUME NEW x \in Spenders, held'[x] # {}
        PROVE  TotalSat(held'[x]) = Worth(x)' + tx'[x].change + tx'[x].bridgeFee
    BY <1>1, <1>3, <2>3 DEF SpendersInv, Worth
  <2> QED BY <2>1, <2>2, <2>3 DEF SpendersInv
<1>10. \A y \in Spenders : Owed'[y] = Owed[y]
  <2>1. \A y \in Spenders : y \notin Deposits =>
          (withdrawal'[y] = "none" <=> withdrawal[y] = "none")
    BY <1>1, <1>3, GivenAmounts
  <2> QED BY <1>1, <2>1 DEF Owed, IsMinted
<1>11. Balanced'
  BY <1>1, <1>8, <1>10, KeepsBalance
<1> QED BY <1>1, <1>4, <1>7, <1>8, <1>9, <1>11 DEF Advances, LedgerInv

-------------------------------------------------------------------------------
(* A transaction goes out: its coins are gone but for the change, and its  *)
(* fee is on record. *)

ChangeOf(x) == IF tx[x].change > 0
               THEN {[of |-> x, kind |-> "change", sat |-> tx[x].change]} ELSE {}

LEMMA ChangeFacts ==
  ASSUME LedgerTypes, CoinsInv, NEW x \in Spenders, x \notin sent
  PROVE  /\ Purse(ChangeOf(x)) /\ TotalSat(ChangeOf(x)) = tx[x].change
         /\ ChangeOf(x) \subseteq Coins /\ IsFiniteSet(ChangeOf(x))
         /\ \A c \in ChangeOf(x) : c.of = x /\ c.kind = "change"
         /\ ChangeOf(x) \cap (available \cup Held) = {}
<1> DEFINE c == [of |-> x, kind |-> "change", sat |-> tx[x].change]
<1>1. tx[x].change \in Nat
  BY DEF LedgerTypes
<1>2. c \in Coins /\ c.of = x /\ c.kind = "change" /\ c.sat = tx[x].change
  BY <1>1 DEF Coins
<1>3. ChangeOf(x) = IF tx[x].change > 0 THEN {c} ELSE {}
  BY DEF ChangeOf
<1> HIDE DEF c
<1>4. c \notin available \cup Held
  BY <1>2 DEF CoinsInv
<1>5. CASE tx[x].change > 0
  <2>1. ChangeOf(x) = {c}
    BY <1>3, <1>5
  <2>2. Purse({c}) /\ TotalSat({c}) = c.sat
    BY <1>1, <1>2, TotalOne
  <2>3. Purse(ChangeOf(x)) /\ TotalSat(ChangeOf(x)) = tx[x].change
    BY <1>2, <2>1, <2>2
  <2> QED BY <1>2, <1>4, <2>1, <2>3 DEF Purse
<1>6. CASE ~(tx[x].change > 0)
  <2>1. ChangeOf(x) = {} /\ tx[x].change = 0
    BY <1>1, <1>3, <1>6
  <2>2. Purse({}) /\ TotalSat({}) = 0
    BY TotalEmpty, FS_EmptySet DEF Purse
  <2>3. Purse(ChangeOf(x)) /\ TotalSat(ChangeOf(x)) = tx[x].change
    BY <2>1, <2>2
  <2> QED BY <2>1, <2>3 DEF Purse
<1> QED BY <1>5, <1>6

LEMMA SpendAmounts ==
  ASSUME LedgerTypes, CoinsInv, NEW x \in Spenders, x \notin sent,
         TotalSat(held[x]) = Worth(x) + tx[x].change + tx[x].bridgeFee,
         Spend(x), UNCHANGED <<deposit, tx>>
  PROVE  /\ CoinsInv'
         /\ available' \in SUBSET Coins /\ IsFiniteSet(available')
         /\ held' \in [Spenders -> SUBSET Coins] /\ \A y \in Spenders : IsFiniteSet(held'[y])
         /\ \A y \in Spenders : held'[y] = IF y = x THEN {} ELSE held[y]
         /\ OwnSat' + FeesPaidSat' + Worth(x) = OwnSat + FeesPaidSat
         /\ OwnSat' \in Nat /\ FeesPaidSat' \in Nat
<1>1. available' = available \cup ChangeOf(x)
  BY DEF Spend, ChangeOf
<1>2. held' = [held EXCEPT ![x] = {}] /\ sent' = sent \cup {x} /\ UNCHANGED <<deposit, tx>>
  BY DEF Spend
<1>3. \A y \in Spenders : held'[y] = IF y = x THEN {} ELSE held[y]
  BY <1>2 DEF LedgerTypes
<1>4. /\ Purse(ChangeOf(x)) /\ TotalSat(ChangeOf(x)) = tx[x].change
      /\ ChangeOf(x) \subseteq Coins /\ IsFiniteSet(ChangeOf(x))
      /\ \A c \in ChangeOf(x) : c.of = x /\ c.kind = "change"
      /\ ChangeOf(x) \cap (available \cup Held) = {}
  BY ChangeFacts
<1>5. available' \in SUBSET Coins /\ IsFiniteSet(available')
  BY <1>1, <1>4, FS_Union DEF LedgerTypes
<1>6. held' \in [Spenders -> SUBSET Coins] /\ \A y \in Spenders : IsFiniteSet(held'[y])
  BY <1>2, <1>3, FS_EmptySet DEF LedgerTypes
<1>7. Held' = Held \ held[x]
  <2>1. Held' = UNION {held'[y] : y \in Spenders}
    BY DEF Held
  <2>2. \A y \in Spenders : y # x => held[y] \cap held[x] = {}
    BY DEF CoinsInv
  <2>3. \A c : c \in Held' <=> \E y \in Spenders : y # x /\ c \in held[y]
    BY <1>3, <2>1
  <2>4. \A c : c \in Held \ held[x] <=> \E y \in Spenders : y # x /\ c \in held[y]
    BY <2>2 DEF Held
  <2> QED BY <2>3, <2>4
<1>8. held[x] \subseteq Held
  BY DEF Held
<1>9. CoinsInv'
  <2>1. \A y \in Spenders : held'[y] \cap available' = {}
    <3>1. \A y \in Spenders : held[y] \subseteq Held
      BY DEF Held
    <3> QED BY <1>1, <1>3, <1>4, <3>1 DEF CoinsInv
  <2>2. \A y, z \in Spenders : y # z => held'[y] \cap held'[z] = {}
    BY <1>3 DEF CoinsInv
  <2>3. \A c \in available' \cup Held' :
          IF c.kind = "deposit"
          THEN c.of \in Deposits /\ deposit'[c.of] # "DEPOSIT_FINALIZED"
          ELSE c.of \in sent'
    <3>1. TAKE c \in available' \cup Held'
    <3>2. CASE c \in ChangeOf(x)
      BY <1>2, <1>4, <3>2
    <3>3. CASE c \notin ChangeOf(x)
      <4>1. c \in available \cup Held
        BY <1>1, <1>7, <3>1, <3>3
      <4> QED BY <1>2, <4>1 DEF CoinsInv
    <3> QED BY <3>2, <3>3
  <2> QED BY <2>1, <2>2, <2>3 DEF CoinsInv
<1>10. FeesPaidSat' = tx[x].bridgeFee + FeesPaidSat
  <2> DEFINE f == [y \in sent \cup {x} |-> tx[y].bridgeFee]
  <2> DEFINE g == [y \in sent |-> tx[y].bridgeFee]
  <2>1. sent \in SUBSET Spenders /\ IsFiniteSet(sent) /\ IsFiniteSet(sent \cup {x})
    BY LedgerAmounts, FS_AddElement DEF LedgerTypes
  <2>2. \A y \in sent \cup {x} : f[y] \in Nat
    BY <2>1 DEF LedgerTypes
  <2>3. x \in sent \cup {x} /\ (sent \cup {x}) \ {x} = sent
    OBVIOUS
  <2>4. f[x] = tx[x].bridgeFee /\ \A y \in sent : f[y] = g[y]
    OBVIOUS
  <2>5. FeesPaidSat' = SumOver(f, sent \cup {x}) /\ FeesPaidSat = SumOver(g, sent)
    BY <1>2 DEF FeesPaidSat
  <2> HIDE DEF f, g
  <2>6. SumOver(f, sent \cup {x}) = f[x] + SumOver(f, sent)
    <3>1. SumOver(f, sent \cup {x}) = f[x] + SumOver(f, (sent \cup {x}) \ {x})
      BY <2>1, <2>2, <2>3, SumOut
    <3> QED BY <2>3, <3>1
  <2>7. SumOver(f, sent) = SumOver(g, sent)
    BY <2>1, <2>4, SumSame
  <2> QED BY <2>4, <2>5, <2>6, <2>7
<1>11. /\ OwnSat' = OwnSat + tx[x].change - TotalSat(held[x])
       /\ OwnSat' \in Nat /\ OwnSat \in Nat /\ FeesPaidSat \in Nat
  <2>1. /\ Purse(available) /\ Purse(Held) /\ OwnSat = TotalSat(available) + TotalSat(Held)
        /\ TotalSat(available) \in Nat /\ OwnSat \in Nat /\ FeesPaidSat \in Nat
    BY LedgerAmounts
  <2>2. /\ Purse(held[x]) /\ TotalSat(held[x]) \in Nat /\ TotalSat(Held) \in Nat
        /\ TotalSat(Held \ held[x]) = TotalSat(Held) - TotalSat(held[x])
        /\ TotalSat(held[x]) <= TotalSat(Held)
    BY <1>8, <2>1, TotalOut
  <2>3. TotalSat(available \cup ChangeOf(x)) = TotalSat(available) + tx[x].change
    <3>1. available \cap ChangeOf(x) = {}
      BY <1>4
    <3>2. TotalSat(available \cup ChangeOf(x)) = TotalSat(available) + TotalSat(ChangeOf(x))
      BY <1>4, <2>1, <3>1, TotalSplits
    <3> QED BY <1>4, <3>2
  <2>4. OwnSat' = TotalSat(available \cup ChangeOf(x)) + TotalSat(Held \ held[x])
    <3>1. OwnSat' = TotalSat(available') + TotalSat(Held')
      BY DEF OwnSat, PoolSat, Held
    <3> QED BY <1>1, <1>7, <3>1
  <2>5. tx[x].change \in Nat
    BY DEF LedgerTypes
  <2> QED BY <2>1, <2>2, <2>3, <2>4, <2>5
<1>12. tx[x].change \in Nat /\ tx[x].bridgeFee \in Nat /\ Worth(x) \in Nat
  BY GivenAmounts DEF LedgerTypes
<1>13. OwnSat' + FeesPaidSat' + Worth(x) = OwnSat + FeesPaidSat /\ FeesPaidSat' \in Nat
  BY <1>10, <1>11, <1>12
<1> QED BY <1>3, <1>5, <1>6, <1>9, <1>11, <1>13

(* And so is what is owed, by as much. *)
LEMMA SpendBalance ==
  ASSUME LedgerInv, NEW x \in Spenders,
         OwnSat' + FeesPaidSat' + Worth(x) = OwnSat + FeesPaidSat,
         OwnSat' \in Nat, FeesPaidSat' \in Nat, UNCHANGED <<supply, outside>>,
         Owed[x] = Owed'[x] + Worth(x), \A y \in Spenders \ {x} : Owed'[y] = Owed[y]
  PROVE  Balanced'
<1>1. LedgerTypes /\ Balanced
  BY DEF LedgerInv
<1>2. /\ SumOver(Owed, Spenders)' + Owed[x] = SumOver(Owed, Spenders) + Owed'[x]
      /\ SumOver(Owed, Spenders)' \in Nat /\ SumOver(Owed, Spenders) \in Nat
      /\ Owed'[x] \in Nat
  BY <1>1, OwedMoves
<1>3. Worth(x) \in Nat /\ OutsideSat \in Nat
  BY GivenAmounts
<1>4. SumOver(Owed, Spenders)' + Worth(x) = SumOver(Owed, Spenders)
  BY <1>2, <1>3
<1>5. /\ OwnSat \in Nat /\ FeesPaidSat \in Nat /\ supply \in Nat
      /\ supply' = supply /\ (IF outside THEN OutsideSat ELSE 0) \in Nat
      /\ (IF outside THEN OutsideSat ELSE 0)' = IF outside THEN OutsideSat ELSE 0
  BY <1>1, <1>3, LedgerAmounts DEF LedgerTypes
<1>6. OwnSat + FeesPaidSat + (IF outside THEN OutsideSat ELSE 0)
        = supply + SumOver(Owed, Spenders)
  BY <1>1 DEF Balanced
<1>7. OwnSat' + FeesPaidSat' + (IF outside THEN OutsideSat ELSE 0)'
        = supply' + SumOver(Owed, Spenders)'
  BY <1>2, <1>3, <1>4, <1>5, <1>6
<1> QED BY <1>7 DEF Balanced

LEMMA BroadcastRefundStep ==
  ASSUME LedgerInv, NEW d \in Deposits, BroadcastRefund(d)
  PROVE  Advances
<1>1. /\ LedgerTypes /\ CoinsInv /\ SpendersInv /\ refund[d] = "signed" /\ Spend(d)
      /\ refund' = [refund EXCEPT ![d] = "broadcast"]
      /\ UNCHANGED <<deposit, withdrawal, tx, supply, outside, incidents>>
  BY DEF LedgerInv, BroadcastRefund
<1>2. /\ d \in Spenders /\ d \notin sent /\ held[d] # {} /\ deposit[d] # "DEPOSIT_FINALIZED"
      /\ TotalSat(held[d]) = Worth(d) + tx[d].change + tx[d].bridgeFee
      /\ sent' = sent \cup {d} /\ Worth(d) = Excess(d)
  BY <1>1, GivenAmounts DEF SpendersInv, Spend, Worth
<1>3. /\ CoinsInv'
      /\ available' \in SUBSET Coins /\ IsFiniteSet(available')
      /\ held' \in [Spenders -> SUBSET Coins] /\ \A y \in Spenders : IsFiniteSet(held'[y])
      /\ \A y \in Spenders : held'[y] = IF y = d THEN {} ELSE held[y]
      /\ OwnSat' + FeesPaidSat' + Worth(d) = OwnSat + FeesPaidSat
      /\ OwnSat' \in Nat /\ FeesPaidSat' \in Nat
  BY <1>1, <1>2, SpendAmounts
<1>4. LedgerTypes'
  BY <1>1, <1>2, <1>3 DEF LedgerTypes
<1>5. \A e \in Deposits : refund'[e] = IF e = d THEN "broadcast" ELSE refund[e]
  BY <1>1 DEF LedgerTypes
<1>6. SpendersInv'
  <2>1. \A e \in Deposits :
          /\ e \in sent' <=> refund'[e] = "broadcast"
          /\ held'[e] # {} => refund'[e] \in {"signed", "needs_attention"}
          /\ refund'[e] = "signed" => held'[e] # {}
          /\ deposit'[e] = "DEPOSIT_FINALIZED" => refund'[e] = "none"
    BY <1>1, <1>2, <1>3, <1>5, GivenAmounts DEF SpendersInv
  <2>2. \A w \in Withdrawals :
          /\ w \in sent' => held'[w] = {}
          /\ withdrawal'[w] = "PAYOUT_SIGNED" => w \notin sent' /\ held'[w] # {}
          /\ withdrawal'[w] = "none" => w \notin sent' /\ held'[w] = {}
    BY <1>1, <1>2, <1>3, GivenAmounts DEF SpendersInv
  <2>3. ASSUME NEW x \in Spenders, held'[x] # {}
        PROVE  TotalSat(held'[x]) = Worth(x)' + tx'[x].change + tx'[x].bridgeFee
    BY <1>1, <1>3, <2>3 DEF SpendersInv, Worth
  <2> QED BY <2>1, <2>2, <2>3 DEF SpendersInv
<1>7. Balanced'
  <2>1. Owed[d] = Owed'[d] + Worth(d)
    <3>1. d \in sent' /\ deposit' = deposit
      BY <1>1, <1>2
    <3> DEFINE rest == IF IsMinted(d) THEN 0 ELSE MintedSat[d]
    <3>2. rest \in Nat /\ Excess(d) \in Nat
      BY GivenAmounts
    <3>3. Owed[d] = rest + Excess(d)
      BY <1>2 DEF Owed
    <3>4. Owed'[d] = rest + 0
      BY <1>2, <3>1 DEF Owed, IsMinted
    <3> HIDE DEF rest
    <3> QED BY <1>2, <3>2, <3>3, <3>4
  <2>2. \A y \in Spenders \ {d} : Owed'[y] = Owed[y]
    BY <1>1, <1>2 DEF Owed, IsMinted
  <2> QED BY <1>1, <1>2, <1>3, <2>1, <2>2, SpendBalance
<1>8. Reserved /\ sent' # sent
  BY <1>2 DEF Reserved
<1> QED BY <1>3, <1>4, <1>6, <1>7, <1>8 DEF Advances, LedgerInv

LEMMA BroadcastPayoutStep ==
  ASSUME LedgerInv, NEW w \in Withdrawals, BroadcastPayout(w)
  PROVE  Advances
<1>1. /\ LedgerTypes /\ CoinsInv /\ SpendersInv /\ withdrawal[w] = "PAYOUT_SIGNED" /\ Spend(w)
      /\ withdrawal' = [withdrawal EXCEPT ![w] = "PAYOUT_BROADCAST"]
      /\ UNCHANGED <<deposit, refund, tx, supply, outside, incidents>>
  BY DEF LedgerInv, BroadcastPayout, Transition
<1>2. /\ w \in Spenders /\ w \notin Deposits /\ w \notin sent /\ held[w] # {}
      /\ TotalSat(held[w]) = Worth(w) + tx[w].change + tx[w].bridgeFee
      /\ sent' = sent \cup {w} /\ Worth(w) = BurnSat[w]
  BY <1>1, GivenAmounts DEF SpendersInv, Spend, Worth
<1>3. /\ CoinsInv'
      /\ available' \in SUBSET Coins /\ IsFiniteSet(available')
      /\ held' \in [Spenders -> SUBSET Coins] /\ \A y \in Spenders : IsFiniteSet(held'[y])
      /\ \A y \in Spenders : held'[y] = IF y = w THEN {} ELSE held[y]
      /\ OwnSat' + FeesPaidSat' + Worth(w) = OwnSat + FeesPaidSat
      /\ OwnSat' \in Nat /\ FeesPaidSat' \in Nat
  BY <1>1, <1>2, SpendAmounts
<1>4. LedgerTypes'
  BY <1>1, <1>2, <1>3 DEF LedgerTypes
<1>5. \A v \in Withdrawals :
        withdrawal'[v] = IF v = w THEN "PAYOUT_BROADCAST" ELSE withdrawal[v]
  BY <1>1 DEF LedgerTypes
<1>6. SpendersInv'
  <2>1. \A e \in Deposits :
          /\ e \in sent' <=> refund'[e] = "broadcast"
          /\ held'[e] # {} => refund'[e] \in {"signed", "needs_attention"}
          /\ refund'[e] = "signed" => held'[e] # {}
          /\ deposit'[e] = "DEPOSIT_FINALIZED" => refund'[e] = "none"
    BY <1>1, <1>2, <1>3, GivenAmounts DEF SpendersInv
  <2>2. \A v \in Withdrawals :
          /\ v \in sent' => held'[v] = {}
          /\ withdrawal'[v] = "PAYOUT_SIGNED" => v \notin sent' /\ held'[v] # {}
          /\ withdrawal'[v] = "none" => v \notin sent' /\ held'[v] = {}
    BY <1>1, <1>2, <1>3, <1>5, GivenAmounts DEF SpendersInv
  <2>3. ASSUME NEW x \in Spenders, held'[x] # {}
        PROVE  TotalSat(held'[x]) = Worth(x)' + tx'[x].change + tx'[x].bridgeFee
    BY <1>1, <1>3, <2>3 DEF SpendersInv, Worth
  <2> QED BY <2>1, <2>2, <2>3 DEF SpendersInv
<1>7. Balanced'
  <2>1. Owed[w] = BurnSat[w] /\ Owed'[w] = 0 /\ BurnSat[w] \in Nat
    <3>1. w \in sent'
      BY <1>2
    <3>2. Owed[w] = BurnSat[w]
      BY <1>1, <1>2 DEF Owed
    <3>3. Owed'[w] = 0
      BY <1>2, <3>1 DEF Owed
    <3> QED BY <3>2, <3>3, GivenAmounts
  <2>2. \A y \in Spenders \ {w} : Owed'[y] = Owed[y]
    <3>1. \A y \in Spenders \ {w} : y \notin Deposits => withdrawal'[y] = withdrawal[y]
      BY <1>5, GivenAmounts
    <3> QED BY <1>1, <1>2, <3>1 DEF Owed, IsMinted
  <2>3. Owed[w] = Owed'[w] + Worth(w)
    BY <1>2, <2>1
  <2> QED BY <1>1, <1>2, <1>3, <2>2, <2>3, SpendBalance
<1>8. Reserved /\ sent' # sent
  BY <1>2 DEF Reserved
<1> QED BY <1>3, <1>4, <1>6, <1>7, <1>8 DEF Advances, LedgerInv

-------------------------------------------------------------------------------
(* Every step of the bridge. *)

LEMMA LedgerAdvances ==
  ASSUME LedgerInv, LedgerNext
  PROVE  Advances
<1>1. ASSUME NEW d \in Deposits,
             \/ CreateAuth(d) \/ Mint(d) \/ CompleteMint(d)
             \/ SignRefund(d) \/ ParkRefund(d) \/ BroadcastRefund(d) \/ RefuseRefund(d)
             \/ RetryRefund(d)
      PROVE  Advances
  BY <1>1, CreateAuthStep, MintStep, CompleteMintStep, SignRefundStep, ParkRefundStep,
     BroadcastRefundStep, RefuseRefundStep, RetryRefundStep
<1>2. ASSUME NEW w \in Withdrawals,
             \/ Burn(w) \/ SignPayout(w) \/ RetrySameTx(w) \/ ParkPayout(w)
             \/ ParkAndRelease(w) \/ BroadcastPayout(w) \/ CompletePayout(w) \/ Requeue(w)
      PROVE  Advances
  BY <1>2, BurnStep, SignPayoutStep, OtherPayoutSteps, ParkAndReleaseStep,
     BroadcastPayoutStep
<1> QED BY <1>1, <1>2, OutsideSteps DEF LedgerNext

LEMMA LedgerStarts == LedgerInit => LedgerInv
<1> SUFFICES ASSUME LedgerInit PROVE LedgerInv
  OBVIOUS
<1>1. LedgerTypes
  <2>1. NoTx \in [pays : Nat, change : Nat, fee : Nat, bridgeFee : Nat]
    BY DEF NoTx
  <2> QED BY <2>1, FS_EmptySet DEF LedgerInit, LedgerTypes
<1>2. Held = {} /\ CoinsInv
  BY DEF LedgerInit, Held, CoinsInv
<1>3. SpendersInv
  BY GivenAmounts DEF LedgerInit, SpendersInv
<1>4. OwnSat = 0
  <2>1. OwnSat = TotalSat({}) + TotalSat({})
    BY <1>2 DEF LedgerInit, OwnSat, PoolSat, Held
  <2> QED BY <2>1, TotalEmpty
<1>5. FeesPaidSat = 0
  <2>1. FeesPaidSat = SumOver([x \in sent |-> tx[x].bridgeFee], sent) /\ sent = {}
    BY DEF FeesPaidSat, LedgerInit
  <2>2. SumOver([x \in sent |-> tx[x].bridgeFee], {}) = 0
    BY SumEmpty
  <2> QED BY <2>1, <2>2, Zenon
<1>6. SumOver(Owed, Spenders) = 0
  <2>1. \A x \in Spenders : Owed[x] = 0
    BY GivenAmounts DEF Owed, LedgerInit
  <2> DEFINE Bad == {S \in SUBSET Spenders : SumOver(Owed, S) # 0}
  <2>2. Bad = {}
    <3>1. SUFFICES ASSUME Bad # {} PROVE FALSE
      OBVIOUS
    <3>2. PICK S \in Bad : IsFiniteSet(S) /\ \A x \in S : S \ {x} \notin Bad
      <4>1. Bad \in SUBSET SUBSET Spenders
        OBVIOUS
      <4> HIDE DEF Bad
      <4> QED BY <3>1, <4>1, GivenAmounts, SmallestOf
    <3>3. S \in SUBSET Spenders /\ SumOver(Owed, S) # 0
      BY <3>2
    <3>4. S # {}
      BY <3>3, SumEmpty
    <3>5. PICK x \in S : TRUE
      BY <3>4
    <3>6. SumOver(Owed, S) = Owed[x] + SumOver(Owed, S \ {x})
      <4>1. \A y \in S : Owed[y] \in Nat
        BY <2>1, <3>3
      <4> HIDE DEF Bad
      <4> QED BY <3>2, <3>5, <4>1, SumOut
    <3>7. SumOver(Owed, S \ {x}) = 0 /\ Owed[x] = 0
      BY <2>1, <3>2, <3>3, <3>5
    <3> QED BY <3>3, <3>6, <3>7
  <2> QED BY <2>2
<1>7. Balanced
  BY <1>4, <1>5, <1>6 DEF Balanced, LedgerInit
<1> QED BY <1>1, <1>2, <1>3, <1>7 DEF LedgerInv

-------------------------------------------------------------------------------
(* The monitor, beside it. *)

LEMMA LedgerSame ==
  ASSUME LedgerInv, UNCHANGED fundsVars, incidents' \in Nat
  PROVE  /\ LedgerInv' /\ OwnSat' = OwnSat /\ FeesPaidSat' = FeesPaidSat /\ PoolSat' = PoolSat
         /\ Reserved' = Reserved
<1>1. UNCHANGED <<deposit, refund, withdrawal, available, held, tx, sent, supply, outside>>
  BY DEF fundsVars
<1>2. OwnSat' = OwnSat /\ FeesPaidSat' = FeesPaidSat /\ Held' = Held /\ PoolSat' = PoolSat
      /\ Reserved' = Reserved
  BY <1>1 DEF OwnSat, PoolSat, FeesPaidSat, Held, Reserved
<1>3. LedgerTypes' /\ CoinsInv' /\ SpendersInv'
  BY <1>1, <1>2 DEF LedgerInv, LedgerTypes, CoinsInv, SpendersInv, Worth
<1>4. \A y \in Spenders : Owed'[y] = Owed[y]
  BY <1>1 DEF Owed, IsMinted
<1>5. Balanced'
  BY <1>1, <1>2, <1>4, KeepsBalance
<1> QED BY <1>2, <1>3, <1>5 DEF LedgerInv

LEMMA OwnsNat ==
  LedgerInv => OwnSat \in Nat /\ FeesPaidSat \in Nat /\ PoolSat \in Nat /\ PoolSat <= OwnSat
BY LedgerAmounts DEF LedgerInv

LEMMA OwnsNatNext ==
  LedgerInv' => (OwnSat \in Nat /\ FeesPaidSat \in Nat /\ PoolSat \in Nat /\ PoolSat <= OwnSat)'
BY OwnsNat, PTL

LEMMA PollTypes ==
  ASSUME PollInv, poll # Resting
  PROVE  /\ DOMAIN poll = {"pc", "stale", "supply", "pool", "fees", "began", "strained",
                           "covered"}
         /\ poll.pc \in {"pool", "fees", "report"}
         /\ poll.stale \in BOOLEAN /\ poll.strained \in BOOLEAN /\ poll.covered \in BOOLEAN
         /\ poll.pool \in Nat /\ poll.fees \in Nat /\ poll.began \in Nat
         /\ ~poll.stale => poll.supply = poll.began
         /\ ~poll.strained => ~Reserved \/ poll.pc = "report"
         /\ ~poll.stale /\ ~poll.strained => Reading >= poll.supply
         /\ ~poll.stale /\ ~poll.covered => Reading < poll.supply
BY DEF PollInv

LEMMA LedgerStepKeeps ==
  ASSUME SolvencyInv, LedgerStep
  PROVE  SolvencyInv'
<1>1. LedgerInv /\ Advances
  BY LedgerAdvances DEF SolvencyInv, LedgerStep
<1>2. LedgerInv' /\ (sent' # sent => Reserved)
      /\ (sent' = sent => OwnSat' >= OwnSat /\ FeesPaidSat' = FeesPaidSat)
  BY <1>1 DEF Advances
<1>3. CASE poll = Resting
  BY <1>2, <1>3 DEF LedgerStep, SolvencyInv, PollInv
<1>4. CASE poll # Resting
  <2>1. /\ DOMAIN poll = {"pc", "stale", "supply", "pool", "fees", "began", "strained",
                           "covered"}
        /\ poll.pc \in {"pool", "fees", "report"}
        /\ poll.stale \in BOOLEAN /\ poll.strained \in BOOLEAN /\ poll.covered \in BOOLEAN
        /\ poll.pool \in Nat /\ poll.fees \in Nat /\ poll.began \in Nat
        /\ ~poll.stale => poll.supply = poll.began
        /\ ~poll.strained => ~Reserved \/ poll.pc = "report"
        /\ ~poll.stale /\ ~poll.strained => Reading >= poll.supply
        /\ ~poll.stale /\ ~poll.covered => Reading < poll.supply
    BY <1>4, PollTypes DEF SolvencyInv
  <2>2. poll' = [poll EXCEPT !.strained = poll.strained \/ Reserved' \/ outside',
                             !.covered = poll.covered \/ OwnSat' + FeesPaidSat' >= poll.began
                                          \/ (poll.pc = "fees" /\ sent' # sent)]
    BY <1>4 DEF LedgerStep
  <2>3. /\ DOMAIN poll' = DOMAIN poll
        /\ poll'.pc = poll.pc /\ poll'.stale = poll.stale /\ poll'.supply = poll.supply
        /\ poll'.pool = poll.pool /\ poll'.fees = poll.fees /\ poll'.began = poll.began
    BY <2>1, <2>2
  <2>4. /\ poll'.strained = (poll.strained \/ Reserved' \/ outside')
        /\ poll'.covered = (poll.covered \/ OwnSat' + FeesPaidSat' >= poll.began
                             \/ (poll.pc = "fees" /\ sent' # sent))
    BY <2>1, <2>2
  <2>5. poll'.strained \in BOOLEAN /\ poll'.covered \in BOOLEAN
    BY <2>4, Zenon
  <2>6. /\ OwnSat \in Nat /\ FeesPaidSat \in Nat
        /\ OwnSat' \in Nat /\ FeesPaidSat' \in Nat
    BY <1>1, <1>2, OwnsNat, OwnsNatNext
  <2>7. ~poll'.strained => ~Reserved' /\ ~poll.strained
    BY <2>4, Zenon
  <2>8. ASSUME ~poll'.stale, ~poll'.strained PROVE Reading' >= poll'.supply
    <3>1. ~poll.strained /\ ~poll.stale /\ Reading >= poll.supply /\ poll.supply \in Nat
      BY <2>1, <2>3, <2>7, <2>8, Zenon
    <3>2. CASE poll.pc = "report"
      BY <2>3, <3>1, <3>2 DEF Reading
    <3>3. CASE poll.pc # "report"
      <4>1. OwnSat' >= OwnSat /\ FeesPaidSat' = FeesPaidSat
        BY <1>2, <2>1, <3>1, <3>3
      <4> QED BY <2>1, <2>3, <2>6, <3>1, <3>3, <4>1 DEF Reading
    <3> QED BY <3>2, <3>3
  <2>9. ASSUME ~poll'.stale, ~poll'.covered PROVE Reading' < poll'.supply
    <3>1. /\ ~poll.covered /\ ~(OwnSat' + FeesPaidSat' >= poll.began)
          /\ ~(poll.pc = "fees" /\ sent' # sent)
      BY <2>4, <2>9, Zenon
    <3>2. ~poll.stale /\ Reading < poll.supply /\ poll.supply = poll.began
      BY <2>1, <2>3, <2>9, <3>1, Zenon
    <3>3. CASE poll.pc = "pool"
      BY <2>1, <2>3, <2>6, <3>1, <3>2, <3>3 DEF Reading
    <3>4. CASE poll.pc = "fees"
      <4>1. FeesPaidSat' = FeesPaidSat
        BY <1>2, <3>1, <3>4
      <4> QED BY <2>3, <3>2, <3>4, <4>1 DEF Reading
    <3>5. CASE poll.pc = "report"
      BY <2>3, <3>2, <3>5 DEF Reading
    <3> QED BY <2>1, <3>3, <3>4, <3>5
  <2>10. /\ ~poll'.stale => poll'.supply = poll'.began
         /\ ~poll'.strained => ~Reserved' \/ poll'.pc = "report"
    BY <2>1, <2>3, <2>7
  <2>11. PollInv'
    BY <2>1, <2>3, <2>5, <2>8, <2>9, <2>10 DEF PollInv
  <2> QED BY <1>2, <2>11 DEF SolvencyInv
<1> QED BY <1>3, <1>4

LEMMA RestingKeeps ==
  ASSUME SolvencyInv, UNCHANGED fundsVars, incidents' \in Nat, poll' = Resting
  PROVE  SolvencyInv'
BY LedgerSame DEF SolvencyInv, PollInv

LEMMA ReadSupplyKeeps ==
  ASSUME SolvencyInv, ReadSupply
  PROVE  SolvencyInv'
<1>1. PICK stale \in BOOLEAN :
        poll' = [pc |-> "pool", stale |-> stale,
                 supply |-> IF stale THEN DbSupply ELSE supply, pool |-> 0, fees |-> 0,
                 began |-> supply, strained |-> Reserved \/ outside, covered |-> Covered]
  BY DEF ReadSupply
<1>2. LedgerInv /\ UNCHANGED fundsVars /\ incidents' = incidents
  BY DEF SolvencyInv, ReadSupply, ledgerVars
<1>3. /\ LedgerInv' /\ OwnSat' = OwnSat /\ FeesPaidSat' = FeesPaidSat
      /\ Reserved' = Reserved
  BY <1>2, LedgerSame DEF LedgerInv, LedgerTypes
<1>4. OwnSat \in Nat /\ FeesPaidSat \in Nat /\ supply \in Nat /\ SumOver(Owed, Spenders) \in Nat
  BY <1>2, OwnsNat, LedgerAmounts DEF LedgerInv, LedgerTypes
<1>5. /\ poll'.pc = "pool" /\ poll'.stale = stale /\ poll'.pool = 0 /\ poll'.fees = 0
      /\ poll'.began = supply /\ poll'.strained = (Reserved \/ outside)
      /\ poll'.covered = Covered
      /\ DOMAIN poll' = {"pc", "stale", "supply", "pool", "fees", "began", "strained",
                         "covered"}
  BY <1>1
<1>6. ~stale => poll'.supply = supply
  BY <1>1
<1>7. Reading' = OwnSat + FeesPaidSat
  BY <1>3, <1>5 DEF Reading
<1>8. poll'.strained \in BOOLEAN /\ poll'.covered \in BOOLEAN
  <2>1. (Reserved \/ outside) \in BOOLEAN
    OBVIOUS
  <2>2. Covered \in BOOLEAN
    BY SMT DEF Covered
  <2>3. poll'.strained \in BOOLEAN
    BY <1>5, <2>1, Zenon
  <2>4. poll'.covered \in BOOLEAN
    BY <1>5, <2>2, Zenon
  <2> QED BY <2>3, <2>4
<1>9. ASSUME ~stale, ~poll'.strained PROVE Reading' >= poll'.supply
  <2>1. ~outside
    BY <1>5, <1>9, Zenon
  <2>2. OwnSat + FeesPaidSat + 0 = supply + SumOver(Owed, Spenders)
    BY <1>2, <2>1 DEF LedgerInv, Balanced
  <2> QED BY <1>4, <1>6, <1>7, <1>9, <2>2
<1>10. ASSUME ~stale, ~poll'.covered PROVE Reading' < poll'.supply
  <2>1. ~(OwnSat + FeesPaidSat >= supply)
    BY <1>5, <1>10, Zenon DEF Covered
  <2> QED BY <1>4, <1>6, <1>7, <1>10, <2>1
<1>11. ~poll'.strained => ~Reserved'
  BY <1>3, <1>5, Zenon
<1>12. PollInv'
  BY <1>4, <1>5, <1>6, <1>8, <1>9, <1>10, <1>11 DEF PollInv
<1> QED BY <1>3, <1>12 DEF SolvencyInv

LEMMA ReadPoolKeeps ==
  ASSUME SolvencyInv, ReadPool
  PROVE  SolvencyInv'
<1>1. LedgerInv /\ UNCHANGED fundsVars /\ incidents' = incidents /\ poll # Resting
      /\ poll.pc = "pool"
  BY DEF SolvencyInv, ReadPool, ledgerVars, Resting
<1>2. /\ LedgerInv' /\ FeesPaidSat' = FeesPaidSat /\ Reserved' = Reserved
  BY <1>1, LedgerSame DEF LedgerInv, LedgerTypes
<1>3. OwnSat \in Nat /\ FeesPaidSat \in Nat /\ PoolSat \in Nat /\ PoolSat <= OwnSat
  BY <1>1, OwnsNat
<1>4. /\ DOMAIN poll = {"pc", "stale", "supply", "pool", "fees", "began", "strained",
                         "covered"}
      /\ poll.stale \in BOOLEAN /\ poll.strained \in BOOLEAN /\ poll.covered \in BOOLEAN
      /\ poll.fees \in Nat /\ poll.began \in Nat
      /\ ~poll.stale => poll.supply = poll.began
      /\ ~poll.strained => ~Reserved
      /\ ~poll.stale /\ ~poll.strained => Reading >= poll.supply
      /\ ~poll.stale /\ ~poll.covered => Reading < poll.supply
  BY <1>1, PollTypes DEF SolvencyInv
<1>5. poll' = [poll EXCEPT !.pc = "fees", !.pool = PoolSat]
  BY DEF ReadPool
<1>6. /\ DOMAIN poll' = DOMAIN poll
      /\ poll'.pc = "fees" /\ poll'.stale = poll.stale /\ poll'.supply = poll.supply
      /\ poll'.pool = PoolSat /\ poll'.fees = poll.fees /\ poll'.began = poll.began
      /\ poll'.strained = poll.strained /\ poll'.covered = poll.covered
  BY <1>4, <1>5
<1>7. Reading = OwnSat + FeesPaidSat /\ Reading' = PoolSat + FeesPaidSat
  BY <1>1, <1>2, <1>6 DEF Reading
<1>8. ~Reserved => OwnSat = PoolSat
  <2>1. SUFFICES ASSUME ~Reserved PROVE OwnSat = PoolSat
    OBVIOUS
  <2>2. Held = {}
    BY <2>1 DEF Held, Reserved
  <2>3. OwnSat = TotalSat(available) + TotalSat(Held) /\ TotalSat(available) \in Nat
        /\ PoolSat = TotalSat(available)
    BY <1>1, LedgerAmounts DEF LedgerInv, PoolSat
  <2>4. TotalSat(Held) = 0
    BY <2>2, TotalEmpty
  <2> QED BY <2>3, <2>4
<1>9. ~poll.stale /\ ~poll.strained => Reading' >= poll'.supply
  BY <1>3, <1>4, <1>6, <1>7, <1>8
<1>10. ~poll.stale /\ ~poll.covered => Reading' < poll'.supply
  BY <1>3, <1>4, <1>6, <1>7
<1>11. PollInv'
  BY <1>2, <1>3, <1>4, <1>6, <1>9, <1>10 DEF PollInv
<1> QED BY <1>2, <1>11 DEF SolvencyInv

LEMMA ReadFeesKeeps ==
  ASSUME SolvencyInv, ReadFees
  PROVE  SolvencyInv'
<1>1. LedgerInv /\ UNCHANGED fundsVars /\ incidents' = incidents /\ poll # Resting
      /\ poll.pc = "fees"
  BY DEF SolvencyInv, ReadFees, ledgerVars, Resting
<1>2. /\ LedgerInv' /\ FeesPaidSat' = FeesPaidSat /\ Reserved' = Reserved
  BY <1>1, LedgerSame DEF LedgerInv, LedgerTypes
<1>3. FeesPaidSat \in Nat
  BY <1>1, OwnsNat
<1>4. /\ DOMAIN poll = {"pc", "stale", "supply", "pool", "fees", "began", "strained",
                         "covered"}
      /\ poll.stale \in BOOLEAN /\ poll.strained \in BOOLEAN /\ poll.covered \in BOOLEAN
      /\ poll.pool \in Nat /\ poll.began \in Nat
      /\ ~poll.stale => poll.supply = poll.began
      /\ ~poll.stale /\ ~poll.strained => Reading >= poll.supply
      /\ ~poll.stale /\ ~poll.covered => Reading < poll.supply
  BY <1>1, PollTypes DEF SolvencyInv
<1>5. poll' = [poll EXCEPT !.pc = "report", !.fees = FeesPaidSat]
  BY DEF ReadFees
<1>6. /\ DOMAIN poll' = DOMAIN poll
      /\ poll'.pc = "report" /\ poll'.stale = poll.stale /\ poll'.supply = poll.supply
      /\ poll'.pool = poll.pool /\ poll'.fees = FeesPaidSat /\ poll'.began = poll.began
      /\ poll'.strained = poll.strained /\ poll'.covered = poll.covered
  BY <1>4, <1>5
<1>7. Reading' = Reading
  BY <1>1, <1>6 DEF Reading
<1>8. PollInv'
  BY <1>3, <1>4, <1>6, <1>7 DEF PollInv
<1> QED BY <1>2, <1>8 DEF SolvencyInv

LEMMA OtherKeeps ==
  ASSUME SolvencyInv, UNCHANGED <<ledgerVars, poll>>
  PROVE  SolvencyInv'
<1>1. LedgerInv /\ UNCHANGED fundsVars /\ incidents' = incidents /\ poll' = poll
  BY DEF SolvencyInv, ledgerVars
<1>2. /\ LedgerInv' /\ OwnSat' = OwnSat /\ FeesPaidSat' = FeesPaidSat
      /\ Reserved' = Reserved
  BY <1>1, LedgerSame DEF LedgerInv, LedgerTypes
<1>3. Reading' = Reading
  BY <1>1, <1>2 DEF Reading
<1>4. PollInv'
  BY <1>1, <1>2, <1>3 DEF SolvencyInv, PollInv
<1> QED BY <1>2, <1>4 DEF SolvencyInv

LEMMA NextKeeps == SolvencyInv /\ [Next]_vars => SolvencyInv'
<1> SUFFICES ASSUME SolvencyInv, [Next]_vars PROVE SolvencyInv'
  OBVIOUS
<1>1. incidents \in Nat
  BY DEF SolvencyInv, LedgerInv, LedgerTypes
<1>2. CASE LedgerStep
  BY <1>2, LedgerStepKeeps
<1>3. CASE ReadSupply \/ ReadPool \/ ReadFees
  BY <1>3, ReadSupplyKeeps, ReadPoolKeeps, ReadFeesKeeps
<1>4. CASE ReportAll \/ ReportWithoutReviews
  <2>1. poll' = Resting /\ UNCHANGED fundsVars /\ incidents' \in Nat
    BY <1>1, <1>4 DEF ReportAll, ReportWithoutReviews, Report, Incident
  <2> QED BY <2>1, RestingKeeps
<1>5. CASE PollFails \/ Restart
  <2>1. poll' = Resting /\ UNCHANGED fundsVars /\ incidents' \in Nat
    BY <1>1, <1>5 DEF PollFails, Restart, Incident
  <2> QED BY <2>1, RestingKeeps
<1>6. CASE \E type \in AlertTypes : CooldownEnds(type)
  BY <1>6, OtherKeeps DEF CooldownEnds
<1>7. CASE UNCHANGED vars
  BY <1>7, OtherKeeps DEF vars, monitorVars
<1> QED BY <1>2, <1>3, <1>4, <1>5, <1>6, <1>7 DEF Next, PollStep

-------------------------------------------------------------------------------
(***************************************************************************)
(* The inductive invariant of the amounts and of what a poll has read of   *)
(* them: without a reserved coin and without wBOB from outside the reading *)
(* covers the supply, and a reading that covers it has the poll note that  *)
(* supply was covered (poll, checkSolvency).                               *)
(***************************************************************************)
THEOREM SolvencyInvariant == Spec => []SolvencyInv
<1>1. Init => SolvencyInv
  BY LedgerStarts DEF Init, SolvencyInv, PollInv
<1> QED BY <1>1, NextKeeps, PTL DEF Spec

(***************************************************************************)
(* The bridge is solvent at every moment: its coins, free or reserved,     *)
(* with the fees on record are the supply that deposits stand for and what *)
(* it still owes, to the satoshi (createPendingAuths, buildPayoutTx,       *)
(* planRefund, and the amounts they leave on record).                      *)
(***************************************************************************)
THEOREM AlwaysBalanced == Spec => []Balanced
<1>1. SolvencyInv => Balanced
  BY DEF SolvencyInv, LedgerInv
<1> QED BY <1>1, SolvencyInvariant, PTL

(* What ends a poll with an alert is its report.                           *)
LEMMA ReportSays ==
  ASSUME [Next]_vars, poll.pc = "report", poll' = Resting, NEW a \in reported',
         a \in {"SOLVENCY_BREACH", "SOLVENCY_RECOVERED"}
  PROVE  /\ ~poll.stale
         /\ a = "SOLVENCY_BREACH" <=> ~IsSolvent(poll)
<1>1. PICK review : Report(review)
  <2>1. poll # Resting
    BY DEF Resting
  <2>2. reported' # {} /\ poll' # poll
    BY <2>1
  <2>3. ~ LedgerStep /\ ~ ReadSupply /\ ~ ReadPool /\ ~ ReadFees /\ ~ PollFails /\ ~ Restart
    BY <2>2 DEF LedgerStep, ReadSupply, ReadPool, ReadFees, PollFails, Restart, Quiet
  <2>4. ~ UNCHANGED vars /\ \A type : ~ CooldownEnds(type)
    BY <2>2 DEF vars, monitorVars, CooldownEnds
  <2>5. ReportAll \/ ReportWithoutReviews
    BY <2>3, <2>4 DEF Next, PollStep
  <2> QED BY <2>5 DEF ReportAll, ReportWithoutReviews
<1>2. PICK others \in SUBSET OtherAlerts :
        LET alerts == SolvencyAlerts(poll) \cup ReviewAlerts(review) \cup others
        IN  reported' = (alerts \ cooling) \cup (alerts \cap Bypassing(review))
  BY <1>1 DEF Report
<1>3. a \in SolvencyAlerts(poll) \cup ReviewAlerts(review) \cup others
  BY <1>2
<1>4. a \notin others
  BY <1>2, MonitorAssumption
<1>5. a \notin ReviewAlerts(review)
  BY DEF ReviewAlerts
<1>6. a \in SolvencyAlerts(poll)
  BY <1>3, <1>4, <1>5
<1> QED BY <1>6 DEF SolvencyAlerts

(***************************************************************************)
(* For any deposits, burns, fee rate, faults and retries: a breach is      *)
(* reported only if a coin was reserved or wBOB from outside was in the    *)
(* supply while the poll was reading (poll, checkSolvency).                *)
(***************************************************************************)
THEOREM BreachesAreReal == Spec => BreachIsReal
<1>1. SolvencyInv /\ [Next]_vars =>
        [poll.pc = "report" /\ poll' = Resting /\ "SOLVENCY_BREACH" \in reported'
           => poll.strained]_vars
  <2>1. SUFFICES ASSUME SolvencyInv, [Next]_vars, poll.pc = "report", poll' = Resting,
                        "SOLVENCY_BREACH" \in reported'
                 PROVE  poll.strained
    OBVIOUS
  <2>2. ~poll.stale /\ ~IsSolvent(poll)
    BY <2>1, ReportSays
  <2>3. poll # Resting /\ PollInv
    BY <2>1 DEF Resting, SolvencyInv
  <2>4. ~poll.strained => poll.pool + poll.fees >= poll.supply
    BY <2>1, <2>2, <2>3, PollTypes DEF Reading
  <2> QED BY <2>2, <2>4 DEF IsSolvent
<1> QED BY <1>1, SolvencyInvariant, PTL DEF Spec, BreachIsReal

(***************************************************************************)
(* Under the same conditions, an all-clear is given only if at some time   *)
(* of the poll what the bridge owns and the fees on record covered the     *)
(* supply of its beginning, or a transaction went out between two of its   *)
(* reads (poll, buildAlerts).                                              *)
(***************************************************************************)
THEOREM AllClearsAreTrue == Spec => AllClearIsTrue
<1>1. SolvencyInv /\ [Next]_vars =>
        [poll.pc = "report" /\ poll' = Resting /\ "SOLVENCY_RECOVERED" \in reported'
           => poll.covered]_vars
  <2>1. SUFFICES ASSUME SolvencyInv, [Next]_vars, poll.pc = "report", poll' = Resting,
                        "SOLVENCY_RECOVERED" \in reported'
                 PROVE  poll.covered
    OBVIOUS
  <2>2. ~poll.stale /\ IsSolvent(poll)
    BY <2>1, ReportSays
  <2>3. poll # Resting /\ PollInv
    BY <2>1 DEF Resting, SolvencyInv
  <2>4. /\ ~poll.covered => poll.pool + poll.fees < poll.supply
        /\ poll.pool \in Nat /\ poll.fees \in Nat /\ poll.supply \in Nat
    BY <2>1, <2>2, <2>3, PollTypes DEF Reading
  <2> QED BY <2>2, <2>4 DEF IsSolvent
<1> QED BY <1>1, SolvencyInvariant, PTL DEF Spec, AllClearIsTrue
===============================================================================
