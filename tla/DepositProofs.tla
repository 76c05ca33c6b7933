----------------------------- MODULE DepositProofs -----------------------------
(***************************************************************************)
(* Proofs about deposit addresses, quotes and credits, and about the gas   *)
(* drip over them: for any callers, watchers, instances and spellings, and *)
(* every bound.                                                            *)
(***************************************************************************)
EXTENDS GasDrip, SetFacts, SequenceTheorems

-------------------------------------------------------------------------------
(***************************************************************************)
(* The inductive invariants of deposit addresses, quotes and credits: what *)
(* the tables hold, what a watcher has left to do of its block, and, where *)
(* preferences are recorded, who may be allocated an address.              *)
(***************************************************************************)

Order == [owner : Spellings, index : Nat, quoted : BOOLEAN, payment : Nat]

Indices == {a.index : a \in addresses}

Owns(s, n) == \E a \in addresses : a.owner = s /\ a.index = n

(* Credited, or behind another payment to the same quote. *)
Covered(p) ==
  \/ Recorded(p)
  \/ \E o \in Quotes : orders[o].index = payments[p] /\ orders[o].payment # 0

-------------------------------------------------------------------------------
(* The tables have their types, and payments are to addresses given.       *)
TablesInv ==
  /\ IsFiniteSet(addresses) /\ addresses \subseteq [owner : Spellings, index : Nat]
  /\ drips \in [Spellings -> Statuses]
  /\ orders \in Seq(Order)
  /\ payments \in Seq(Given)
  /\ blocks \in Seq(SUBSET DOMAIN payments)

CallInv(call) ==
  /\ call.pc \in {"idle", "allocate", "insert", "quote"}
  /\ call.pc # "idle" => call.owner \in Spellings
  /\ call.pc \in {"allocate", "insert"} => call.status \in Preferences
  /\ call.pc \in {"insert", "quote"} => call.index \in Nat

Paid(o) == o \in DOMAIN orders /\ orders[o].payment # 0

(* A credited order is of the address that was paid, whose owner it has,   *)
(* and no two are of one output and one wallet.                            *)
CreditInv ==
  /\ \A o \in DOMAIN orders : Paid(o) =>
       /\ orders[o].payment \in DOMAIN payments /\ orders[o].index = payments[orders[o].payment]
       /\ orders[o].quoted \/ Owns(orders[o].owner, orders[o].index)
  /\ \A o, q \in DOMAIN orders :
       Paid(o) /\ Paid(q) /\ DepositId(orders[o].payment, orders[o].owner)
                               = DepositId(orders[q].payment, orders[q].owner) => o = q

(* What a pass still has to do belongs to the block it is at and to a      *)
(* quote, or an owner, of the address paid.                                *)
TodoInv(s, pos) ==
  /\ s.pc \in {"idle", "first", "tracked", "ingest"}
  /\ s.pc # "idle" =>
       /\ s.block = pos + 1 /\ s.block \in DOMAIN blocks
       /\ s.todo \subseteq blocks[s.block] /\ s.complete \in BOOLEAN
  /\ s.pc = "first" => DOMAIN s = {"pc", "block", "todo", "quote", "complete"}
  /\ s.pc \in {"tracked", "ingest"} => DOMAIN s = {"pc", "block", "todo", "owner", "complete"}
  /\ s.pc = "first" =>
       \A p \in s.todo : s.quote[payments[p]] \in Quotes /\ orders[s.quote[payments[p]]].index = payments[p]
  /\ s.pc \in {"tracked", "ingest"} => \A p \in s.todo : Owns(s.owner[payments[p]], payments[p])
  /\ s.pc = "ingest" => s.todo # {}

(* What it has done, as long as nothing failed, is covered; the first pass *)
(* leaves the addresses of deposit_addresses to the second.                *)
DoneInv(s) ==
  s.pc # "idle" /\ s.complete =>
    \A p \in blocks[s.block] :
      p \in s.todo \/ Covered(p) \/ (s.pc = "first" /\ payments[p] \in Indices)

Blamed == errors > 0 \/ \E n \in Given : Shared(n)

CursorInv(m, c) ==
  /\ c \in 0 .. m.pos /\ m.pos \in 0 .. Len(blocks)
  /\ ~m.held => c = m.pos
  /\ m.held => Blamed
  /\ \A b \in 1 .. c : \A p \in blocks[b] : Covered(p)

PassInv(s, m, c) ==
  /\ TodoInv(s, m.pos) /\ DoneInv(s) /\ CursorInv(m, c)
  /\ s.pc # "idle" /\ ~s.complete => Blamed

(* Nothing of a block behind a cursor is lost, and what is credited is     *)
(* credited as it was paid (block-handler.ts, both passes).                *)
DepositInv ==
  /\ TablesInv /\ CreditInv /\ errors \in Nat
  /\ DOMAIN calls = Callers /\ \A c \in Callers : CallInv(calls[c])
  /\ DOMAIN scan = Watchers /\ cursor \in [Watchers -> Nat]
  /\ mem \in [Watchers -> [pos : Nat, held : BOOLEAN]]
  /\ \A v \in Watchers : PassInv(scan[v], mem[v], cursor[v])

-------------------------------------------------------------------------------
Allocating(c) == calls[c].pc \in {"allocate", "insert"}

(* While the recipient's row is held nobody else allocates for it, and it  *)
(* has no address yet (deposit-address.ts).                                *)
AllocInv ==
  /\ \A w \in Wallets : Rows(w) # {} => AddressesOf(w) # {}
  /\ \A c \in Callers : Allocating(c) =>
       /\ calls[c].drip = <<calls[c].owner>>
       /\ \A a \in addresses : a.owner # calls[c].owner
  /\ \A c, d \in Callers :
       Allocating(c) /\ Allocating(d) /\ calls[c].owner = calls[d].owner => c = d
  /\ OneAddressPerSpelling

-------------------------------------------------------------------------------
(* What the tables hold.                                                   *)

LEMMA TableFacts ==
  ASSUME TablesInv
  PROVE  /\ \A o \in DOMAIN orders : orders[o] \in Order /\ o \in Nat
         /\ \A p \in DOMAIN payments : payments[p] \in Given /\ p \in Nat \ {0}
         /\ \A b \in DOMAIN blocks : blocks[b] \subseteq DOMAIN payments
         /\ Given \subseteq Nat /\ Quotes \subseteq DOMAIN orders
         /\ DOMAIN orders = 1 .. Len(orders) /\ Len(orders) \in Nat
         /\ DOMAIN payments = 1 .. Len(payments) /\ Len(payments) \in Nat
         /\ DOMAIN blocks = 1 .. Len(blocks) /\ Len(blocks) \in Nat
<1>1. orders \in Seq(Order) /\ payments \in Seq(Given) /\ blocks \in Seq(SUBSET DOMAIN payments)
  BY DEF TablesInv
<1>2. /\ DOMAIN orders = 1 .. Len(orders) /\ Len(orders) \in Nat
      /\ DOMAIN payments = 1 .. Len(payments) /\ Len(payments) \in Nat
      /\ DOMAIN blocks = 1 .. Len(blocks) /\ Len(blocks) \in Nat
  BY <1>1, LenProperties
<1>3. \A o \in DOMAIN orders : orders[o] \in Order
  BY <1>1, <1>2, ElementOfSeq
<1>4. \A p \in DOMAIN payments : payments[p] \in Given
  BY <1>1, <1>2, ElementOfSeq
<1>5. \A b \in DOMAIN blocks : blocks[b] \subseteq DOMAIN payments
  BY <1>1, <1>2, ElementOfSeq
<1>6. Given \subseteq Nat
  BY <1>3 DEF Given, Quotes, Order, TablesInv
<1>7. /\ \A o \in DOMAIN orders : o \in Nat
      /\ \A p \in DOMAIN payments : p \in Nat \ {0}
  BY <1>2
<1> QED BY <1>2, <1>3, <1>4, <1>5, <1>6, <1>7 DEF Quotes

(* Those whom an address was given to are finitely many, in any tables.    *)
HoldersOf(A, O, n) ==
  {<<"address", a.owner>> : a \in {x \in A : x.index = n}}
    \cup {<<"quote", o>> : o \in {q \in {o \in DOMAIN O : O[o].quoted} : O[q].index = n}}

LEMMA HoldersFinite ==
  ASSUME NEW A, IsFiniteSet(A), NEW O \in Seq(Order), NEW n
  PROVE  IsFiniteSet(HoldersOf(A, O, n))
<1> DEFINE B == {x \in A : x.index = n}
           f == [a \in B |-> <<"address", a.owner>>]
           Q == {q \in {o \in DOMAIN O : O[o].quoted} : O[q].index = n}
           g == [o \in Q |-> <<"quote", o>>]
<1>1. IsFiniteSet(B)
  BY FS_Subset
<1>2. IsFiniteSet(Q)
  <2>1. DOMAIN O = 1 .. Len(O) /\ Len(O) \in Nat
    BY LenProperties
  <2>2. IsFiniteSet(DOMAIN O)
    BY <2>1, FS_Interval
  <2> QED BY <2>2, FS_Subset
<1>3. IsFiniteSet({f[x] : x \in DOMAIN f})
  <2>1. f \in [DOMAIN f -> {f[x] : x \in DOMAIN f}] /\ DOMAIN f = B
    OBVIOUS
  <2> HIDE DEF f, B
  <2> QED BY <1>1, <2>1, ImageIsFinite
<1>4. IsFiniteSet({g[x] : x \in DOMAIN g})
  <2>1. g \in [DOMAIN g -> {g[x] : x \in DOMAIN g}] /\ DOMAIN g = Q
    OBVIOUS
  <2> HIDE DEF g, Q
  <2> QED BY <1>2, <2>1, ImageIsFinite
<1>5. /\ {f[x] : x \in DOMAIN f} = {<<"address", a.owner>> : a \in B}
      /\ {g[x] : x \in DOMAIN g} = {<<"quote", o>> : o \in Q}
  OBVIOUS
<1>6. IsFiniteSet({<<"address", a.owner>> : a \in B} \cup {<<"quote", o>> : o \in Q})
  <2> HIDE DEF f, g, B, Q
  <2> QED BY <1>3, <1>4, <1>5, FS_Union
<1> QED BY <1>6 DEF HoldersOf

(* An address was given twice when two hold it.                            *)
LEMMA SharedByTwo ==
  ASSUME TablesInv, NEW n
  PROVE  Shared(n) <=> \E x, y \in Holders(n) : x # y
<1>1. Holders(n) = HoldersOf(addresses, orders, n)
  BY DEF Holders, HoldersOf, Quotes
<1>2. IsFiniteSet(Holders(n))
  BY <1>1, HoldersFinite DEF TablesInv
<1> QED BY <1>2, TwoOrMore DEF Shared

LEMMA LaterSharedByTwo ==
  ASSUME TablesInv', NEW n
  PROVE  Shared(n)' <=> \E x, y \in Holders(n)' : x # y
<1>1. Holders(n)' = HoldersOf(addresses', orders', n)
  BY DEF Holders, HoldersOf, Quotes
<1>2. IsFiniteSet(Holders(n)')
  BY <1>1, HoldersFinite DEF TablesInv
<1> QED BY <1>2, TwoOrMore DEF Shared

-------------------------------------------------------------------------------
(* What no step takes back.                                                *)

Kept ==
  /\ addresses \subseteq addresses'
  /\ \A o \in DOMAIN orders :
       /\ o \in DOMAIN orders' /\ orders'[o].owner = orders[o].owner
       /\ orders'[o].index = orders[o].index /\ orders'[o].quoted = orders[o].quoted
       /\ orders[o].payment # 0 => orders'[o].payment = orders[o].payment
  /\ \A p \in DOMAIN payments : p \in DOMAIN payments' /\ payments'[p] = payments[p]
  /\ \A b \in DOMAIN blocks : b \in DOMAIN blocks' /\ blocks'[b] = blocks[b]
  /\ Len(blocks) <= Len(blocks') /\ Len(blocks') \in Nat
  /\ errors \in Nat /\ errors' \in Nat /\ errors <= errors'

LEMMA GivenKept ==
  ASSUME Kept
  PROVE  /\ Given \subseteq Given' /\ Quotes \subseteq Quotes' /\ Indices \subseteq Indices'
         /\ \A s, n : Owns(s, n) => Owns(s, n)'
         /\ \A n : Holders(n) \subseteq Holders(n)'
<1>1. Quotes \subseteq Quotes'
  BY DEF Kept, Quotes
<1>2. Given \subseteq Given' /\ Indices \subseteq Indices'
  BY <1>1 DEF Kept, Quotes, Given, Indices
<1>3. ASSUME NEW s, NEW n, Owns(s, n) PROVE Owns(s, n)'
  BY <1>3 DEF Kept, Owns
<1>4. ASSUME NEW n, NEW h \in Holders(n) PROVE h \in Holders(n)'
  BY <1>1 DEF Kept, Quotes, Holders
<1> QED BY <1>1, <1>2, <1>3, <1>4

LEMMA CoveredKept ==
  ASSUME TablesInv, Kept, NEW p \in DOMAIN payments, Covered(p)
  PROVE  Covered(p)'
<1>1. p # 0 /\ Quotes \subseteq DOMAIN orders
  BY TableFacts
<1>2. CASE Recorded(p)
  BY <1>1, <1>2 DEF Kept, Covered, Recorded
<1>3. CASE \E o \in Quotes : orders[o].index = payments[p] /\ orders[o].payment # 0
  <2>1. PICK o \in Quotes : orders[o].index = payments[p] /\ orders[o].payment # 0
    BY <1>3
  <2>2. o \in Quotes' /\ orders'[o].index = payments'[p] /\ orders'[o].payment # 0
    BY <1>1, <2>1, GivenKept DEF Kept
  <2> QED BY <2>2 DEF Covered
<1> QED BY <1>2, <1>3 DEF Covered

LEMMA BlamedKept ==
  ASSUME TablesInv, TablesInv', Kept, Blamed
  PROVE  Blamed'
<1>1. CASE errors > 0
  BY <1>1 DEF Kept, Blamed
<1>2. ASSUME NEW n \in Given, Shared(n) PROVE Blamed'
  <2>1. PICK x, y \in Holders(n) : x # y
    BY <1>2, SharedByTwo
  <2>2. Shared(n)' /\ n \in Given'
    BY <2>1, GivenKept, LaterSharedByTwo
  <2> QED BY <2>2 DEF Blamed
<1> QED BY <1>1, <1>2 DEF Blamed

(* A watcher that does not move keeps what holds of it.                    *)
LEMMA PassKept ==
  ASSUME TablesInv, TablesInv', Kept, NEW s, NEW m, NEW c, PassInv(s, m, c)
  PROVE  PassInv(s, m, c)'
<1>1. TodoInv(s, m.pos) /\ DoneInv(s) /\ CursorInv(m, c)
  BY DEF PassInv
<1>2. s.pc # "idle" =>
        /\ s.block \in DOMAIN blocks /\ blocks'[s.block] = blocks[s.block]
        /\ \A p \in blocks[s.block] : p \in DOMAIN payments /\ payments'[p] = payments[p]
        /\ s.todo \subseteq blocks[s.block]
  BY <1>1, TableFacts DEF TodoInv, Kept
<1>3. TodoInv(s, m.pos)'
  <2>1. s.pc # "idle" =>
          /\ s.block = m.pos + 1 /\ s.block \in DOMAIN blocks'
          /\ s.todo \subseteq blocks'[s.block] /\ s.complete \in BOOLEAN
    BY <1>1, <1>2 DEF TodoInv, Kept
  <2>2. ASSUME s.pc = "first", NEW p \in s.todo
        PROVE  s.quote[payments'[p]] \in Quotes' /\ orders'[s.quote[payments'[p]]].index = payments'[p]
    <3>1. s.quote[payments[p]] \in Quotes /\ orders[s.quote[payments[p]]].index = payments[p]
      BY <1>1, <2>2 DEF TodoInv
    <3>2. payments'[p] = payments[p] /\ s.quote[payments[p]] \in DOMAIN orders
      BY <1>2, <2>2, <3>1, TableFacts
    <3> QED BY <3>1, <3>2, GivenKept DEF Kept
  <2>3. ASSUME s.pc \in {"tracked", "ingest"}, NEW p \in s.todo
        PROVE  Owns(s.owner[payments[p]], payments[p])'
    <3>1. Owns(s.owner[payments[p]], payments[p])
      BY <1>1, <2>3 DEF TodoInv
    <3>2. payments'[p] = payments[p]
      BY <1>2, <2>3
    <3>3. SUFFICES ASSUME NEW n, n = payments'[p] PROVE Owns(s.owner[n], n)'
      OBVIOUS
    <3> QED BY <3>1, <3>2, <3>3, GivenKept
  <2> QED BY <1>1, <2>1, <2>2, <2>3 DEF TodoInv
<1>4. DoneInv(s)'
  <2>1. SUFFICES ASSUME s.pc # "idle" /\ s.complete, NEW p \in blocks'[s.block]
                 PROVE  p \in s.todo \/ Covered(p)' \/ (s.pc = "first" /\ payments'[p] \in Indices')
    BY DEF DoneInv
  <2>2. p \in blocks[s.block] /\ p \in DOMAIN payments /\ payments'[p] = payments[p]
    BY <1>2, <2>1
  <2>3. p \in s.todo \/ Covered(p) \/ (s.pc = "first" /\ payments[p] \in Indices)
    BY <1>1, <2>1, <2>2 DEF DoneInv
  <2> QED BY <2>2, <2>3, CoveredKept, GivenKept
<1>5. CursorInv(m, c)'
  <2>1. c \in 0 .. m.pos /\ m.pos \in 0 .. Len(blocks) /\ (~m.held => c = m.pos)
        /\ (m.held => Blamed)
    BY <1>1 DEF CursorInv
  <2>2. m.pos \in 0 .. Len(blocks')
    BY <2>1, TableFacts DEF Kept
  <2>3. ASSUME NEW b \in 1 .. c, NEW p \in blocks'[b] PROVE Covered(p)'
    <3>1. b \in DOMAIN blocks
      BY <2>1, TableFacts
    <3>2. p \in blocks[b] /\ p \in DOMAIN payments
      BY <3>1, TableFacts DEF Kept
    <3> QED BY <1>1, <3>2, CoveredKept DEF CursorInv
  <2> QED BY <2>1, <2>2, <2>3, BlamedKept DEF CursorInv
<1> QED BY <1>1, <1>3, <1>4, <1>5, BlamedKept DEF PassInv

-------------------------------------------------------------------------------
(* A step of the API or of the chain moves no watcher.                     *)
LEMMA OutsideStep ==
  ASSUME DepositInv, TablesInv', CreditInv', Kept, UNCHANGED scanVars,
         DOMAIN calls' = Callers, \A c \in Callers : CallInv(calls'[c])
  PROVE  DepositInv'
<1>1. \A c \in Callers : CallInv(calls[c])'
  BY DEF CallInv
<1>2. \A v \in Watchers : PassInv(scan[v], mem[v], cursor[v])'
  <2>1. SUFFICES ASSUME NEW v \in Watchers PROVE PassInv(scan[v], mem[v], cursor[v])'
    OBVIOUS
  <2>2. SUFFICES ASSUME NEW s, s = scan[v], NEW m, m = mem[v], NEW c, c = cursor[v]
                 PROVE  PassInv(s, m, c)'
    BY DEF scanVars
  <2> QED BY <2>2, PassKept DEF DepositInv
<1> QED BY <1>1, <1>2 DEF DepositInv, scanVars, Kept

(* A step of one watcher leaves the others to PassKept.                    *)
LEMMA WatcherStep ==
  ASSUME DepositInv, TablesInv', CreditInv', Kept, UNCHANGED calls,
         NEW v \in Watchers, NEW s, NEW m \in [pos : Nat, held : BOOLEAN], NEW c \in Nat,
         scan' = [scan EXCEPT ![v] = s], mem' = [mem EXCEPT ![v] = m],
         cursor' = [cursor EXCEPT ![v] = c], PassInv(s, m, c)'
  PROVE  DepositInv'
<1>1. \A w \in Watchers : PassInv(scan[w], mem[w], cursor[w])'
  <2>1. SUFFICES ASSUME NEW w \in Watchers PROVE PassInv(scan[w], mem[w], cursor[w])'
    OBVIOUS
  <2>2. CASE w = v
    <3>1. scan'[w] = s /\ mem'[w] = m /\ cursor'[w] = c
      BY <2>2 DEF DepositInv
    <3>2. SUFFICES ASSUME NEW s1, s1 = scan'[w], NEW m1, m1 = mem'[w], NEW c1, c1 = cursor'[w]
                   PROVE  PassInv(s1, m1, c1)'
      BY Zenon
    <3> QED BY <3>1, <3>2
  <2>3. CASE w # v
    <3>1. scan'[w] = scan[w] /\ mem'[w] = mem[w] /\ cursor'[w] = cursor[w]
      BY <2>3 DEF DepositInv
    <3>2. PassInv(scan[w], mem[w], cursor[w])
      BY DEF DepositInv
    <3>3. SUFFICES ASSUME NEW s1, s1 = scan[w], NEW m1, m1 = mem[w], NEW c1, c1 = cursor[w]
                   PROVE  PassInv(s1, m1, c1)'
      BY <3>1
    <3> QED BY <3>2, <3>3, PassKept DEF DepositInv
  <2> QED BY <2>2, <2>3
<1>2. DOMAIN calls' = Callers /\ \A c1 \in Callers : CallInv(calls[c1])'
  BY DEF DepositInv, CallInv
<1>3. /\ DOMAIN scan' = Watchers /\ cursor' \in [Watchers -> Nat]
      /\ mem' \in [Watchers -> [pos : Nat, held : BOOLEAN]]
  BY DEF DepositInv
<1> QED BY <1>1, <1>2, <1>3 DEF DepositInv, Kept

-------------------------------------------------------------------------------
(* The routes.                                                             *)

(* The greatest index of a table that may be empty.                        *)
LEMMA TopIndex ==
  ASSUME NEW f, IsFiniteSet(DOMAIN f), f \in [DOMAIN f -> Nat]
  PROVE  Max({f[x] : x \in DOMAIN f} \cup {-1}) \in Nat \cup {-1}
<1> DEFINE S == {f[x] : x \in DOMAIN f}
<1>1. IsFiniteSet(S)
  <2>1. f \in [DOMAIN f -> S]
    OBVIOUS
  <2> QED BY <2>1, ImageIsFinite
<1>2. S \subseteq Nat
  OBVIOUS
<1> HIDE DEF S
<1>3. IsFiniteSet(S \cup {-1}) /\ S \cup {-1} \in SUBSET Int /\ S \cup {-1} # {}
  BY <1>1, <1>2, FS_AddElement
<1>4. Max(S \cup {-1}) \in S \cup {-1}
  BY <1>3, MaxOf
<1>5. Max(S \cup {-1}) \in Nat \cup {-1}
  BY <1>2, <1>4
<1> QED BY <1>5 DEF S

LEMMA NextIndex ==
  ASSUME TablesInv
  PROVE  Max({MaxAddress, MaxDeposit}) + 1 \in Nat /\ MaxDeposit + 1 \in Nat
<1>1. MaxAddress \in Nat \cup {-1}
  <2> DEFINE f == [a \in addresses |-> a.index]
  <2>1. f \in [DOMAIN f -> Nat] /\ IsFiniteSet(DOMAIN f)
    BY DEF TablesInv
  <2>2. {f[x] : x \in DOMAIN f} = {a.index : a \in addresses}
    OBVIOUS
  <2> HIDE DEF f
  <2> QED BY <2>1, <2>2, TopIndex DEF MaxAddress
<1>2. MaxDeposit \in Nat \cup {-1}
  <2> DEFINE f == [o \in DOMAIN orders |-> orders[o].index]
  <2>1. f \in [DOMAIN f -> Nat] /\ IsFiniteSet(DOMAIN f)
    BY TableFacts, FS_Interval DEF Order
  <2>2. {f[x] : x \in DOMAIN f} = {orders[o].index : o \in DOMAIN orders}
    OBVIOUS
  <2> HIDE DEF f
  <2> QED BY <2>1, <2>2, TopIndex DEF MaxDeposit
<1>3. {MaxAddress, MaxDeposit} \in SUBSET Int /\ {MaxAddress, MaxDeposit} # {}
  BY <1>1, <1>2
<1>4. IsFiniteSet({MaxAddress, MaxDeposit})
  <2>1. IsFiniteSet({MaxAddress} \cup {MaxDeposit})
    BY FS_Singleton, FS_AddElement
  <2>2. {MaxAddress} \cup {MaxDeposit} = {MaxAddress, MaxDeposit}
    OBVIOUS
  <2> QED BY <2>1, <2>2
<1>5. Max({MaxAddress, MaxDeposit}) \in {MaxAddress, MaxDeposit}
  BY <1>3, <1>4, MaxOf
<1> QED BY <1>1, <1>2, <1>5

(* A step that writes at most a preference.                                *)
LEMMA SameTables ==
  ASSUME DepositInv, UNCHANGED <<addresses, orders, payments, blocks, errors>>,
         drips' \in [Spellings -> Statuses]
  PROVE  TablesInv' /\ CreditInv' /\ Kept
<1>1. TablesInv'
  BY DEF DepositInv, TablesInv, Given, Quotes
<1>2. CreditInv'
  BY DEF DepositInv, CreditInv, Paid, Owns
<1>3. Kept
  <2>1. Len(blocks) \in Nat
    BY TableFacts DEF DepositInv
  <2> QED BY <2>1 DEF DepositInv, Kept
<1> QED BY <1>1, <1>2, <1>3

LEMMA CallStep ==
  ASSUME DepositInv, NEW c \in Callers, NEW call, CallInv(call), Step(c, call)
  PROVE  DOMAIN calls' = Callers /\ \A d \in Callers : CallInv(calls'[d])
BY DEF DepositInv, Step

LEMMA LookupStep ==
  ASSUME DepositInv, NEW c \in Callers, NEW s \in Spellings, NEW status \in Preferences,
         Lookup(c, s, status)
  PROVE  DepositInv'
<1>1. UNCHANGED <<addresses, orders, payments, blocks, scanVars>>
  BY DEF Lookup
<1>2. drips' \in [Spellings -> Statuses]
  <2>1. status \in Statuses
    BY AddressAssumption DEF Statuses
  <2>2. drips \in [Spellings -> Statuses] /\ (drips' = drips \/ drips' = [drips EXCEPT ![s] = status])
    BY DEF Lookup, DepositInv, TablesInv
  <2> QED BY <2>1, <2>2
<1>3. TablesInv' /\ CreditInv' /\ Kept
  BY <1>1, <1>2, SameTables DEF scanVars
<1>4. DOMAIN calls' = Callers /\ \A d \in Callers : CallInv(calls'[d])
  <2>1. CASE UNCHANGED calls
    BY <2>1 DEF DepositInv
  <2>2. ASSUME NEW row, Step(c, [pc |-> "allocate", owner |-> s, status |-> status, drip |-> row])
        PROVE  DOMAIN calls' = Callers /\ \A d \in Callers : CallInv(calls'[d])
    <3>1. CallInv([pc |-> "allocate", owner |-> s, status |-> status, drip |-> row])
      BY DEF CallInv
    <3> QED BY <2>2, <3>1, CallStep
  <2> QED BY <2>1, <2>2 DEF Lookup
<1> QED BY <1>1, <1>3, <1>4, OutsideStep

LEMMA AllocateStep ==
  ASSUME DepositInv, NEW c \in Callers, Allocate(c)
  PROVE  DepositInv'
<1>1. UNCHANGED <<addresses, drips, orders, payments, blocks, scanVars>>
  BY DEF Allocate
<1>2. TablesInv' /\ CreditInv' /\ Kept
  BY <1>1, SameTables DEF scanVars, DepositInv, TablesInv
<1> DEFINE call == [pc |-> "insert", owner |-> calls[c].owner, status |-> calls[c].status,
                    drip |-> calls[c].drip, index |-> Max({MaxAddress, MaxDeposit}) + 1]
<1>3. CallInv(call)
  <2>1. calls[c].owner \in Spellings /\ calls[c].status \in Preferences
    BY DEF DepositInv, CallInv, Allocate
  <2> QED BY <2>1, NextIndex DEF DepositInv, CallInv
<1>4. Step(c, call)
  BY DEF Allocate
<1>5. DOMAIN calls' = Callers /\ \A d \in Callers : CallInv(calls'[d])
  <2> HIDE DEF call
  <2> QED BY <1>3, <1>4, CallStep DEF Step
<1> QED BY <1>1, <1>2, <1>5, OutsideStep

LEMMA ReadQuoteIndexStep ==
  ASSUME DepositInv, NEW c \in Callers, NEW s \in Spellings, ReadQuoteIndex(c, s)
  PROVE  DepositInv'
<1>1. UNCHANGED <<addresses, drips, orders, payments, blocks, scanVars>>
  BY DEF ReadQuoteIndex
<1>2. TablesInv' /\ CreditInv' /\ Kept
  BY <1>1, SameTables DEF scanVars, DepositInv, TablesInv
<1> DEFINE call == [pc |-> "quote", owner |-> s, index |-> MaxDeposit + 1]
<1>3. CallInv(call)
  BY NextIndex DEF DepositInv, CallInv
<1>4. Step(c, call)
  BY DEF ReadQuoteIndex
<1>5. DOMAIN calls' = Callers /\ \A d \in Callers : CallInv(calls'[d])
  <2> HIDE DEF call
  <2> QED BY <1>3, <1>4, CallStep DEF Step
<1> QED BY <1>1, <1>2, <1>5, OutsideStep

(* Tables that only grow keep their types.                                 *)
LEMMA TablesLater ==
  ASSUME TablesInv, Kept, UNCHANGED <<payments, blocks>>,
         IsFiniteSet(addresses'), addresses' \subseteq [owner : Spellings, index : Nat],
         drips' \in [Spellings -> Statuses], orders' \in Seq(Order)
  PROVE  TablesInv'
<1>1. payments' \in Seq(Given')
  <2>1. Given \subseteq Given' /\ payments \in Seq(Given)
    BY GivenKept DEF TablesInv
  <2> QED BY <2>1, SeqMonotonic
<1>2. blocks' \in Seq(SUBSET DOMAIN payments')
  BY DEF TablesInv
<1> QED BY <1>1, <1>2 DEF TablesInv

LEMMA InsertAddressStep ==
  ASSUME DepositInv, NEW c \in Callers, InsertAddress(c)
  PROVE  DepositInv'
<1>1. UNCHANGED <<orders, payments, blocks, scanVars>>
  BY DEF InsertAddress
<1>2. TablesInv
  BY DEF DepositInv
<1>3. calls[c].owner \in Spellings /\ calls[c].status \in Statuses /\ calls[c].index \in Nat
  <2>1. CallInv(calls[c]) /\ calls[c].pc = "insert"
    BY DEF DepositInv, InsertAddress
  <2> QED BY <2>1, AddressAssumption DEF CallInv, Statuses
<1>4. addresses' = addresses \/ addresses' = addresses \cup
                                   {[owner |-> calls[c].owner, index |-> calls[c].index]}
  BY DEF InsertAddress
<1>5. /\ addresses \subseteq addresses' /\ IsFiniteSet(addresses')
      /\ addresses' \subseteq [owner : Spellings, index : Nat]
  <2>1. IsFiniteSet(addresses) /\ addresses \subseteq [owner : Spellings, index : Nat]
    BY <1>2 DEF TablesInv
  <2>2. CASE addresses' = addresses
    BY <2>1, <2>2
  <2> DEFINE new == [owner |-> calls[c].owner, index |-> calls[c].index]
  <2>3. CASE addresses' = addresses \cup {new}
    <3>1. new \in [owner : Spellings, index : Nat]
      BY <1>3
    <3> HIDE DEF new
    <3> QED BY <2>1, <2>3, <3>1, FS_AddElement
  <2> QED BY <1>4, <2>2, <2>3
<1>6. drips' \in [Spellings -> Statuses]
  BY <1>2, <1>3 DEF InsertAddress, TablesInv
<1>7. Kept
  BY <1>1, <1>2, <1>5, TableFacts DEF Kept, scanVars, DepositInv
<1>8. TablesInv'
  BY <1>1, <1>2, <1>5, <1>6, <1>7, TablesLater DEF TablesInv
<1>9. CreditInv'
  BY <1>1, <1>5 DEF DepositInv, CreditInv, Paid, Owns
<1>10. DOMAIN calls' = Callers /\ \A d \in Callers : CallInv(calls'[d])
  <2>1. CallInv(Idle) /\ Step(c, Idle)
    BY DEF CallInv, Idle, InsertAddress
  <2> QED BY <2>1, CallStep
<1> QED BY <1>1, <1>7, <1>8, <1>9, <1>10, OutsideStep

(* An order is added, not yet paid or for a payment that nobody credited.  *)
LEMMA NewOrder ==
  ASSUME DepositInv, NEW new \in Order, orders' = Append(orders, new),
         UNCHANGED <<addresses, drips, payments, blocks, errors>>,
         new.payment # 0 =>
           /\ new.payment \in DOMAIN payments /\ new.index = payments[new.payment]
           /\ Owns(new.owner, new.index) /\ ~IdTaken(new.payment, new.owner)
  PROVE  /\ TablesInv' /\ CreditInv' /\ Kept
         /\ \E o \in DOMAIN orders' : orders'[o] = new
<1>1. TablesInv /\ CreditInv /\ errors \in Nat
  BY DEF DepositInv
<1> DEFINE n == Len(orders) + 1
<1>2. /\ orders' \in Seq(Order) /\ n \in DOMAIN orders' /\ orders'[n] = new
      /\ \A o \in DOMAIN orders : o \in DOMAIN orders' /\ orders'[o] = orders[o]
      /\ \A o \in DOMAIN orders' : o \in DOMAIN orders \/ o = n
  <2>1. orders \in Seq(Order) /\ Len(orders) \in Nat /\ DOMAIN orders = 1 .. Len(orders)
    BY <1>1, TableFacts DEF TablesInv
  <2>2. /\ orders' \in Seq(Order) /\ Len(orders') = Len(orders) + 1
        /\ \A o \in 1 .. Len(orders) : orders'[o] = orders[o]
        /\ orders'[Len(orders) + 1] = new
    BY <2>1, AppendProperties
  <2>3. DOMAIN orders' = 1 .. Len(orders) + 1
    BY <2>2, LenProperties
  <2> QED BY <2>1, <2>2, <2>3
<1> HIDE DEF n
<1>3. Kept
  BY <1>1, <1>2, TableFacts DEF Kept
<1>4. TablesInv'
  BY <1>1, <1>2, <1>3, TablesLater DEF TablesInv
<1>5. CreditInv'
  <2>1. ASSUME NEW o \in DOMAIN orders', orders'[o].payment # 0
        PROVE  /\ orders'[o].payment \in DOMAIN payments /\ orders'[o].index = payments[orders'[o].payment]
               /\ (orders[o].quoted \/ Owns(orders[o].owner, orders[o].index))'
    <3>1. SUFFICES ASSUME NEW row, row = orders'[o]
                   PROVE  /\ row.payment \in DOMAIN payments /\ row.index = payments[row.payment]
                          /\ row.quoted \/ Owns(row.owner, row.index)'
      OBVIOUS
    <3>2. Owns(row.owner, row.index)' <=> Owns(row.owner, row.index)
      BY DEF Owns
    <3>3. CASE o = n
      BY <1>2, <2>1, <3>1, <3>2, <3>3
    <3>4. CASE o \in DOMAIN orders
      BY <1>1, <1>2, <2>1, <3>1, <3>2, <3>4 DEF CreditInv, Paid
    <3> QED BY <1>2, <3>3, <3>4
  <2>2. ASSUME NEW o \in DOMAIN orders', NEW q \in DOMAIN orders',
               orders'[o].payment # 0, orders'[q].payment # 0,
               DepositId(orders'[o].payment, orders'[o].owner) = DepositId(orders'[q].payment, orders'[q].owner)
        PROVE  o = q
    <3>1. CASE o \in DOMAIN orders /\ q \in DOMAIN orders
      BY <1>1, <1>2, <2>2, <3>1 DEF CreditInv, Paid
    <3>2. CASE o = n /\ q \in DOMAIN orders
      BY <1>2, <2>2, <3>2 DEF IdTaken
    <3>3. CASE o \in DOMAIN orders /\ q = n
      BY <1>2, <2>2, <3>3 DEF IdTaken
    <3> QED BY <1>2, <3>1, <3>2, <3>3
  <2> QED BY <2>1, <2>2 DEF CreditInv, Paid, DepositId
<1> QED BY <1>2, <1>3, <1>4, <1>5

LEMMA InsertQuoteStep ==
  ASSUME DepositInv, NEW c \in Callers, InsertQuote(c)
  PROVE  DepositInv'
<1>1. UNCHANGED <<addresses, drips, payments, blocks, scanVars>>
  BY DEF InsertQuote
<1>2. PICK new : new = [owner |-> calls[c].owner, index |-> calls[c].index, quoted |-> TRUE, payment |-> 0]
  OBVIOUS
<1>3. new \in Order /\ new.payment = 0 /\ orders' = Append(orders, new)
  <2>1. CallInv(calls[c]) /\ calls[c].pc = "quote"
    BY DEF DepositInv, InsertQuote
  <2>2. calls[c].owner \in Spellings /\ calls[c].index \in Nat
    BY <2>1 DEF CallInv
  <2>3. orders' = Append(orders, new)
    BY <1>2 DEF InsertQuote
  <2> QED BY <1>2, <2>2, <2>3 DEF Order
<1>4. TablesInv' /\ CreditInv' /\ Kept
  BY <1>1, <1>3, NewOrder DEF scanVars
<1>5. DOMAIN calls' = Callers /\ \A d \in Callers : CallInv(calls'[d])
  <2>1. CallInv(Idle) /\ Step(c, Idle)
    BY DEF CallInv, Idle, InsertQuote
  <2> QED BY <2>1, CallStep
<1> QED BY <1>1, <1>4, <1>5, OutsideStep

(* The chain grows by a block with new payments to addresses given.        *)
LEMMA MineBlockStep ==
  ASSUME DepositInv, NEW k \in Nat, NEW paid \in [1 .. k -> Given], MineBlock(paid)
  PROVE  DepositInv'
<1>1. UNCHANGED <<apiVars, orders, scanVars>> /\ payments' = payments \o paid
  BY DEF MineBlock
<1>2. TablesInv /\ CreditInv /\ errors \in Nat
  BY DEF DepositInv
<1>3. Given' = Given
  BY <1>1 DEF Given, Quotes, apiVars
<1>4. /\ payments' \in Seq(Given) /\ DOMAIN payments \subseteq DOMAIN payments'
      /\ \A p \in DOMAIN payments : payments'[p] = payments[p]
  <2>1. paid \in Seq(Given) /\ payments \in Seq(Given)
    BY <1>2 DEF TablesInv
  <2>2. DOMAIN payments = 1 .. Len(payments) /\ Len(payments) \in Nat /\ Len(paid) \in Nat
    BY <2>1, LenProperties
  <2>3. /\ payments' \in Seq(Given) /\ Len(payments') = Len(payments) + Len(paid)
        /\ \A i \in 1 .. Len(payments) + Len(paid) :
             payments'[i] = IF i <= Len(payments) THEN payments[i] ELSE paid[i - Len(payments)]
    BY <1>1, <2>1, ConcatProperties
  <2>4. DOMAIN payments' = 1 .. Len(payments) + Len(paid)
    BY <2>3, LenProperties
  <2> QED BY <2>2, <2>3, <2>4
<1>5. PICK mined : mined = DOMAIN payments' \ DOMAIN payments
  OBVIOUS
<1>6. /\ blocks' \in Seq(SUBSET DOMAIN payments') /\ DOMAIN blocks \subseteq DOMAIN blocks'
      /\ \A b \in DOMAIN blocks : blocks'[b] = blocks[b]
      /\ Len(blocks') = Len(blocks) + 1 /\ Len(blocks) \in Nat
  <2>1. blocks \in Seq(SUBSET DOMAIN payments')
    <3>1. SUBSET DOMAIN payments \subseteq SUBSET DOMAIN payments' /\ blocks \in Seq(SUBSET DOMAIN payments)
      BY <1>2, <1>4 DEF TablesInv
    <3> QED BY <3>1, SeqMonotonic
  <2>2. mined \in SUBSET DOMAIN payments' /\ blocks' = Append(blocks, mined)
    BY <1>5 DEF MineBlock
  <2>3. /\ blocks' \in Seq(SUBSET DOMAIN payments') /\ Len(blocks') = Len(blocks) + 1
        /\ \A i \in 1 .. Len(blocks) : blocks'[i] = blocks[i]
    BY <2>1, <2>2, AppendProperties
  <2>4. /\ DOMAIN blocks = 1 .. Len(blocks) /\ Len(blocks) \in Nat
        /\ DOMAIN blocks' = 1 .. Len(blocks) + 1
    BY <2>1, <2>3, LenProperties
  <2> QED BY <2>3, <2>4
<1>7. TablesInv'
  BY <1>1, <1>2, <1>3, <1>4, <1>6 DEF TablesInv, apiVars
<1>8. Kept
  BY <1>1, <1>2, <1>4, <1>6 DEF Kept, apiVars, scanVars
<1>9. CreditInv'
  <2>1. \A s, n : Owns(s, n)' <=> Owns(s, n)
    BY <1>1 DEF Owns, apiVars
  <2>2. orders' = orders
    BY <1>1
  <2> QED BY <1>2, <1>4, <2>1, <2>2 DEF CreditInv, Paid
<1>10. DOMAIN calls' = Callers /\ \A c \in Callers : CallInv(calls'[c])
  BY <1>1 DEF DepositInv, apiVars
<1> QED BY <1>1, <1>7, <1>8, <1>9, <1>10, OutsideStep

-------------------------------------------------------------------------------
(* The watchers.                                                           *)

(* A step of a watcher that writes no order.                               *)
LEMMA Reading ==
  ASSUME DepositInv, UNCHANGED <<apiVars, orders, payments, blocks>>,
         errors' \in Nat, errors <= errors'
  PROVE  /\ TablesInv' /\ CreditInv' /\ Kept /\ UNCHANGED calls
         /\ \A p : Covered(p)' <=> Covered(p)
         /\ \A s, n : Owns(s, n)' <=> Owns(s, n)
         /\ Quotes' = Quotes /\ Indices' = Indices /\ Given' = Given
         /\ (Blamed => Blamed') /\ (errors' > 0 => Blamed')
<1>1. TablesInv'
  BY DEF DepositInv, TablesInv, Given, Quotes, apiVars
<1>2. CreditInv'
  BY DEF DepositInv, CreditInv, Paid, Owns, apiVars
<1>3. Len(blocks) \in Nat
  BY TableFacts DEF DepositInv
<1>4. Kept
  BY <1>3 DEF DepositInv, Kept, apiVars
<1>5. /\ UNCHANGED calls /\ Quotes' = Quotes /\ Indices' = Indices
      /\ \A p : Covered(p)' <=> Covered(p)
      /\ \A s, n : Owns(s, n)' <=> Owns(s, n)
  BY DEF apiVars, Quotes, Indices, Covered, Recorded, Owns
<1>6. Given' = Given
  BY <1>5 DEF Given, apiVars
<1>7. errors' > 0 => Blamed'
  BY DEF Blamed
<1> QED BY <1>1, <1>2, <1>4, <1>5, <1>6, <1>7, BlamedKept DEF DepositInv

(* The next payment of a block is one of those left.                       *)
LEMMA NextOf ==
  ASSUME DepositInv, NEW v \in Watchers, scan[v].pc # "idle", scan[v].todo # {}
  PROVE  /\ Min(scan[v].todo) \in scan[v].todo /\ Min(scan[v].todo) \in DOMAIN payments
         /\ Min(scan[v].todo) # 0
<1>1. scan[v].block \in DOMAIN blocks /\ scan[v].todo \subseteq blocks[scan[v].block]
  BY DEF DepositInv, PassInv, TodoInv
<1>2. scan[v].todo \in SUBSET Nat /\ scan[v].todo \subseteq DOMAIN payments
  BY <1>1, TableFacts DEF DepositInv
<1>3. Min(scan[v].todo) \in scan[v].todo
  BY <1>2, MinOf
<1> QED BY <1>2, <1>3, TableFacts DEF DepositInv

(* A pass goes on to its next payment: the one done is covered, or somebody *)
(* is to blame.                                                            *)
LEMMA Matched ==
  ASSUME NEW s, NEW m, NEW c, PassInv(s, m, c)', s.pc # "idle", NEW p \in s.todo,
         NEW t, DOMAIN t = DOMAIN s, t.todo = s.todo \ {p}, t.block = s.block, t.complete \in BOOLEAN,
         t.pc = IF s.pc = "ingest" THEN "tracked" ELSE s.pc,
         s.pc = "first" => t.quote = s.quote,
         s.pc # "first" => t.owner = s.owner,
         t.complete => s.complete /\ Covered(p)',
         ~t.complete => ~s.complete \/ Blamed'
  PROVE  PassInv(t, m, c)'
<1>1. TodoInv(s, m.pos)' /\ DoneInv(s)' /\ CursorInv(m, c)' /\ (~s.complete => Blamed')
  BY DEF PassInv
<1>2. s.pc \in {"first", "tracked", "ingest"}
  BY <1>1 DEF TodoInv
<1>3. t.pc \in {"first", "tracked"} /\ (t.pc = "first" <=> s.pc = "first")
  BY <1>2
<1>4. TodoInv(t, m.pos)'
  <2>1. t.block = m.pos + 1 /\ t.block \in DOMAIN blocks' /\ t.todo \subseteq blocks'[t.block]
    BY <1>1 DEF TodoInv
  <2>2. t.pc = "first" => DOMAIN t = {"pc", "block", "todo", "quote", "complete"}
    BY <1>1, <1>3 DEF TodoInv
  <2>3. t.pc = "tracked" => DOMAIN t = {"pc", "block", "todo", "owner", "complete"}
    BY <1>1, <1>2, <1>3 DEF TodoInv
  <2>4. ASSUME t.pc = "first", NEW q \in t.todo
        PROVE  (t.quote[payments[q]] \in Quotes /\ orders[t.quote[payments[q]]].index = payments[q])'
    BY <1>1, <1>3, <2>4 DEF TodoInv
  <2>5. ASSUME t.pc = "tracked", NEW q \in t.todo
        PROVE  Owns(t.owner[payments[q]], payments[q])'
    <3>1. \A r \in s.todo : Owns(s.owner[payments[r]], payments[r])'
      BY <1>1, <1>2, <1>3, <2>5 DEF TodoInv
    <3>2. t.owner = s.owner /\ q \in s.todo
      BY <1>3, <2>5
    <3> QED BY <3>1, <3>2
  <2> QED BY <1>3, <2>1, <2>2, <2>3, <2>4, <2>5 DEF TodoInv
<1>5. DoneInv(t)'
  <2>1. SUFFICES ASSUME t.complete, NEW q \in blocks'[t.block]
                 PROVE  q \in t.todo \/ Covered(q)' \/ (t.pc = "first" /\ payments'[q] \in Indices')
    BY DEF DoneInv
  <2>2. q \in s.todo \/ Covered(q)' \/ (s.pc = "first" /\ payments'[q] \in Indices')
    BY <1>1, <2>1 DEF DoneInv
  <2> QED BY <1>3, <2>1, <2>2
<1> QED BY <1>1, <1>4, <1>5 DEF PassInv

LEMMA StartBlockStep ==
  ASSUME DepositInv, NEW v \in Watchers, StartBlock(v)
  PROVE  DepositInv'
<1>1. UNCHANGED <<apiVars, orders, payments, blocks, mem, cursor, errors>>
  BY DEF StartBlock
<1>2. PassInv(scan[v], mem[v], cursor[v]) /\ mem[v] \in [pos : Nat, held : BOOLEAN]
      /\ cursor[v] \in Nat /\ errors \in Nat
  BY DEF DepositInv
<1>3. /\ TablesInv' /\ CreditInv' /\ Kept /\ UNCHANGED calls
      /\ \A p : Covered(p)' <=> Covered(p)
      /\ Quotes' = Quotes /\ Indices' = Indices
  BY <1>1, <1>2, Reading
<1> DEFINE b == mem[v].pos + 1
           todo == Matches(b, {n \in Given : PendingAt(n) # {}})
<1>4. PICK quote \in [{payments[p] : p \in todo} -> Quotes] :
        /\ \A n \in DOMAIN quote : quote[n] \in PendingAt(n)
        /\ scan' = [scan EXCEPT ![v] = [pc |-> "first", block |-> b, todo |-> todo,
                                        quote |-> quote, complete |-> TRUE]]
  BY DEF StartBlock
<1>5. b \in DOMAIN blocks /\ todo \subseteq blocks[b]
  <2>1. mem[v].pos \in Nat /\ mem[v].pos < Len(blocks)
    BY <1>2 DEF StartBlock
  <2> QED BY <2>1, TableFacts DEF DepositInv, Matches
<1>6. \A p \in todo : quote[payments[p]] \in Quotes /\ orders[quote[payments[p]]].index = payments[p]
  <2> HIDE DEF todo
  <2> QED BY <1>4 DEF PendingAt
<1>7. \A p \in blocks[b] : p \in todo \/ Covered(p) \/ payments[p] \in Indices
  <2>1. SUFFICES ASSUME NEW p \in blocks[b], p \notin todo, payments[p] \notin Indices
                 PROVE  Covered(p)
    OBVIOUS
  <2>2. payments[p] \in Given
    BY <1>5, TableFacts DEF DepositInv
  <2>3. PendingAt(payments[p]) = {}
    BY <2>1, <2>2 DEF Matches
  <2>4. PICK o \in Quotes : orders[o].index = payments[p]
    BY <2>1, <2>2 DEF Given, Indices
  <2> QED BY <2>3, <2>4 DEF PendingAt, Covered
<1>8. PICK s, m, c : /\ s = [pc |-> "first", block |-> b, todo |-> todo, quote |-> quote, complete |-> TRUE]
                     /\ m = mem[v] /\ c = cursor[v]
  OBVIOUS
<1>9. /\ s.pc = "first" /\ s.block = m.pos + 1 /\ s.block = b /\ s.todo = todo /\ s.quote = quote /\ s.complete
      /\ s.complete \in BOOLEAN /\ DOMAIN s = {"pc", "block", "todo", "quote", "complete"}
  BY <1>8
<1> HIDE DEF b, todo
<1>10. PassInv(scan[v], m, c) /\ TablesInv
  BY <1>2, <1>8 DEF DepositInv
<1>11. CursorInv(m, c)'
  <2>1. SUFFICES ASSUME NEW old, old = scan[v] PROVE CursorInv(m, c)'
    OBVIOUS
  <2>2. PassInv(old, m, c)'
    BY <1>3, <1>10, <2>1, PassKept
  <2> QED BY <2>2 DEF PassInv
<1>12. payments' = payments /\ blocks' = blocks /\ orders' = orders
  BY <1>1
<1>13. TodoInv(s, m.pos)'
  BY <1>3, <1>5, <1>6, <1>9, <1>12 DEF TodoInv
<1>14. DoneInv(s)'
  BY <1>3, <1>7, <1>9, <1>12 DEF DoneInv
<1>15. PassInv(s, m, c)'
  BY <1>9, <1>11, <1>13, <1>14 DEF PassInv
<1>16. scan' = [scan EXCEPT ![v] = s] /\ mem' = [mem EXCEPT ![v] = m] /\ cursor' = [cursor EXCEPT ![v] = c]
  BY <1>1, <1>4, <1>8 DEF DepositInv
<1> QED BY <1>2, <1>3, <1>8, <1>15, <1>16, WatcherStep

(* The watcher goes on to its next payment.                                *)
LEMMA MatchStep ==
  ASSUME DepositInv, TablesInv', CreditInv', Kept, UNCHANGED <<calls, mem, cursor>>,
         NEW v \in Watchers, scan[v].pc # "idle", NEW p \in scan[v].todo,
         NEW t, scan' = [scan EXCEPT ![v] = t], DOMAIN t = DOMAIN scan[v],
         t.todo = scan[v].todo \ {p}, t.block = scan[v].block, t.complete \in BOOLEAN,
         t.pc = IF scan[v].pc = "ingest" THEN "tracked" ELSE scan[v].pc,
         scan[v].pc = "first" => t.quote = scan[v].quote,
         scan[v].pc # "first" => t.owner = scan[v].owner,
         t.complete => scan[v].complete /\ Covered(p)',
         ~t.complete => ~scan[v].complete \/ Blamed'
  PROVE  DepositInv'
<1>1. PassInv(scan[v], mem[v], cursor[v]) /\ mem[v] \in [pos : Nat, held : BOOLEAN] /\ cursor[v] \in Nat
  BY DEF DepositInv
<1>2. PICK s, m, c : s = scan[v] /\ m = mem[v] /\ c = cursor[v]
  OBVIOUS
<1>3. PassInv(s, m, c)'
  BY <1>1, <1>2, PassKept DEF DepositInv
<1>4. PassInv(t, m, c)'
  BY <1>2, <1>3, Matched
<1>5. mem' = [mem EXCEPT ![v] = m] /\ cursor' = [cursor EXCEPT ![v] = c]
  BY <1>2 DEF DepositInv
<1> QED BY <1>1, <1>2, <1>4, <1>5, WatcherStep

(* What a watcher is at, and what of its record a step may rely on.        *)
LEMMA AtWork ==
  ASSUME DepositInv, NEW v \in Watchers, scan[v].pc # "idle"
  PROVE  /\ scan[v].complete \in BOOLEAN /\ scan[v].block \in DOMAIN blocks
         /\ scan[v].block = mem[v].pos + 1 /\ scan[v].todo \subseteq blocks[scan[v].block]
         /\ scan[v].pc = "first" => DOMAIN scan[v] = {"pc", "block", "todo", "quote", "complete"}
         /\ scan[v].pc # "first" => DOMAIN scan[v] = {"pc", "block", "todo", "owner", "complete"}
         /\ ~scan[v].complete => Blamed
         /\ scan[v].pc = "ingest" => scan[v].todo # {}
         /\ scan[v].pc \in {"first", "tracked", "ingest"}
<1>1. PassInv(scan[v], mem[v], cursor[v])
  BY DEF DepositInv
<1> QED BY <1>1 DEF PassInv, TodoInv

LEMMA RecordFailsStep ==
  ASSUME DepositInv, NEW v \in Watchers, RecordFails(v)
  PROVE  DepositInv'
<1>1. UNCHANGED <<apiVars, orders, payments, blocks, mem, cursor>> /\ errors' = errors + 1
  BY DEF RecordFails
<1>2. errors \in Nat /\ errors' \in Nat /\ errors <= errors' /\ errors' > 0
  BY <1>1 DEF DepositInv
<1>3. TablesInv' /\ CreditInv' /\ Kept /\ UNCHANGED calls /\ Blamed'
  BY <1>1, <1>2, Reading
<1>4. scan[v].pc \in {"first", "ingest"} /\ scan[v].pc # "idle" /\ scan[v].todo # {}
  BY AtWork DEF RecordFails
<1>5. PICK p : p = Min(scan[v].todo)
  OBVIOUS
<1>6. p \in scan[v].todo
  BY <1>4, <1>5, NextOf
<1>7. PICK t : t = [scan[v] EXCEPT !.pc = IF scan[v].pc = "ingest" THEN "tracked" ELSE scan[v].pc,
                                   !.todo = scan[v].todo \ {p}, !.complete = FALSE]
  OBVIOUS
<1>8. /\ DOMAIN t = DOMAIN scan[v] /\ t.todo = scan[v].todo \ {p} /\ t.block = scan[v].block
      /\ t.complete = FALSE /\ t.pc = (IF scan[v].pc = "ingest" THEN "tracked" ELSE scan[v].pc)
      /\ scan[v].pc = "first" => t.quote = scan[v].quote
      /\ scan[v].pc # "first" => t.owner = scan[v].owner
  BY <1>4, <1>7, AtWork
<1>9. scan' = [scan EXCEPT ![v] = t]
  BY <1>5, <1>7 DEF RecordFails, DepositInv
<1> QED BY <1>1, <1>3, <1>4, <1>6, <1>8, <1>9, MatchStep DEF apiVars

LEMMA CheckRecordedStep ==
  ASSUME DepositInv, NEW v \in Watchers, CheckRecorded(v)
  PROVE  DepositInv'
<1>1. UNCHANGED <<apiVars, orders, payments, blocks, mem, cursor, errors>>
  BY DEF CheckRecorded
<1>2. /\ TablesInv' /\ CreditInv' /\ Kept /\ UNCHANGED calls
      /\ \A p : Covered(p)' <=> Covered(p)
  BY <1>1, Reading DEF DepositInv
<1>3. scan[v].pc = "tracked" /\ scan[v].todo # {}
  BY DEF CheckRecorded
<1>4. PICK p : p = Min(scan[v].todo)
  OBVIOUS
<1>5. p \in scan[v].todo
  BY <1>3, <1>4, NextOf
<1>6. CASE Recorded(p)
  <2>1. PICK t : t = [scan[v] EXCEPT !.todo = scan[v].todo \ {p}]
    OBVIOUS
  <2>2. /\ DOMAIN t = DOMAIN scan[v] /\ t.todo = scan[v].todo \ {p} /\ t.block = scan[v].block
        /\ t.complete = scan[v].complete /\ t.pc = "tracked" /\ t.owner = scan[v].owner
    BY <1>3, <2>1, AtWork
  <2>3. scan' = [scan EXCEPT ![v] = t]
    <3>1. scan' = [scan EXCEPT ![v].todo = scan[v].todo \ {p}, ![v].complete = scan[v].complete /\ TRUE]
      BY <1>4, <1>6 DEF CheckRecorded, Match
    <3>2. [scan[v] EXCEPT !.todo = scan[v].todo \ {p}, !.complete = scan[v].complete /\ TRUE] = t
      BY <1>3, <2>1, AtWork
    <3> QED BY <3>1, <3>2 DEF DepositInv
  <2>4. Covered(p)'
    BY <1>2, <1>6 DEF Covered
  <2>5. /\ t.complete \in BOOLEAN /\ (t.complete => scan[v].complete /\ Covered(p)')
        /\ ~t.complete => ~scan[v].complete
    BY <1>3, <2>2, <2>4, AtWork
  <2> QED BY <1>1, <1>2, <1>3, <1>5, <2>2, <2>3, <2>5, MatchStep DEF apiVars
<1>7. CASE ~Recorded(p)
  <2>1. PICK s, t, m, c : /\ s = scan[v] /\ t = [s EXCEPT !.pc = "ingest"]
                          /\ m = mem[v] /\ c = cursor[v]
    OBVIOUS
  <2>2. /\ DOMAIN t = DOMAIN s /\ t.pc = "ingest" /\ t.block = s.block /\ t.todo = s.todo
        /\ t.owner = s.owner /\ t.complete = s.complete /\ s.pc = "tracked" /\ s.todo # {}
    BY <1>3, <2>1, AtWork
  <2>3. PassInv(s, m, c)'
    BY <1>2, <2>1, PassKept DEF DepositInv
  <2>4. PassInv(t, m, c)'
    <3>1. TodoInv(t, m.pos)' /\ DoneInv(t)'
      BY <2>2, <2>3 DEF PassInv, TodoInv, DoneInv
    <3> QED BY <2>2, <2>3, <3>1 DEF PassInv
  <2>5. scan' = [scan EXCEPT ![v] = t] /\ mem' = [mem EXCEPT ![v] = m] /\ cursor' = [cursor EXCEPT ![v] = c]
    BY <1>1, <1>4, <1>7, <2>1 DEF CheckRecorded, DepositInv
  <2> QED BY <1>2, <2>1, <2>4, <2>5, WatcherStep DEF DepositInv
<1> QED BY <1>6, <1>7

LEMMA ReadTrackedStep ==
  ASSUME DepositInv, NEW v \in Watchers, ReadTracked(v)
  PROVE  DepositInv'
<1>1. UNCHANGED <<apiVars, orders, payments, blocks, mem, cursor, errors>>
  BY DEF ReadTracked
<1>2. /\ TablesInv' /\ CreditInv' /\ Kept /\ UNCHANGED calls
      /\ \A p : Covered(p)' <=> Covered(p)
      /\ \A s, n : Owns(s, n)' <=> Owns(s, n)
  BY <1>1, Reading DEF DepositInv
<1>3. scan[v].pc = "first" /\ scan[v].todo = {}
  BY DEF ReadTracked
<1> DEFINE todo == Matches(scan[v].block, Indices)
           owner == [n \in {payments[p] : p \in todo} |-> (CHOOSE a \in addresses : a.index = n).owner]
           read == [pc |-> "tracked", block |-> scan[v].block, complete |-> scan[v].complete,
                    todo |-> todo, owner |-> owner]
<1>4. PICK s, t, m, c : s = scan[v] /\ t = read /\ m = mem[v] /\ c = cursor[v]
  OBVIOUS
<1>5. /\ DOMAIN t = {"pc", "block", "todo", "owner", "complete"} /\ t.pc = "tracked"
      /\ t.block = s.block /\ t.todo = todo /\ t.owner = owner /\ t.complete = s.complete
  BY <1>4
<1>6. scan' = [scan EXCEPT ![v] = t]
  BY <1>4 DEF ReadTracked, Indices
<1>7. \A p \in todo : Owns(owner[payments[p]], payments[p])
  <2>1. SUFFICES ASSUME NEW p \in todo PROVE Owns(owner[payments[p]], payments[p])
    OBVIOUS
  <2>2. PICK a \in addresses : a.index = payments[p]
    BY DEF Matches, Indices
  <2>3. owner[payments[p]] = (CHOOSE a1 \in addresses : a1.index = payments[p]).owner
    <3> HIDE DEF todo
    <3> QED OBVIOUS
  <2> HIDE DEF owner, todo
  <2> QED BY <2>2, <2>3 DEF Owns
<1> HIDE DEF todo, owner, read
<1>8. PassInv(s, m, c)'
  BY <1>2, <1>4, PassKept DEF DepositInv
<1>9. TodoInv(s, m.pos)' /\ DoneInv(s)' /\ CursorInv(m, c)' /\ (~s.complete => Blamed')
  BY <1>3, <1>4, <1>8 DEF PassInv
<1>10. todo = {p \in blocks[s.block] : payments[p] \in Indices}
  BY <1>4 DEF todo, Matches
<1>11. TodoInv(t, m.pos)'
  <2>1. t.block = m.pos + 1 /\ t.block \in DOMAIN blocks' /\ t.complete \in BOOLEAN
    BY <1>3, <1>4, <1>5, <1>9 DEF TodoInv
  <2>2. t.todo \subseteq blocks'[t.block]
    BY <1>1, <1>5, <1>10
  <2>3. \A p \in t.todo : Owns(t.owner[payments[p]], payments[p])'
    <3>1. SUFFICES ASSUME NEW p \in t.todo PROVE Owns(t.owner[payments[p]], payments[p])'
      OBVIOUS
    <3>2. SUFFICES ASSUME NEW n, n = payments[p] PROVE Owns(t.owner[n], n)'
      BY <1>1
    <3> QED BY <1>2, <1>5, <1>7, <3>1, <3>2
  <2> QED BY <1>5, <2>1, <2>2, <2>3 DEF TodoInv
<1>12. DoneInv(t)'
  <2>1. SUFFICES ASSUME t.complete, NEW p \in blocks'[t.block], p \notin t.todo
                 PROVE  Covered(p)'
    BY DEF DoneInv
  <2>2. p \in blocks[s.block] /\ payments[p] \notin Indices
    BY <1>1, <1>5, <1>10, <2>1
  <2>3. Covered(p)' \/ payments'[p] \in Indices'
    BY <1>3, <1>4, <1>5, <1>9, <2>1 DEF DoneInv
  <2>4. Indices' = Indices
    BY <1>1 DEF Indices, apiVars
  <2> QED BY <1>1, <2>2, <2>3, <2>4
<1>13. PassInv(t, m, c)'
  BY <1>5, <1>9, <1>11, <1>12 DEF PassInv
<1>14. mem' = [mem EXCEPT ![v] = m] /\ cursor' = [cursor EXCEPT ![v] = c]
  BY <1>1, <1>4 DEF DepositInv
<1> QED BY <1>2, <1>4, <1>6, <1>13, <1>14, WatcherStep DEF DepositInv

(* The quote takes the payment.                                            *)
LEMMA QuotePaid ==
  ASSUME DepositInv, UNCHANGED <<apiVars, payments, blocks, errors>>,
         NEW o \in Quotes, NEW p \in DOMAIN payments,
         orders[o].payment = 0, orders[o].index = payments[p], ~IdTaken(p, orders[o].owner),
         orders' = [orders EXCEPT ![o].payment = p]
  PROVE  TablesInv' /\ CreditInv' /\ Kept /\ Covered(p)'
<1>1. TablesInv /\ CreditInv /\ errors \in Nat
  BY DEF DepositInv
<1>2. o \in DOMAIN orders /\ orders[o] \in Order /\ orders[o].quoted /\ p \in Nat \ {0}
      /\ DOMAIN orders = 1 .. Len(orders) /\ Len(blocks) \in Nat
  BY <1>1, TableFacts DEF Quotes
<1>3. PICK row : row = [orders[o] EXCEPT !.payment = p]
  OBVIOUS
<1>4. /\ row \in Order /\ row.payment = p /\ row.index = orders[o].index
      /\ row.owner = orders[o].owner /\ row.quoted = orders[o].quoted
  BY <1>2, <1>3 DEF Order
<1>5. orders' = [orders EXCEPT ![o] = row]
  BY <1>3
<1>6. /\ orders' \in Seq(Order) /\ DOMAIN orders' = DOMAIN orders /\ orders'[o] = row
      /\ \A q \in DOMAIN orders : q # o => orders'[q] = orders[q]
  <2>1. orders \in Seq(Order)
    BY <1>1 DEF TablesInv
  <2>2. [orders EXCEPT ![o] = row] \in Seq(Order)
    BY <1>2, <1>4, <2>1, ExceptSeq
  <2> QED BY <1>2, <1>5, <2>2
<1>7. Kept
  BY <1>1, <1>2, <1>4, <1>6 DEF Kept, apiVars
<1>8. TablesInv'
  BY <1>1, <1>6, <1>7, TablesLater DEF TablesInv, apiVars
<1>9. CreditInv'
  <2>1. ASSUME NEW q \in DOMAIN orders', orders'[q].payment # 0
        PROVE  /\ orders'[q].payment \in DOMAIN payments /\ orders'[q].index = payments[orders'[q].payment]
               /\ (orders[q].quoted \/ Owns(orders[q].owner, orders[q].index))'
    <3>1. SUFFICES ASSUME NEW r, r = orders'[q]
                   PROVE  /\ r.payment \in DOMAIN payments /\ r.index = payments[r.payment]
                          /\ r.quoted \/ Owns(r.owner, r.index)'
      OBVIOUS
    <3>2. Owns(r.owner, r.index)' <=> Owns(r.owner, r.index)
      BY DEF Owns, apiVars
    <3>3. CASE q = o
      BY <1>2, <1>4, <1>6, <3>1, <3>3
    <3>4. CASE q # o
      BY <1>1, <1>6, <2>1, <3>1, <3>2, <3>4 DEF CreditInv, Paid
    <3> QED BY <3>3, <3>4
  <2>2. ASSUME NEW q \in DOMAIN orders', NEW r \in DOMAIN orders',
               orders'[q].payment # 0, orders'[r].payment # 0,
               DepositId(orders'[q].payment, orders'[q].owner) = DepositId(orders'[r].payment, orders'[r].owner)
        PROVE  q = r
    <3>1. CASE q # o /\ r # o
      BY <1>1, <1>6, <2>2, <3>1 DEF CreditInv, Paid
    <3>2. CASE q = o /\ r # o
      BY <1>4, <1>6, <2>2, <3>2 DEF IdTaken
    <3>3. CASE q # o /\ r = o
      BY <1>4, <1>6, <2>2, <3>3 DEF IdTaken
    <3> QED BY <3>1, <3>2, <3>3
  <2> QED BY <2>1, <2>2 DEF CreditInv, Paid, DepositId
<1>10. Covered(p)'
  BY <1>4, <1>6 DEF Covered, Recorded
<1> QED BY <1>7, <1>8, <1>9, <1>10

(* A credited order holds the address that was paid.                       *)
LEMMA CreditHolds ==
  ASSUME DepositInv, NEW q \in DOMAIN orders, orders[q].payment # 0
  PROVE  LET n == payments[orders[q].payment]
         IN  IF q \in Quotes THEN <<"quote", q>> \in Holders(n)
             ELSE <<"address", orders[q].owner>> \in Holders(n)
<1>1. CreditInv
  BY DEF DepositInv
<1>2. PICK n : n = payments[orders[q].payment]
  OBVIOUS
<1>3. orders[q].index = n /\ (orders[q].quoted \/ Owns(orders[q].owner, n))
  BY <1>1, <1>2 DEF CreditInv, Paid
<1>4. CASE q \in Quotes
  BY <1>2, <1>3, <1>4 DEF Holders
<1>5. CASE q \notin Quotes
  <2>1. PICK a \in addresses : a.owner = orders[q].owner /\ a.index = n
    BY <1>3, <1>5 DEF Quotes, Owns
  <2>2. <<"address", a.owner>> \in Holders(n)
    BY <2>1 DEF Holders
  <2> QED BY <1>2, <1>5, <2>1, <2>2
<1> QED BY <1>4, <1>5

(* A deposit id taken where the quote is unpaid: the address was given     *)
(* twice.                                                                  *)
LEMMA TakenElsewhere ==
  ASSUME DepositInv, NEW o \in Quotes, NEW p \in DOMAIN payments,
         orders[o].payment = 0, orders[o].index = payments[p], IdTaken(p, orders[o].owner)
  PROVE  Blamed /\ Recorded(p)
<1>1. PICK q \in DOMAIN orders : orders[q].payment # 0 /\ orders[q].payment = p
  BY DEF IdTaken, DepositId
<1>2. q # o /\ TablesInv
  BY <1>1 DEF DepositInv
<1>3. PICK n : n = payments[p]
  OBVIOUS
<1>4. <<"quote", o>> \in Holders(n)
  BY <1>3 DEF Holders
<1>5. CASE q \in Quotes
  <2>1. <<"quote", q>> \in Holders(n) /\ <<"quote", q>> # <<"quote", o>>
    BY <1>1, <1>2, <1>3, <1>5, CreditHolds
  <2> QED BY <1>1, <1>2, <1>3, <1>4, <2>1, SharedByTwo DEF Blamed, Given, Recorded
<1>6. CASE q \notin Quotes
  <2>1. <<"address", orders[q].owner>> \in Holders(n)
    BY <1>1, <1>3, <1>6, CreditHolds
  <2>2. <<"address", orders[q].owner>> # <<"quote", o>>
    OBVIOUS
  <2> QED BY <1>1, <1>2, <1>3, <1>4, <2>1, <2>2, SharedByTwo DEF Blamed, Given, Recorded
<1> QED BY <1>5, <1>6

LEMMA FirstSightStep ==
  ASSUME DepositInv, NEW v \in Watchers, FirstSight(v)
  PROVE  DepositInv'
<1>1. UNCHANGED <<apiVars, payments, blocks, mem, cursor, errors>>
  BY DEF FirstSight
<1>2. scan[v].pc = "first" /\ scan[v].todo # {}
  BY DEF FirstSight
<1>3. PICK p, o : p = Min(scan[v].todo) /\ o = scan[v].quote[payments[p]]
  OBVIOUS
<1>4. p \in scan[v].todo /\ p \in DOMAIN payments
  BY <1>2, <1>3, NextOf
<1>5. o \in Quotes /\ orders[o].index = payments[p]
  <2>1. TodoInv(scan[v], mem[v].pos)
    BY DEF DepositInv, PassInv
  <2> QED BY <1>2, <1>3, <1>4, <2>1 DEF TodoInv
<1>6. ASSUME NEW complete \in BOOLEAN, Match(v, complete), TablesInv', CreditInv', Kept,
             complete => Covered(p)', ~complete => Blamed'
      PROVE  DepositInv'
  <2>1. PICK t : t = [scan[v] EXCEPT !.todo = scan[v].todo \ {p}, !.complete = scan[v].complete /\ complete]
    OBVIOUS
  <2>2. /\ DOMAIN t = DOMAIN scan[v] /\ t.todo = scan[v].todo \ {p} /\ t.block = scan[v].block
        /\ t.complete = (scan[v].complete /\ complete) /\ t.pc = "first" /\ t.quote = scan[v].quote
    BY <1>2, <2>1, AtWork
  <2>3. scan' = [scan EXCEPT ![v] = t]
    BY <1>3, <1>6, <2>1 DEF Match, DepositInv
  <2>4. /\ t.complete \in BOOLEAN /\ (t.complete => scan[v].complete /\ Covered(p)')
        /\ ~t.complete => ~scan[v].complete \/ Blamed'
    BY <1>2, <1>6, <2>2, AtWork
  <2> QED BY <1>1, <1>2, <1>4, <1>6, <2>2, <2>3, <2>4, MatchStep DEF apiVars
<1>7. CASE orders[o].payment # 0
  <2>1. Match(v, TRUE) /\ UNCHANGED orders
    BY <1>3, <1>7 DEF FirstSight
  <2>2. TablesInv' /\ CreditInv' /\ Kept /\ (Covered(p)' <=> Covered(p))
    BY <1>1, <2>1, Reading DEF DepositInv
  <2>3. Covered(p)
    BY <1>5, <1>7 DEF Covered
  <2> QED BY <1>6, <2>1, <2>2, <2>3
<1>8. CASE orders[o].payment = 0 /\ IdTaken(p, orders[o].owner)
  <2>1. Match(v, FALSE) /\ UNCHANGED orders
    BY <1>3, <1>8 DEF FirstSight
  <2>2. TablesInv' /\ CreditInv' /\ Kept /\ (Blamed => Blamed')
    BY <1>1, <2>1, Reading DEF DepositInv
  <2>3. Blamed
    BY <1>4, <1>5, <1>8, TakenElsewhere
  <2> QED BY <1>6, <2>1, <2>2, <2>3
<1>9. CASE orders[o].payment = 0 /\ ~IdTaken(p, orders[o].owner)
  <2>1. Match(v, TRUE) /\ orders' = [orders EXCEPT ![o].payment = p]
    BY <1>3, <1>9 DEF FirstSight
  <2>2. TablesInv' /\ CreditInv' /\ Kept /\ Covered(p)'
    BY <1>1, <1>4, <1>5, <1>9, <2>1, QuotePaid
  <2> QED BY <1>6, <2>1, <2>2
<1> QED BY <1>7, <1>8, <1>9

LEMMA IngestStep ==
  ASSUME DepositInv, NEW v \in Watchers, Ingest(v)
  PROVE  DepositInv'
<1>1. UNCHANGED <<apiVars, payments, blocks, mem, cursor, errors>>
  BY DEF Ingest
<1>2. scan[v].pc = "ingest" /\ scan[v].todo # {}
  BY AtWork DEF Ingest
<1>3. PICK p, s : p = Min(scan[v].todo) /\ s = scan[v].owner[payments[p]]
  OBVIOUS
<1>4. p \in scan[v].todo /\ p \in DOMAIN payments /\ p # 0
  BY <1>2, <1>3, NextOf
<1>5. Owns(s, payments[p])
  <2>1. TodoInv(scan[v], mem[v].pos)
    BY DEF DepositInv, PassInv
  <2> QED BY <1>2, <1>3, <1>4, <2>1 DEF TodoInv
<1>6. TablesInv' /\ CreditInv' /\ Kept /\ Covered(p)'
  <2>1. CASE IdTaken(p, s)
    <3>1. UNCHANGED orders /\ Covered(p)
      BY <1>3, <2>1 DEF Ingest, IdTaken, DepositId, Covered, Recorded
    <3> QED BY <1>1, <3>1, Reading DEF DepositInv
  <2>2. CASE ~IdTaken(p, s)
    <3>1. PICK new : new = [owner |-> s, index |-> payments[p], quoted |-> FALSE, payment |-> p]
      OBVIOUS
    <3>2. orders' = Append(orders, new)
      BY <1>3, <2>2, <3>1 DEF Ingest
    <3>3. new \in Order
      <4>1. s \in Spellings /\ payments[p] \in Nat /\ p \in Nat
        BY <1>4, <1>5, TableFacts DEF Owns, DepositInv, TablesInv
      <4> QED BY <3>1, <4>1 DEF Order
    <3>4. new.payment = p /\ new.index = payments[p] /\ new.owner = s
      BY <3>1
    <3>5. TablesInv' /\ CreditInv' /\ Kept /\ \E o \in DOMAIN orders' : orders'[o] = new
      BY <1>1, <1>4, <1>5, <2>2, <3>2, <3>3, <3>4, NewOrder DEF apiVars
    <3> QED BY <3>4, <3>5 DEF Covered, Recorded
  <2> QED BY <2>1, <2>2
<1>7. PICK t : t = [scan[v] EXCEPT !.pc = "tracked", !.todo = scan[v].todo \ {p}]
  OBVIOUS
<1>8. /\ DOMAIN t = DOMAIN scan[v] /\ t.todo = scan[v].todo \ {p} /\ t.block = scan[v].block
      /\ t.complete = scan[v].complete /\ t.pc = "tracked" /\ t.owner = scan[v].owner
  BY <1>2, <1>7, AtWork
<1>9. scan' = [scan EXCEPT ![v] = t]
  BY <1>3, <1>7 DEF Ingest, AfterIngest
<1>10. /\ t.complete \in BOOLEAN /\ (t.complete => scan[v].complete /\ Covered(p)')
       /\ ~t.complete => ~scan[v].complete
  BY <1>2, <1>6, <1>8, AtWork
<1> QED BY <1>1, <1>2, <1>4, <1>6, <1>8, <1>9, <1>10, MatchStep DEF apiVars

LEMMA EndBlockStep ==
  ASSUME DepositInv, NEW v \in Watchers, EndBlock(v)
  PROVE  DepositInv'
<1>1. UNCHANGED <<apiVars, orders, payments, blocks, errors>>
  BY DEF EndBlock
<1>2. /\ TablesInv' /\ CreditInv' /\ Kept /\ UNCHANGED calls /\ blocks' = blocks
      /\ (\A p : Covered(p)' <=> Covered(p)) /\ (Blamed => Blamed')
  BY <1>1, Reading DEF DepositInv
<1>3. scan[v].pc = "tracked" /\ scan[v].todo = {}
  BY DEF EndBlock
<1>4. PassInv(scan[v], mem[v], cursor[v]) /\ mem[v] \in [pos : Nat, held : BOOLEAN] /\ cursor[v] \in Nat
  BY DEF DepositInv
<1> DEFINE held == mem[v].held \/ ~scan[v].complete
<1>5. PICK s, m, c : /\ s = Idle /\ m = [pos |-> scan[v].block, held |-> held]
                     /\ c = IF held THEN cursor[v] ELSE scan[v].block
  OBVIOUS
<1>6. /\ scan[v].block \in DOMAIN blocks /\ scan[v].block \in Nat /\ scan[v].complete \in BOOLEAN
      /\ scan[v].block = mem[v].pos + 1 /\ (~scan[v].complete => Blamed)
      /\ scan[v].block <= Len(blocks) /\ Len(blocks) \in Nat
  BY <1>3, AtWork, TableFacts DEF DepositInv
<1>7. m.pos = scan[v].block /\ m.held = held /\ m \in [pos : Nat, held : BOOLEAN] /\ c \in Nat
  BY <1>4, <1>5, <1>6
<1>8. CursorInv(mem[v], cursor[v]) /\ DoneInv(scan[v])
  BY <1>4 DEF PassInv
<1>9. CursorInv(m, c)
  <2>1. CASE held
    <3>1. c = cursor[v] /\ m.held /\ Blamed
      BY <1>5, <1>6, <1>7, <1>8, <2>1 DEF CursorInv
    <3> QED BY <1>4, <1>6, <1>7, <1>8, <3>1 DEF CursorInv
  <2>2. CASE ~held
    <3>1. /\ c = scan[v].block /\ ~m.held /\ cursor[v] = mem[v].pos
          /\ \A p \in blocks[scan[v].block] : Covered(p)
      BY <1>3, <1>5, <1>7, <1>8, <2>2 DEF CursorInv, DoneInv
    <3>2. \A b \in 1 .. c : b \in 1 .. cursor[v] \/ b = scan[v].block
      BY <1>4, <1>6, <3>1
    <3> QED BY <1>6, <1>7, <1>8, <3>1, <3>2 DEF CursorInv
  <2> QED BY <2>1, <2>2
<1>10. CursorInv(m, c)'
  BY <1>2, <1>9 DEF CursorInv
<1>11. PassInv(s, m, c)'
  BY <1>5, <1>10 DEF PassInv, TodoInv, DoneInv, Idle
<1>12. scan' = [scan EXCEPT ![v] = s] /\ mem' = [mem EXCEPT ![v] = m] /\ cursor' = [cursor EXCEPT ![v] = c]
  BY <1>5 DEF EndBlock, DepositInv
<1> QED BY <1>2, <1>7, <1>11, <1>12, WatcherStep

(* The block is taken up again from its start.                             *)
LEMMA IdThrowsStep ==
  ASSUME DepositInv, NEW v \in Watchers, IdThrows(v)
  PROVE  DepositInv'
<1>1. UNCHANGED <<apiVars, orders, payments, blocks, mem, cursor, errors>>
  BY DEF IdThrows
<1>2. /\ TablesInv' /\ CreditInv' /\ Kept /\ UNCHANGED calls /\ blocks' = blocks
      /\ (\A p : Covered(p)' <=> Covered(p))
  BY <1>1, Reading DEF DepositInv
<1>3. PassInv(scan[v], mem[v], cursor[v]) /\ mem[v] \in [pos : Nat, held : BOOLEAN] /\ cursor[v] \in Nat
  BY DEF DepositInv
<1>4. PICK s, m, c : s = Idle /\ m = mem[v] /\ c = cursor[v]
  OBVIOUS
<1>5. CursorInv(m, c)'
  <2>1. PICK t : t = scan[v]
    OBVIOUS
  <2>2. PassInv(t, m, c)'
    BY <1>2, <1>3, <1>4, <2>1, PassKept DEF DepositInv
  <2> QED BY <2>2 DEF PassInv
<1>6. PassInv(s, m, c)'
  BY <1>4, <1>5 DEF PassInv, TodoInv, DoneInv, Idle
<1>7. scan' = [scan EXCEPT ![v] = s] /\ mem' = [mem EXCEPT ![v] = m] /\ cursor' = [cursor EXCEPT ![v] = c]
  BY <1>1, <1>4 DEF IdThrows, DepositInv
<1> QED BY <1>2, <1>3, <1>4, <1>6, <1>7, WatcherStep

LEMMA RestartStep ==
  ASSUME DepositInv, NEW v \in Watchers, Restart(v)
  PROVE  DepositInv'
<1>1. UNCHANGED <<apiVars, orders, payments, blocks, cursor, errors>>
  BY DEF Restart
<1>2. /\ TablesInv' /\ CreditInv' /\ Kept /\ UNCHANGED calls /\ blocks' = blocks
      /\ (\A p : Covered(p)' <=> Covered(p))
  BY <1>1, Reading DEF DepositInv
<1>3. PassInv(scan[v], mem[v], cursor[v]) /\ mem[v] \in [pos : Nat, held : BOOLEAN] /\ cursor[v] \in Nat
  BY DEF DepositInv
<1>4. PICK s, m, c : s = Idle /\ m = [pos |-> cursor[v], held |-> FALSE] /\ c = cursor[v]
  OBVIOUS
<1>5. m.pos = c /\ ~m.held /\ m \in [pos : Nat, held : BOOLEAN] /\ c \in Nat
  BY <1>3, <1>4
<1>6. CursorInv(m, c)
  <2>1. CursorInv(mem[v], c) /\ Len(blocks) \in Nat
    BY <1>3, <1>4, TableFacts DEF PassInv, DepositInv
  <2> QED BY <1>3, <1>5, <2>1 DEF CursorInv
<1>7. CursorInv(m, c)'
  BY <1>2, <1>5, <1>6 DEF CursorInv
<1>8. PassInv(s, m, c)'
  BY <1>4, <1>7 DEF PassInv, TodoInv, DoneInv, Idle
<1>9. scan' = [scan EXCEPT ![v] = s] /\ mem' = [mem EXCEPT ![v] = m] /\ cursor' = [cursor EXCEPT ![v] = c]
  BY <1>1, <1>4 DEF Restart, DepositInv
<1> QED BY <1>2, <1>5, <1>8, <1>9, WatcherStep

-------------------------------------------------------------------------------
LEMMA DepositInitially == DepositInit => DepositInv
<1> SUFFICES ASSUME DepositInit PROVE DepositInv
  OBVIOUS
<1>1. /\ addresses = {} /\ drips = [s \in Spellings |-> "none"] /\ orders = << >>
      /\ calls = [c \in Callers |-> Idle] /\ payments = << >> /\ blocks = << >>
      /\ scan = [v \in Watchers |-> Idle]
      /\ mem = [v \in Watchers |-> [pos |-> 0, held |-> FALSE]]
      /\ cursor = [v \in Watchers |-> 0] /\ errors = 0
  BY DEF DepositInit
<1>2. TablesInv
  <2>1. IsFiniteSet(addresses) /\ drips \in [Spellings -> Statuses]
    BY <1>1, FS_EmptySet DEF Statuses
  <2> QED BY <1>1, <2>1, EmptySeq DEF TablesInv
<1>3. CreditInv
  <2>1. DOMAIN orders = {}
    BY <1>1
  <2> QED BY <2>1 DEF CreditInv
<1>4. \A c \in Callers : CallInv(calls[c])
  BY <1>1 DEF CallInv, Idle
<1>5. ASSUME NEW v \in Watchers PROVE PassInv(scan[v], mem[v], cursor[v])
  <2>1. scan[v] = Idle /\ mem[v] = [pos |-> 0, held |-> FALSE] /\ cursor[v] = 0 /\ Len(blocks) = 0
    BY <1>1
  <2>2. CursorInv(mem[v], cursor[v])
    BY <2>1 DEF CursorInv
  <2> QED BY <2>1, <2>2 DEF PassInv, TodoInv, DoneInv, Idle
<1> QED BY <1>1, <1>2, <1>3, <1>4, <1>5 DEF DepositInv

LEMMA DepositStutters ==
  ASSUME DepositInv, UNCHANGED depositVars
  PROVE  DepositInv'
<1>1. UNCHANGED <<apiVars, orders, payments, blocks, scanVars>> /\ UNCHANGED errors
  BY DEF depositVars, scanVars
<1>2. TablesInv' /\ CreditInv' /\ Kept
  BY <1>1, Reading DEF DepositInv
<1> QED BY <1>1, <1>2, OutsideStep DEF DepositInv, apiVars

LEMMA DepositSteps == DepositInv /\ [DepositNext]_depositVars => DepositInv'
<1> SUFFICES ASSUME DepositInv, [DepositNext]_depositVars PROVE DepositInv'
  OBVIOUS
<1>1. ASSUME NEW c \in Callers, NEW s \in Spellings, NEW status \in Preferences, Lookup(c, s, status)
      PROVE  DepositInv'
  BY <1>1, LookupStep
<1>2. ASSUME NEW c \in Callers, NEW s \in Spellings, ReadQuoteIndex(c, s) PROVE DepositInv'
  BY <1>2, ReadQuoteIndexStep
<1>3. ASSUME NEW c \in Callers, Allocate(c) \/ InsertAddress(c) \/ InsertQuote(c) PROVE DepositInv'
  BY <1>3, AllocateStep, InsertAddressStep, InsertQuoteStep
<1>4. ASSUME NEW k \in 1 .. MaxPayments, NEW paid \in [1 .. k -> Given], MineBlock(paid)
      PROVE  DepositInv'
  <2>1. k \in Nat
    BY AddressAssumption
  <2> QED BY <1>4, <2>1, MineBlockStep
<1>5. ASSUME NEW v \in Watchers, Handles(v) \/ RecordFails(v) \/ Restart(v) PROVE DepositInv'
  BY <1>5, StartBlockStep, IdThrowsStep, FirstSightStep, ReadTrackedStep, CheckRecordedStep, IngestStep,
     EndBlockStep, RecordFailsStep, RestartStep DEF Handles
<1>6. CASE UNCHANGED depositVars
  BY <1>6, DepositStutters
<1> QED BY <1>1, <1>2, <1>3, <1>4, <1>5, <1>6 DEF DepositNext

(* The tables, what is credited and what every watcher has left to do agree *)
(* in every state (block-handler.ts, both passes).                         *)
THEOREM DepositInvariant == DepositSpec => []DepositInv
<1> QED BY DepositInitially, DepositSteps, PTL DEF DepositSpec

(* The wallets behind the holders of an address are finitely many.         *)
LEMMA WalletsFinite ==
  ASSUME TablesInv, NEW n
  PROVE  IsFiniteSet(HolderWallets(n))
<1> DEFINE B == {x \in addresses : x.index = n}
           f == [a \in B |-> WalletOf[a.owner]]
           Q == {q \in Quotes : orders[q].index = n}
           g == [o \in Q |-> WalletOf[orders[o].owner]]
<1>1. IsFiniteSet(B)
  BY FS_Subset DEF TablesInv
<1>2. IsFiniteSet(Q)
  <2>1. IsFiniteSet(DOMAIN orders) /\ Q \subseteq DOMAIN orders
    BY TableFacts, FS_Interval
  <2> QED BY <2>1, FS_Subset
<1>3. IsFiniteSet({f[x] : x \in DOMAIN f})
  <2>1. f \in [DOMAIN f -> {f[x] : x \in DOMAIN f}] /\ DOMAIN f = B
    OBVIOUS
  <2> HIDE DEF f, B
  <2> QED BY <1>1, <2>1, ImageIsFinite
<1>4. IsFiniteSet({g[x] : x \in DOMAIN g})
  <2>1. g \in [DOMAIN g -> {g[x] : x \in DOMAIN g}] /\ DOMAIN g = Q
    OBVIOUS
  <2> HIDE DEF g, Q
  <2> QED BY <1>2, <2>1, ImageIsFinite
<1>5. HolderWallets(n) = {f[x] : x \in DOMAIN f} \cup {g[x] : x \in DOMAIN g}
  BY DEF HolderWallets
<1> HIDE DEF f, g, B, Q
<1> QED BY <1>3, <1>4, <1>5, FS_Union

(* A payment to an address that only one wallet was given is credited to   *)
(* that wallet and only once, by whichever pass of whichever watcher       *)
(* (block-handler.ts:215).                                                 *)
THEOREM OneCredit == DepositSpec => []OneWalletOneCredit
<1>1. DepositInv => OneWalletOneCredit
  <2>1. SUFFICES ASSUME DepositInv, NEW p \in DOMAIN payments,
                        Cardinality(HolderWallets(payments[p])) = 1
                 PROVE  /\ Cardinality(Credits(p)) <= 1
                        /\ \A o \in Credits(p) : WalletOf[orders[o].owner] \in HolderWallets(payments[p])
    BY DEF OneWalletOneCredit
  <2>2. TablesInv /\ CreditInv /\ p # 0
    BY <2>1, TableFacts DEF DepositInv
  <2>3. PICK w : HolderWallets(payments[p]) = {w}
    BY <2>1, <2>2, WalletsFinite, FS_Singleton
  <2>4. \A o \in Credits(p) : WalletOf[orders[o].owner] \in HolderWallets(payments[p])
    <3>1. SUFFICES ASSUME NEW o \in Credits(p)
                   PROVE  WalletOf[orders[o].owner] \in HolderWallets(payments[p])
      OBVIOUS
    <3>2. /\ o \in DOMAIN orders /\ orders[o].index = payments[p]
          /\ orders[o].quoted \/ Owns(orders[o].owner, payments[p])
      BY <2>2, <3>1 DEF Credits, CreditInv, Paid
    <3>3. CASE orders[o].quoted
      BY <3>2, <3>3 DEF HolderWallets, Quotes
    <3>4. CASE Owns(orders[o].owner, payments[p])
      BY <3>4 DEF HolderWallets, Owns
    <3> QED BY <3>2, <3>3, <3>4
  <2>5. \A o, q \in Credits(p) : o = q
    <3>1. SUFFICES ASSUME NEW o \in Credits(p), NEW q \in Credits(p) PROVE o = q
      OBVIOUS
    <3>2. WalletOf[orders[o].owner] = WalletOf[orders[q].owner]
      BY <2>3, <2>4
    <3> QED BY <2>2, <3>2 DEF Credits, CreditInv, Paid, DepositId
  <2>6. IsFiniteSet(Credits(p))
    <3>1. IsFiniteSet(DOMAIN orders)
      BY <2>2, TableFacts, FS_Interval
    <3> QED BY <3>1, FS_Subset DEF Credits
  <2>7. Cardinality(Credits(p)) <= 1
    <3>1. ~ (Cardinality(Credits(p)) > 1)
      BY <2>5, <2>6, TwoOrMore
    <3> QED BY <2>6, <3>1, FS_CardinalityType
  <2> QED BY <2>4, <2>7
<1> QED BY <1>1, DepositInvariant, PTL

(* Of the blocks behind a cursor every payment is credited, or stands      *)
(* behind another payment to the same quote: a cursor never passes a       *)
(* payment that failed to be recorded (block-handler.ts:92).               *)
THEOREM CreditsCovered == DepositSpec => []CursorCoversCredits
<1>1. DepositInv => CursorCoversCredits
  BY DEF DepositInv, PassInv, CursorInv, Covered, CursorCoversCredits
<1> QED BY <1>1, DepositInvariant, PTL

(* Without database errors no watcher holds its cursor, except over        *)
(* addresses that were given twice (block-handler.ts:276).                 *)
THEOREM HeldForErrors == DepositSpec => []HeldByErrorsOnly
<1>1. DepositInv => HeldByErrorsOnly
  BY DEF DepositInv, PassInv, CursorInv, Blamed, HeldByErrorsOnly
<1> QED BY <1>1, DepositInvariant, PTL

(* The type invariant the runs check.                                      *)
THEOREM DepositTypes == DepositSpec => []DepositTypeOK
<1>1. DepositInv => DepositTypeOK
  <2>1. SUFFICES ASSUME DepositInv PROVE DepositTypeOK
    OBVIOUS
  <2>2. TablesInv /\ CreditInv
    BY <2>1 DEF DepositInv
  <2>3. \A o \in DOMAIN orders : orders[o].payment \in {0} \cup DOMAIN payments
    BY <2>2 DEF CreditInv, Paid
  <2>4. \A v \in Watchers : CursorInv(mem[v], cursor[v])
    BY <2>1 DEF DepositInv, PassInv
  <2> QED BY <2>2, <2>3, <2>4 DEF TablesInv, CursorInv, DepositTypeOK
<1> QED BY <1>1, DepositInvariant, PTL

-------------------------------------------------------------------------------
(* Where preferences are recorded, their rows keep two first calls apart.  *)

LEMMA AllocKept ==
  ASSUME AllocInv, UNCHANGED apiVars
  PROVE  AllocInv'
BY DEF AllocInv, Rows, AddressesOf, Allocating, OneAddressPerSpelling, apiVars

(* Another transaction on the request's own record, no address written.    *)
LEMMA AllocOther ==
  ASSUME DepositInv, AllocInv, UNCHANGED <<addresses, drips>>, NEW c \in Callers, NEW call,
         Step(c, call), call.pc \notin {"allocate", "insert"}
  PROVE  AllocInv'
<1>1. \A d \in Callers : Allocating(d)' => Allocating(d) /\ calls'[d] = calls[d]
  BY DEF DepositInv, Step, Allocating
<1>2. /\ \A w \in Wallets : Rows(w)' = Rows(w) /\ AddressesOf(w)' = AddressesOf(w)
      /\ OneAddressPerSpelling'
  BY DEF Rows, AddressesOf, AllocInv, OneAddressPerSpelling
<1> QED BY <1>1, <1>2 DEF AllocInv

LEMMA AllocLookup ==
  ASSUME DripEnabled, DepositInv, AllocInv, NEW c \in Callers, NEW s \in Spellings,
         NEW status \in Preferences, Lookup(c, s, status)
  PROVE  AllocInv'
<1>1. addresses' = addresses /\ OneAddressPerSpelling' /\ DOMAIN calls = Callers
  BY DEF Lookup, AllocInv, OneAddressPerSpelling, DepositInv
<1>2. WalletOf[s] \in Wallets /\ drips \in [Spellings -> Statuses]
  BY DEF Wallets, DepositInv, TablesInv
<1>3. CASE AddressesOf(WalletOf[s]) # {}
  <2>1. UNCHANGED calls /\ (drips' = drips \/ drips' = [drips EXCEPT ![s] = status])
    BY <1>3 DEF Lookup
  <2>2. ASSUME NEW w \in Wallets, Rows(w)' # {} PROVE AddressesOf(w)' # {}
    <3>1. AddressesOf(w)' = AddressesOf(w)
      BY <1>1 DEF AddressesOf
    <3>2. w = WalletOf[s] \/ Rows(w) # {}
      BY <1>2, <2>1, <2>2 DEF Rows
    <3> QED BY <1>3, <3>1, <3>2 DEF AllocInv
  <2> QED BY <1>1, <2>1, <2>2 DEF AllocInv, Allocating
<1>4. CASE AddressesOf(WalletOf[s]) = {}
  <2>1. NoRowYet(s)
    BY <1>2, <1>4 DEF AllocInv, NoRowYet
  <2>2. PICK call : call = [pc |-> "allocate", owner |-> s, status |-> status, drip |-> <<s>>]
    OBVIOUS
  <2>3. Step(c, call) /\ RowIsFree(s) /\ UNCHANGED drips
    BY <1>4, <2>1, <2>2 DEF Lookup
  <2>4. calls'[c] = call /\ \A d \in Callers : d # c => calls'[d] = calls[d]
    BY <1>1, <2>3 DEF Step
  <2>5. \A d \in Callers : d # c /\ Allocating(d) => calls[d].owner # s
    BY <2>3 DEF AllocInv, RowIsFree, Allocating
  <2>6. \A w \in Wallets : Rows(w)' = Rows(w) /\ AddressesOf(w)' = AddressesOf(w)
    BY <1>1, <2>3 DEF Rows, AddressesOf
  <2>7. \A a \in addresses : a.owner # s
    BY <1>4 DEF AddressesOf
  <2>8. ASSUME NEW d \in Callers, Allocating(d)'
        PROVE  /\ calls'[d].drip = <<calls'[d].owner>>
               /\ \A a \in addresses' : a.owner # calls'[d].owner
    <3>1. CASE d = c
      BY <1>1, <2>2, <2>4, <2>7, <3>1
    <3>2. CASE d # c
      BY <1>1, <2>4, <2>8, <3>2 DEF AllocInv, Allocating
    <3> QED BY <3>1, <3>2
  <2>9. ASSUME NEW d \in Callers, NEW e \in Callers, Allocating(d)', Allocating(e)',
               calls'[d].owner = calls'[e].owner
        PROVE  d = e
    <3>1. calls'[c].owner = s
      BY <2>2, <2>4
    <3> QED BY <2>4, <2>5, <2>9, <3>1 DEF AllocInv, Allocating
  <2> QED BY <1>1, <2>6, <2>8, <2>9 DEF AllocInv
<1> QED BY <1>3, <1>4

LEMMA AllocAllocate ==
  ASSUME DepositInv, AllocInv, NEW c \in Callers, Allocate(c)
  PROVE  AllocInv'
<1>1. UNCHANGED <<addresses, drips>> /\ DOMAIN calls = Callers
  BY DEF Allocate, DepositInv
<1>2. /\ calls'[c].drip = calls[c].drip /\ calls'[c].owner = calls[c].owner /\ Allocating(c)
      /\ \A d \in Callers : d # c => calls'[d] = calls[d]
  BY <1>1 DEF Allocate, Step, Allocating
<1>3. \A d \in Callers : /\ Allocating(d)' => Allocating(d)
                         /\ calls'[d].drip = calls[d].drip /\ calls'[d].owner = calls[d].owner
  BY <1>2 DEF Allocating
<1>4. /\ \A w \in Wallets : Rows(w)' = Rows(w) /\ AddressesOf(w)' = AddressesOf(w)
      /\ OneAddressPerSpelling'
  BY <1>1 DEF Rows, AddressesOf, AllocInv, OneAddressPerSpelling
<1> QED BY <1>1, <1>3, <1>4 DEF AllocInv

LEMMA AllocInsert ==
  ASSUME DepositInv, AllocInv, NEW c \in Callers, InsertAddress(c)
  PROVE  AllocInv'
<1>1. /\ DOMAIN calls = Callers /\ Allocating(c) /\ calls'[c] = Idle
      /\ \A d \in Callers : d # c => calls'[d] = calls[d]
  BY DEF InsertAddress, DepositInv, Step, Allocating
<1>2. \A d \in Callers : Allocating(d)' => d # c /\ Allocating(d) /\ calls'[d] = calls[d]
  BY <1>1 DEF Allocating, Idle
<1>3. PICK s : s = calls[c].owner
  OBVIOUS
<1>4. calls[c].drip = <<s>> /\ \A a \in addresses : a.owner # s
  BY <1>1, <1>3 DEF AllocInv
<1>5. CASE UNCHANGED <<addresses, drips>>
  <2>1. /\ \A w \in Wallets : Rows(w)' = Rows(w) /\ AddressesOf(w)' = AddressesOf(w)
        /\ OneAddressPerSpelling'
    BY <1>5 DEF Rows, AddressesOf, AllocInv, OneAddressPerSpelling
  <2> QED BY <1>2, <1>5, <2>1 DEF AllocInv
<1>6. CASE ~ UNCHANGED <<addresses, drips>>
  <2>1. PICK new : new = [owner |-> s, index |-> calls[c].index]
    OBVIOUS
  <2>2. /\ addresses' = addresses \cup {new} /\ new.owner = s
        /\ drips' = [x \in Spellings |-> IF calls[c].drip = <<x>> THEN calls[c].status ELSE drips[x]]
    BY <1>3, <1>6, <2>1 DEF InsertAddress
  <2>3. \A x \in Spellings : x # s => drips'[x] = drips[x]
    BY <1>4, <2>2
  <2>4. ASSUME NEW w \in Wallets, Rows(w)' # {} PROVE AddressesOf(w)' # {}
    <3>1. CASE w = WalletOf[s]
      BY <2>2, <3>1 DEF AddressesOf
    <3>2. CASE w # WalletOf[s]
      BY <2>2, <2>3, <2>4, <3>2 DEF AllocInv, Rows, AddressesOf
    <3> QED BY <3>1, <3>2
  <2>5. \A d \in Callers : Allocating(d)' => calls[d].owner # s
    BY <1>1, <1>2, <1>3 DEF AllocInv
  <2>6. OneAddressPerSpelling'
    BY <1>4, <2>2 DEF AllocInv, OneAddressPerSpelling
  <2>7. ASSUME NEW d \in Callers, Allocating(d)'
        PROVE  /\ calls'[d].drip = <<calls'[d].owner>>
               /\ \A a \in addresses' : a.owner # calls'[d].owner
    BY <1>2, <2>2, <2>5, <2>7 DEF AllocInv
  <2>8. ASSUME NEW d \in Callers, NEW e \in Callers, Allocating(d)', Allocating(e)',
               calls'[d].owner = calls'[e].owner
        PROVE  d = e
    BY <1>2, <2>8 DEF AllocInv
  <2> QED BY <2>4, <2>6, <2>7, <2>8 DEF AllocInv
<1> QED BY <1>5, <1>6

(* While the recipient's row is held nobody else allocates for it          *)
(* (deposit-address.ts), where preferences are recorded.                   *)
THEOREM AllocInvariant ==
  ASSUME DripEnabled
  PROVE  DepositSpec => []AllocInv
<1>1. DepositInit => AllocInv
  BY DEF DepositInit, AllocInv, Rows, Allocating, Idle, OneAddressPerSpelling
<1>2. DepositInv /\ AllocInv /\ [DepositNext]_depositVars => AllocInv'
  <2> SUFFICES ASSUME DepositInv, AllocInv, [DepositNext]_depositVars PROVE AllocInv'
    OBVIOUS
  <2>1. ASSUME NEW c \in Callers, NEW s \in Spellings, NEW status \in Preferences, Lookup(c, s, status)
        PROVE  AllocInv'
    BY <2>1, AllocLookup
  <2>2. ASSUME NEW c \in Callers, NEW s \in Spellings, ReadQuoteIndex(c, s) PROVE AllocInv'
    BY <2>2, AllocOther DEF ReadQuoteIndex
  <2>3. ASSUME NEW c \in Callers, Allocate(c) PROVE AllocInv'
    BY <2>3, AllocAllocate
  <2>4. ASSUME NEW c \in Callers, InsertAddress(c) PROVE AllocInv'
    BY <2>4, AllocInsert
  <2>5. ASSUME NEW c \in Callers, InsertQuote(c) PROVE AllocInv'
    BY <2>5, AllocOther DEF InsertQuote, Idle
  <2>6. ASSUME NEW paid, MineBlock(paid) PROVE AllocInv'
    BY <2>6, AllocKept DEF MineBlock
  <2>7. ASSUME NEW v \in Watchers, Handles(v) \/ RecordFails(v) \/ Restart(v) PROVE AllocInv'
    <3>1. UNCHANGED apiVars
      BY <2>7 DEF Handles, StartBlock, IdThrows, FirstSight, ReadTracked, CheckRecorded, Ingest,
         EndBlock, RecordFails, Restart
    <3> QED BY <3>1, AllocKept
  <2>8. CASE UNCHANGED depositVars
    BY <2>8, AllocKept DEF depositVars
  <2> QED BY <2>1, <2>2, <2>3, <2>4, <2>5, <2>6, <2>7, <2>8 DEF DepositNext
<1> QED BY <1>1, <1>2, DepositInvariant, PTL DEF DepositSpec

(* Where preferences are recorded, two first calls at one time give a      *)
(* recipient one address (deposit-address.ts:80).                          *)
THEOREM OneAddress ==
  ASSUME DripEnabled
  PROVE  DepositSpec => []OneAddressPerSpelling
<1>1. AllocInv => OneAddressPerSpelling
  BY DEF AllocInv
<1> QED BY <1>1, AllocInvariant, PTL

-------------------------------------------------------------------------------
(***************************************************************************)
(* The inductive invariants of the gas drip: what an instance is in the    *)
(* middle of, what a row says of the chain and, where first calls of one   *)
(* wallet are kept apart, whose row can change.                            *)
(***************************************************************************)

Transfer == [to : Wallets, status : {"pending", "success", "reverted"}]

Dripping == {"row", "balance", "send", "receipt"}

(* Past the check of the row. *)
Sending == {"balance", "send", "receipt"}

StepInv(d) ==
  /\ d = Idle \/ d.pc \in {"confirm"} \cup Dripping
  /\ d.pc # "idle" => d.todo \subseteq DOMAIN orders
  /\ d.pc \in Dripping =>
       /\ DOMAIN d = {"pc", "to", "enough", "sent", "todo"}
       /\ d.to \in Spellings /\ d.enough \in BOOLEAN
  /\ d.pc = "receipt" => d.sent \in DOMAIN transfers /\ transfers[d.sent].to = WalletOf[d.to]

(* A transfer that an instance waits for went to its recipient, and a row  *)
(* says of it what the chain does (drip-sender.ts, sendDripIfEligible).    *)
DripInv ==
  /\ DepositInv
  /\ transfers \in Seq(Transfer) /\ faults \in Nat
  /\ DOMAIN drip = Instances /\ \A i \in Instances : StepInv(drip[i])
  /\ OutcomeIsOnChain

-------------------------------------------------------------------------------
(* First calls are apart, or every wallet is spelled in one way.           *)
OneAtATime ==
  \/ \A c, d \in Callers : c = d
  \/ \A s, t \in Spellings : WalletOf[s] = WalletOf[t] => s = t

Holding(c, s) == Allocating(c) /\ calls[c].drip = <<s>>

(* A wallet has one row, or one that a request will insert; and who is     *)
(* sent something has a row that is no opt-out (deposit-address.ts:76).    *)
OneRowInv ==
  /\ \A s, t \in Spellings :
       drips[s] # "none" /\ drips[t] # "none" /\ WalletOf[s] = WalletOf[t] => s = t
  /\ \A c \in Callers, s \in Spellings : Holding(c, s) => Rows(WalletOf[s]) = {}
  /\ \A c, d \in Callers : \A s, t \in Spellings :
       Holding(c, s) /\ Holding(d, t) /\ WalletOf[s] = WalletOf[t] => c = d
  /\ \A i \in Instances : drip[i].pc \in Sending =>
       \E r \in Rows(WalletOf[drip[i].to]) : drips[r] # "opted_out"

(* A drip that is recorded, or whose receipt is awaited. *)
Known(w) ==
  \/ \E r \in Rows(w) : drips[r] \in {"sent", "failed"}
  \/ \E i \in Instances : drip[i].pc = "receipt" /\ WalletOf[drip[i].to] = w

(* With one instance, nothing is sent to a wallet of which something is    *)
(* known, so all that was sent and is not known came with a fault.         *)
RepeatInv ==
  (\A i, j \in Instances : i = j) =>
    /\ \A i \in Instances : drip[i].pc \in Sending =>
         \A r \in Rows(WalletOf[drip[i].to]) : drips[r] \notin Final
    /\ \A w \in Wallets : Cardinality(SentTo(w)) <= faults + (IF Known(w) THEN 1 ELSE 0)

-------------------------------------------------------------------------------
(* What no step takes back of the transfers and the orders.                *)

TransfersKept ==
  /\ transfers' \in Seq(Transfer)
  /\ \A k \in DOMAIN transfers :
       /\ k \in DOMAIN transfers' /\ transfers'[k].to = transfers[k].to
       /\ transfers[k].status # "pending" => transfers'[k].status = transfers[k].status

LEMMA StepKept ==
  ASSUME TransfersKept, DOMAIN orders \subseteq DOMAIN orders', NEW d, StepInv(d)
  PROVE  StepInv(d)'
BY DEF StepInv, TransfersKept

(* A row that says sent or failed said so before.                          *)
LEMMA OutcomeKept ==
  ASSUME OutcomeIsOnChain, TransfersKept,
         \A s \in Spellings : drips'[s] \in {"sent", "failed"} => drips'[s] = drips[s]
  PROVE  OutcomeIsOnChain'
<1>1. SUFFICES ASSUME NEW s \in Spellings
               PROVE  /\ drips'[s] = "sent" => Received(WalletOf[s])' # {}
                      /\ drips'[s] = "failed" =>
                           \E k \in SentTo(WalletOf[s])' : transfers'[k].status = "reverted"
  BY DEF OutcomeIsOnChain
<1>2. ASSUME drips'[s] = "sent" PROVE Received(WalletOf[s])' # {}
  <2>1. drips[s] = "sent"
    BY <1>2
  <2>2. PICK k \in Received(WalletOf[s]) : TRUE
    BY <2>1 DEF OutcomeIsOnChain
  <2>3. k \in Received(WalletOf[s])'
    BY <2>2 DEF Received, SentTo, TransfersKept
  <2> QED BY <2>3
<1>3. ASSUME drips'[s] = "failed" PROVE \E k \in SentTo(WalletOf[s])' : transfers'[k].status = "reverted"
  <2>1. drips[s] = "failed"
    BY <1>3
  <2>2. PICK k \in SentTo(WalletOf[s]) : transfers[k].status = "reverted"
    BY <2>1 DEF OutcomeIsOnChain
  <2>3. k \in SentTo(WalletOf[s])' /\ transfers'[k].status = "reverted"
    BY <2>2 DEF SentTo, TransfersKept
  <2> QED BY <2>3
<1> QED BY <1>2, <1>3

LEMMA SameTransfers ==
  ASSUME transfers \in Seq(Transfer), UNCHANGED transfers
  PROVE  TransfersKept
BY DEF TransfersKept

(* A step of one instance leaves the others to StepKept.                   *)
LEMMA InstanceStep ==
  ASSUME DripInv, DepositInv', TransfersKept, DOMAIN orders \subseteq DOMAIN orders',
         NEW i \in Instances, NEW d, Proceed(i, d), StepInv(d)', faults' \in Nat, OutcomeIsOnChain'
  PROVE  DripInv'
<1>1. DOMAIN drip' = Instances
  BY DEF DripInv, Proceed
<1>2. ASSUME NEW j \in Instances PROVE StepInv(drip[j])'
  <2>1. PICK e : e = drip'[j]
    OBVIOUS
  <2>2. StepInv(e)'
    <3>1. CASE j = i
      BY <2>1, <3>1 DEF DripInv, Proceed
    <3>2. CASE j # i
      <4>1. e = drip[j] /\ StepInv(e)
        BY <2>1, <3>2 DEF DripInv, Proceed
      <4> QED BY <4>1, StepKept
    <3> QED BY <3>1, <3>2
  <2> QED BY <2>1, <2>2
<1>3. transfers' \in Seq(Transfer)
  BY DEF TransfersKept
<1> QED BY <1>1, <1>2, <1>3 DEF DripInv

(* A step of nobody in particular.                                         *)
LEMMA OutsideDrip ==
  ASSUME DripInv, DepositInv', TransfersKept, DOMAIN orders \subseteq DOMAIN orders',
         UNCHANGED drip, faults' \in Nat, OutcomeIsOnChain'
  PROVE  DripInv'
<1>1. \A j \in Instances : StepInv(drip[j])'
  <2>1. SUFFICES ASSUME NEW j \in Instances, NEW e, e = drip[j] PROVE StepInv(e)'
    OBVIOUS
  <2>2. StepInv(e)
    BY <2>1 DEF DripInv
  <2> QED BY <2>2, StepKept
<1> QED BY <1>1 DEF DripInv, TransfersKept

(* What is known of an instance at work.                                   *)
LEMMA Working ==
  ASSUME DripInv, NEW i \in Instances
  PROVE  /\ drip[i] = Idle \/ drip[i].pc \in {"confirm"} \cup Dripping
         /\ drip[i] # Idle => drip[i].pc # "idle"
         /\ drip[i].pc # "idle" => drip[i].todo \subseteq DOMAIN orders
         /\ drip[i].pc \in Dripping =>
              /\ DOMAIN drip[i] = {"pc", "to", "enough", "sent", "todo"}
              /\ drip[i].to \in Spellings /\ drip[i].enough \in BOOLEAN
              /\ WalletOf[drip[i].to] \in Wallets
         /\ drip[i].pc = "receipt" =>
              drip[i].sent \in DOMAIN transfers /\ transfers[drip[i].sent].to = WalletOf[drip[i].to]
BY DEF DripInv, StepInv, Wallets, Dripping

(* On to the next order of the list.                                       *)
LEMMA DoneStep ==
  ASSUME DripInv, NEW i \in Instances, drip[i].pc # "idle", Done(i)
  PROVE  \E d : Proceed(i, d) /\ StepInv(d)
<1>1. drip[i].todo \subseteq DOMAIN orders
  BY Working
<1>2. StepInv(Idle)
  BY DEF StepInv, Idle, Dripping
<1>3. StepInv([pc |-> "confirm", todo |-> drip[i].todo])
  BY <1>1 DEF StepInv, Dripping
<1> QED BY <1>2, <1>3 DEF Done

-------------------------------------------------------------------------------
(* The steps that write a preference row.                                  *)

LEMMA RowsUpdated ==
  ASSUME DripInv, NEW s \in Spellings, NEW status \in Statuses,
         UpdateRows(s, status), UNCHANGED depositRest
  PROVE  DepositInv' /\ drips' \in [Spellings -> Statuses]
<1>1. DepositInv /\ drips \in [Spellings -> Statuses]
  BY DEF DripInv, DepositInv, TablesInv
<1>2. drips' \in [Spellings -> Statuses]
  BY <1>1 DEF UpdateRows
<1>3. TablesInv' /\ CreditInv' /\ Kept
  BY <1>1, <1>2, SameTables DEF depositRest, scanVars
<1>4. UNCHANGED scanVars /\ UNCHANGED calls
  BY DEF depositRest
<1> QED BY <1>1, <1>2, <1>3, <1>4, OutsideStep DEF DepositInv

(* One that says nothing of the chain.                                     *)
LEMMA PutOffStep ==
  ASSUME DripInv, NEW i \in Instances, drip[i].pc \in Dripping,
         NEW status \in {"recipient_has_gas", "wallet_dry"},
         UpdateRows(drip[i].to, status), Done(i), UNCHANGED <<depositRest, dripRest, faults>>
  PROVE  DripInv'
<1>1. drip[i].to \in Spellings /\ status \in Statuses /\ drip[i].pc # "idle"
  BY Working DEF Statuses, Dripping
<1>2. DepositInv' /\ TransfersKept
  BY <1>1, RowsUpdated, SameTransfers DEF dripRest, DripInv
<1>3. OutcomeIsOnChain'
  <2>1. \A s \in Spellings : drips'[s] \in {"sent", "failed"} => drips'[s] = drips[s]
    BY DEF UpdateRows
  <2> QED BY <1>2, <2>1, OutcomeKept DEF DripInv
<1>4. PICK d : Proceed(i, d) /\ StepInv(d)
  BY <1>1, DoneStep
<1>5. StepInv(d)'
  BY <1>2, <1>4, StepKept DEF depositRest
<1> QED BY <1>2, <1>3, <1>4, <1>5, InstanceStep DEF DripInv, depositRest

LEMMA RecordStep ==
  ASSUME DripInv, NEW i \in Instances, Record(i)
  PROVE  DripInv'
<1>1. PICK k, w, status : /\ k = drip[i].sent /\ w = WalletOf[drip[i].to]
                          /\ status = IF transfers[k].status = "success" THEN "sent" ELSE "failed"
  OBVIOUS
<1>2. /\ drip[i].pc = "receipt" /\ drip[i].pc \in Dripping /\ drip[i].to \in Spellings
      /\ k \in DOMAIN transfers /\ transfers[k].to = w /\ transfers[k].status # "pending"
      /\ UpdateRows(drip[i].to, status) /\ UNCHANGED <<depositRest, dripRest, faults>>
  BY <1>1, Working DEF Record, HasReceipt, Dripping
<1>3. status \in Statuses /\ drip[i].pc # "idle"
  BY <1>1, <1>2 DEF Statuses
<1>4. DepositInv' /\ TransfersKept /\ transfers' = transfers
  BY <1>2, <1>3, RowsUpdated, SameTransfers DEF dripRest, DripInv
<1>5. transfers[k].status \in {"success", "reverted"}
  <2>1. transfers \in Seq(Transfer)
    BY DEF DripInv
  <2>2. transfers[k] \in Transfer
    BY <1>2, <2>1, LenProperties, ElementOfSeq
  <2> QED BY <1>2, <2>2 DEF Transfer
<1>6. OutcomeIsOnChain'
  <2>1. ASSUME NEW s \in Spellings, drips'[s] # drips[s]
        PROVE  /\ drips'[s] = "sent" => Received(WalletOf[s])' # {}
               /\ drips'[s] = "failed" => \E j \in SentTo(WalletOf[s])' : transfers'[j].status = "reverted"
    <3>1. WalletOf[s] = w /\ drips'[s] = status
      BY <1>1, <1>2, <2>1 DEF UpdateRows, Rows
    <3>2. k \in SentTo(w)'
      BY <1>2, <1>4 DEF SentTo
    <3> QED BY <1>1, <1>4, <1>5, <3>1, <3>2 DEF Received
  <2>2. ASSUME NEW s \in Spellings, drips'[s] = drips[s]
        PROVE  /\ drips'[s] = "sent" => Received(WalletOf[s])' # {}
               /\ drips'[s] = "failed" => \E j \in SentTo(WalletOf[s])' : transfers'[j].status = "reverted"
    BY <1>4, <2>2 DEF DripInv, OutcomeIsOnChain, Received, SentTo
  <2> QED BY <2>1, <2>2 DEF OutcomeIsOnChain
<1>7. PICK d : Proceed(i, d) /\ StepInv(d)
  BY <1>3, DoneStep DEF Record
<1>8. StepInv(d)'
  BY <1>2, <1>4, <1>7, StepKept DEF depositRest
<1> QED BY <1>2, <1>4, <1>6, <1>7, <1>8, InstanceStep DEF DripInv, depositRest

-------------------------------------------------------------------------------
(* The steps that write no row.                                            *)

LEMMA NoRowWritten ==
  ASSUME DripInv, UNCHANGED depositVars, TransfersKept
  PROVE  DepositInv' /\ OutcomeIsOnChain' /\ DOMAIN orders \subseteq DOMAIN orders'
<1>1. DepositInv'
  BY DepositStutters DEF DripInv
<1>2. UNCHANGED <<orders, drips>>
  BY DEF depositVars, apiVars
<1>3. OutcomeIsOnChain'
  BY <1>2, OutcomeKept DEF DripInv
<1> QED BY <1>1, <1>2, <1>3

LEMMA QuietStep ==
  ASSUME DripInv, UNCHANGED <<depositVars, transfers>>, NEW i \in Instances, NEW d,
         Proceed(i, d), StepInv(d), faults' \in Nat
  PROVE  DripInv'
<1>1. TransfersKept
  BY SameTransfers DEF DripInv
<1>2. DepositInv' /\ OutcomeIsOnChain' /\ DOMAIN orders \subseteq DOMAIN orders'
  BY <1>1, NoRowWritten
<1>3. StepInv(d)'
  BY <1>1, <1>2, StepKept
<1> QED BY <1>1, <1>2, <1>3, InstanceStep

LEMMA ListSubmittedStep ==
  ASSUME DripInv, NEW i \in Instances, ListSubmitted(i)
  PROVE  DripInv'
<1>1. PICK d : d = [pc |-> "confirm", todo |-> {o \in DOMAIN orders : orders[o].payment # 0} \ completed]
  OBVIOUS
<1>2. Proceed(i, d) /\ UNCHANGED <<depositVars, dripRest, faults>>
  BY <1>1 DEF ListSubmitted
<1>3. StepInv(d)
  BY <1>1 DEF StepInv, Dripping
<1> QED BY <1>2, <1>3, QuietStep DEF dripRest, DripInv

LEMMA CompleteStep ==
  ASSUME DripInv, NEW i \in Instances, drip[i].pc = "confirm", NEW o \in drip[i].todo,
         NEW enough \in BOOLEAN, Complete(i, o, enough)
  PROVE  DripInv'
<1>1. drip[i].todo \subseteq DOMAIN orders
  BY Working
<1>2. orders[o].owner \in Spellings
  BY <1>1, TableFacts DEF DripInv, DepositInv, Order
<1>3. PICK d : d = [pc |-> "row", to |-> orders[o].owner, enough |-> enough, sent |-> 0,
                    todo |-> drip[i].todo \ {o}]
  OBVIOUS
<1>4. Proceed(i, d) /\ UNCHANGED <<depositVars, transfers, faults>>
  BY <1>3 DEF Complete
<1>5. StepInv(d)
  BY <1>1, <1>2, <1>3 DEF StepInv, Dripping
<1> QED BY <1>4, <1>5, QuietStep DEF DripInv

(* An instance at work goes to another place with the same record.         *)
LEMMA PlaceStep ==
  ASSUME DripInv, NEW i \in Instances, drip[i].pc \in Dripping, NEW place \in {"balance", "send"}
  PROVE  StepInv([drip[i] EXCEPT !.pc = place])
<1>1. PICK d : d = [drip[i] EXCEPT !.pc = place]
  OBVIOUS
<1>2. /\ DOMAIN drip[i] = {"pc", "to", "enough", "sent", "todo"} /\ drip[i].to \in Spellings
      /\ drip[i].enough \in BOOLEAN /\ drip[i].todo \subseteq DOMAIN orders
  BY Working DEF Dripping
<1>3. /\ DOMAIN d = {"pc", "to", "enough", "sent", "todo"} /\ d.to = drip[i].to
      /\ d.enough = drip[i].enough /\ d.todo = drip[i].todo /\ d.pc = place
  BY <1>1, <1>2
<1> QED BY <1>1, <1>2, <1>3 DEF StepInv, Dripping

LEMMA ReadRowStep ==
  ASSUME DripInv, NEW i \in Instances, ReadRow(i)
  PROVE  DripInv'
<1>1. drip[i].pc = "row" /\ drip[i].pc \in Dripping /\ UNCHANGED <<depositVars, dripRest, faults>>
  BY DEF ReadRow, Dripping
<1>2. CASE Done(i)
  BY <1>1, <1>2, DoneStep, QuietStep DEF dripRest, DripInv
<1>3. CASE Proceed(i, [drip[i] EXCEPT !.pc = "balance"])
  BY <1>1, <1>3, PlaceStep, QuietStep DEF dripRest, DripInv
<1> QED BY <1>2, <1>3 DEF ReadRow

LEMMA CheckRecipientStep ==
  ASSUME DripInv, NEW i \in Instances, CheckRecipient(i)
  PROVE  DripInv'
<1>1. drip[i].pc \in Dripping /\ UNCHANGED <<depositVars, dripRest>>
  BY DEF CheckRecipient, Dripping
<1>2. faults' \in Nat
  BY DEF CheckRecipient, Fault, DripInv
<1>3. Proceed(i, [drip[i] EXCEPT !.pc = "send"])
  BY DEF CheckRecipient
<1> QED BY <1>1, <1>2, <1>3, PlaceStep, QuietStep DEF dripRest

LEMMA ThrowStep ==
  ASSUME DripInv, NEW i \in Instances, Throw(i)
  PROVE  DripInv'
<1>1. UNCHANGED <<depositVars, transfers>> /\ faults' \in Nat
  BY DEF Throw, dripRest, Fault, DripInv
<1>2. CASE Proceed(i, Idle)
  <2>1. StepInv(Idle)
    BY DEF StepInv, Idle, Dripping
  <2> QED BY <1>1, <1>2, <2>1, QuietStep
<1>3. CASE Done(i)
  <2>1. drip[i].pc # "idle"
    BY Working DEF Throw
  <2> QED BY <1>1, <1>3, <2>1, DoneStep, QuietStep
<1> QED BY <1>2, <1>3 DEF Throw

(* A transfer is sent: the sequence grows by it.                           *)
LEMMA NewTransfer ==
  ASSUME DripInv, NEW w \in Wallets,
         transfers' = Append(transfers, [to |-> w, status |-> "pending"])
  PROVE  /\ TransfersKept /\ Len(transfers) \in Nat /\ DOMAIN transfers = 1 .. Len(transfers)
         /\ Len(transfers') = Len(transfers) + 1 /\ DOMAIN transfers' = DOMAIN transfers \cup {Len(transfers')}
         /\ transfers'[Len(transfers')].to = w
<1>1. transfers \in Seq(Transfer)
  BY DEF DripInv
<1>2. PICK t : t = [to |-> w, status |-> "pending"]
  OBVIOUS
<1>3. t \in Transfer /\ t.to = w
  BY <1>2 DEF Transfer
<1>4. /\ transfers' \in Seq(Transfer) /\ Len(transfers') = Len(transfers) + 1
      /\ \A k \in 1 .. Len(transfers) : transfers'[k] = transfers[k]
      /\ transfers'[Len(transfers) + 1] = t
  BY <1>1, <1>2, <1>3, AppendProperties
<1>5. /\ Len(transfers) \in Nat /\ DOMAIN transfers = 1 .. Len(transfers)
      /\ DOMAIN transfers' = 1 .. Len(transfers) + 1
  BY <1>1, <1>4, LenProperties
<1>6. DOMAIN transfers' = DOMAIN transfers \cup {Len(transfers')}
  BY <1>4, <1>5
<1> QED BY <1>3, <1>4, <1>5, <1>6 DEF TransfersKept

LEMMA SendStep ==
  ASSUME DripInv, NEW i \in Instances, Send(i)
  PROVE  DripInv'
<1>1. drip[i].pc = "send" /\ drip[i].pc \in Dripping /\ drip[i].pc # "idle" /\ UNCHANGED depositVars
  BY DEF Send, Dripping
<1>2. PICK w : w = WalletOf[drip[i].to]
  OBVIOUS
<1>3. w \in Wallets /\ transfers' = Append(transfers, [to |-> w, status |-> "pending"])
  BY <1>1, <1>2, Working DEF Send
<1>4. TransfersKept /\ Len(transfers') \in DOMAIN transfers' /\ transfers'[Len(transfers')].to = w
  BY <1>3, NewTransfer
<1>5. DepositInv' /\ OutcomeIsOnChain' /\ DOMAIN orders \subseteq DOMAIN orders' /\ faults' \in Nat
  BY <1>1, <1>4, NoRowWritten DEF Send, Fault, DripInv
<1>6. CASE Done(i)
  <2>1. PICK d : Proceed(i, d) /\ StepInv(d)
    BY <1>1, <1>6, DoneStep
  <2>2. StepInv(d)'
    BY <1>4, <1>5, <2>1, StepKept
  <2> QED BY <1>4, <1>5, <2>1, <2>2, InstanceStep
<1>7. CASE Proceed(i, [drip[i] EXCEPT !.pc = "receipt", !.sent = Len(transfers')])
  <2>1. PICK d : d = [drip[i] EXCEPT !.pc = "receipt", !.sent = Len(transfers')]
    OBVIOUS
  <2>2. /\ DOMAIN drip[i] = {"pc", "to", "enough", "sent", "todo"} /\ drip[i].to \in Spellings
        /\ drip[i].enough \in BOOLEAN /\ drip[i].todo \subseteq DOMAIN orders
    BY <1>1, Working DEF Dripping
  <2>3. /\ DOMAIN d = {"pc", "to", "enough", "sent", "todo"} /\ d.to = drip[i].to
        /\ d.enough = drip[i].enough /\ d.todo = drip[i].todo /\ d.pc = "receipt" /\ d.sent = Len(transfers')
    BY <2>1, <2>2
  <2>4. StepInv(d)'
    BY <1>2, <1>4, <1>5, <2>2, <2>3 DEF StepInv, Dripping
  <2> QED BY <1>4, <1>5, <1>7, <2>1, <2>4, InstanceStep
<1> QED BY <1>6, <1>7 DEF Send

LEMMA MineTransferStep ==
  ASSUME DripInv, NEW k \in DOMAIN transfers, MineTransfer(k)
  PROVE  DripInv' /\ TransfersKept /\ DOMAIN transfers' = DOMAIN transfers
<1>1. /\ UNCHANGED <<depositVars, drip, faults>> /\ transfers[k].status = "pending"
      /\ \E status \in {"success", "reverted"} : transfers' = [transfers EXCEPT ![k].status = status]
  BY DEF MineTransfer
<1>2. PICK status \in {"success", "reverted"} : transfers' = [transfers EXCEPT ![k].status = status]
  BY <1>1
<1>3. transfers \in Seq(Transfer)
  BY DEF DripInv
<1>4. k \in 1 .. Len(transfers) /\ DOMAIN transfers = 1 .. Len(transfers) /\ transfers[k] \in Transfer
  BY <1>3, LenProperties, ElementOfSeq
<1>5. PICK t : t = [transfers[k] EXCEPT !.status = status]
  OBVIOUS
<1>6. t \in Transfer /\ t.to = transfers[k].to
  BY <1>4, <1>5 DEF Transfer
<1>7. /\ transfers' = [transfers EXCEPT ![k] = t] /\ DOMAIN transfers' = DOMAIN transfers
      /\ \A j \in DOMAIN transfers : transfers'[j] = IF j = k THEN t ELSE transfers[j]
  BY <1>2, <1>5
<1>8. transfers' \in Seq(Transfer)
  BY <1>3, <1>4, <1>6, <1>7, ExceptSeq
<1>9. TransfersKept
  BY <1>1, <1>6, <1>7, <1>8 DEF TransfersKept
<1>10. DepositInv' /\ OutcomeIsOnChain' /\ DOMAIN orders \subseteq DOMAIN orders'
  BY <1>1, <1>9, NoRowWritten
<1> QED BY <1>1, <1>7, <1>9, <1>10, OutsideDrip DEF DripInv

(* The routes and the watchers add orders, and rows with a preference.     *)
LEMMA DepositNextFacts ==
  ASSUME DepositInv, DepositNext
  PROVE  /\ DOMAIN orders \subseteq DOMAIN orders'
         /\ \A s \in Spellings : drips'[s] # drips[s] => drips'[s] \in Preferences
<1>1. orders \in Seq(Order) /\ DOMAIN orders = 1 .. Len(orders) /\ drips \in [Spellings -> Statuses]
  BY TableFacts DEF DepositInv, TablesInv
<1>2. ASSUME NEW c \in Callers, NEW s \in Spellings, NEW status \in Preferences, Lookup(c, s, status)
      PROVE  /\ DOMAIN orders \subseteq DOMAIN orders'
             /\ \A t \in Spellings : drips'[t] # drips[t] => drips'[t] \in Preferences
  BY <1>1, <1>2 DEF Lookup
<1>3. ASSUME NEW c \in Callers, NEW s \in Spellings, ReadQuoteIndex(c, s)
      PROVE  UNCHANGED <<orders, drips>>
  BY <1>3 DEF ReadQuoteIndex
<1>4. ASSUME NEW c \in Callers, Allocate(c)
      PROVE  UNCHANGED <<orders, drips>>
  BY <1>4 DEF Allocate
<1>5. ASSUME NEW c \in Callers, InsertAddress(c)
      PROVE  /\ DOMAIN orders \subseteq DOMAIN orders'
             /\ \A t \in Spellings : drips'[t] # drips[t] => drips'[t] \in Preferences
  <2>1. calls[c].status \in Preferences
    BY <1>5 DEF InsertAddress, DepositInv, CallInv
  <2> QED BY <1>5, <2>1 DEF InsertAddress
<1>6. ASSUME NEW new, orders' = Append(orders, new)
      PROVE  DOMAIN orders \subseteq DOMAIN orders'
  BY <1>1, <1>6
<1>7. ASSUME NEW c \in Callers, InsertQuote(c)
      PROVE  DOMAIN orders \subseteq DOMAIN orders' /\ UNCHANGED drips
  BY <1>6, <1>7 DEF InsertQuote
<1>8. ASSUME NEW paid, MineBlock(paid)
      PROVE  UNCHANGED <<orders, drips>>
  BY <1>8 DEF MineBlock, apiVars
<1>9. ASSUME NEW v \in Watchers, Handles(v) \/ RecordFails(v) \/ Restart(v)
      PROVE  DOMAIN orders \subseteq DOMAIN orders' /\ UNCHANGED drips
  <2>1. UNCHANGED drips
    BY <1>9 DEF Handles, StartBlock, IdThrows, FirstSight, ReadTracked, CheckRecorded, Ingest,
       EndBlock, RecordFails, Restart, apiVars
  <2>2. CASE FirstSight(v)
    BY <2>1, <2>2 DEF FirstSight
  <2>3. CASE Ingest(v)
    BY <1>6, <2>1, <2>3 DEF Ingest
  <2> QED BY <1>9, <2>1, <2>2, <2>3 DEF Handles, StartBlock, IdThrows, ReadTracked, CheckRecorded,
         EndBlock, RecordFails, Restart
<1> QED BY <1>2, <1>3, <1>4, <1>5, <1>7, <1>8, <1>9 DEF DepositNext

LEMMA DepositSide ==
  ASSUME DripInv, DepositNext, UNCHANGED dripVars
  PROVE  DripInv'
<1>1. DepositInv'
  BY DepositSteps DEF DripInv
<1>2. TransfersKept /\ UNCHANGED drip /\ faults' \in Nat
  BY SameTransfers DEF DripInv, dripVars
<1>3. OutcomeIsOnChain'
  <2>1. \A s \in Spellings : drips'[s] \in {"sent", "failed"} => drips'[s] = drips[s]
    BY AddressAssumption, DepositNextFacts DEF DripInv
  <2> QED BY <1>2, <2>1, OutcomeKept DEF DripInv
<1> QED BY <1>1, <1>2, <1>3, DepositNextFacts, OutsideDrip DEF DripInv

LEMMA DripSteps == DripInv /\ [Next]_vars => DripInv'
<1> SUFFICES ASSUME DripInv, [Next]_vars PROVE DripInv'
  OBVIOUS
<1>1. CASE DepositNext /\ UNCHANGED dripVars
  BY <1>1, DepositSide
<1>2. ASSUME NEW i \in Instances, Drips(i) \/ Throw(i)
      PROVE  DripInv'
  <2>1. CASE SkipRecipient(i)
    BY <2>1, PutOffStep DEF SkipRecipient, Dripping
  <2>2. CASE WalletDry(i)
    BY <2>2, PutOffStep DEF WalletDry, Dripping
  <2> QED BY <1>2, <2>1, <2>2, ListSubmittedStep, ReadRowStep, CheckRecipientStep, SendStep,
             RecordStep, ThrowStep DEF Drips
<1>3. ASSUME NEW i \in Instances, drip[i].pc = "confirm", NEW o \in drip[i].todo,
             NEW enough \in BOOLEAN, Complete(i, o, enough)
      PROVE  DripInv'
  BY <1>3, CompleteStep
<1>4. ASSUME NEW k \in DOMAIN transfers, MineTransfer(k)
      PROVE  DripInv'
  BY <1>4, MineTransferStep
<1>5. ASSUME UNCHANGED <<depositVars, drip, transfers, faults>>
      PROVE  DripInv'
  <2>1. TransfersKept
    BY <1>5, SameTransfers DEF DripInv
  <2> QED BY <1>5, <2>1, NoRowWritten, OutsideDrip DEF DripInv
<1>6. CASE (\E w \in Wallets : Spend(w)) \/ Refill \/ UNCHANGED vars
  BY <1>5, <1>6 DEF Spend, Refill, vars, dripVars
<1> QED BY <1>1, <1>2, <1>3, <1>4, <1>6 DEF Next

(* A row says of a drip what the chain does, for any number of instances,  *)
(* whatever fails (drip-sender.ts, sendDripIfEligible).                    *)
THEOREM DripInvariant == Spec => []DripInv
<1>1. Init => DripInv
  <2> SUFFICES ASSUME Init PROVE DripInv
    OBVIOUS
  <2>1. DepositInv
    BY DepositInitially DEF Init
  <2>2. transfers \in Seq(Transfer) /\ faults \in Nat /\ drip = [i \in Instances |-> Idle]
    BY EmptySeq DEF Init
  <2>3. \A i \in Instances : StepInv(drip[i])
    BY <2>2 DEF StepInv, Idle, Dripping
  <2>4. OutcomeIsOnChain
    BY DEF Init, DepositInit, OutcomeIsOnChain
  <2> QED BY <2>1, <2>2, <2>3, <2>4 DEF DripInv
<1> QED BY <1>1, DripSteps, PTL DEF Spec

(* A row says sent or failed only of a drip that succeeded or reverted for *)
(* that wallet (migration 009, the status machine).                        *)
THEOREM OutcomeOnChain == Spec => []OutcomeIsOnChain
<1>1. DripInv => OutcomeIsOnChain
  BY DEF DripInv
<1> QED BY <1>1, DripInvariant, PTL

-------------------------------------------------------------------------------
(* One row for a wallet.                                                   *)

(* Rows stay what they are, but for what is no opt-out at either time.     *)
LEMMA OneRowKept ==
  ASSUME DripInv, OneRowInv, UNCHANGED calls,
         \A s \in Spellings : /\ drips'[s] = "none" <=> drips[s] = "none"
                              /\ drips[s] # "opted_out" => drips'[s] # "opted_out",
         \A i \in Instances : drip'[i].pc \in Sending =>
           /\ drip'[i].to \in Spellings
           /\ \E r \in Rows(WalletOf[drip'[i].to]) : drips[r] # "opted_out"
  PROVE  OneRowInv'
<1>1. \A w : Rows(w)' = Rows(w)
  BY DEF Rows
<1>2. \A c, s : Holding(c, s)' <=> Holding(c, s)
  BY DEF Holding, Allocating
<1>3. \A s \in Spellings : Rows(WalletOf[s])' = Rows(WalletOf[s])
  BY DEF Rows
<1>4. ASSUME NEW i \in Instances, drip'[i].pc \in Sending
      PROVE  (\E r \in Rows(WalletOf[drip[i].to]) : drips[r] # "opted_out")'
  <2>1. PICK r \in Rows(WalletOf[drip'[i].to]) : drips[r] # "opted_out"
    BY <1>4
  <2>2. r \in Spellings /\ drips'[r] # "none" /\ WalletOf[r] = WalletOf[drip'[i].to] /\ drips'[r] # "opted_out"
    BY <2>1 DEF Rows
  <2> QED BY <2>2 DEF Rows
<1> QED BY <1>2, <1>3, <1>4 DEF OneRowInv

(* The only row of a wallet.                                               *)
LEMMA OnlyRow ==
  ASSUME OneRowInv, NEW w, NEW r \in Rows(w), NEW s \in Rows(w)
  PROVE  r = s
BY DEF OneRowInv, Rows

(* A request reads, or begins to hold the row of a wallet without one.     *)
LEMMA OneRowLookup ==
  ASSUME OneAtATime, DripInv, OneRowInv, UNCHANGED drip, NEW c \in Callers, NEW s \in Spellings,
         NEW status \in Preferences, Lookup(c, s, status)
  PROVE  OneRowInv'
<1>1. DOMAIN calls = Callers /\ drips \in [Spellings -> Statuses] /\ ~Allocating(c)
  BY DEF DripInv, DepositInv, TablesInv, Lookup, Idle, Allocating
<1>2. CASE UNCHANGED <<drips, calls>>
  BY <1>2, OneRowKept DEF OneRowInv, DripInv, StepInv, Sending, Dripping
<1>3. CASE ~UNCHANGED drips
  <2>1. /\ UNCHANGED calls /\ drips' = [drips EXCEPT ![s] = status]
        /\ NoRowYet(s) /\ RowIsFree(s)
    BY <1>3 DEF Lookup
  <2>2. \A d \in Callers, t \in Spellings : Holding(d, t) => WalletOf[t] # WalletOf[s]
    <3>1. SUFFICES ASSUME NEW d \in Callers, NEW t \in Spellings, Holding(d, t), WalletOf[t] = WalletOf[s]
                   PROVE  FALSE
      OBVIOUS
    <3>2. CASE d = c
      BY <1>1, <3>1, <3>2 DEF Holding
    <3>3. CASE d # c
      <4>1. t = s
        BY <3>1, <3>3 DEF OneAtATime
      <4> QED BY <2>1, <3>1, <4>1 DEF RowIsFree, Holding, Allocating
    <3> QED BY <3>2, <3>3
  <2>3. \A t \in Spellings : WalletOf[t] = WalletOf[s] => drips[t] = "none"
    BY <2>1 DEF NoRowYet, Rows
  <2>4. \A t \in Spellings : t # s => drips'[t] = drips[t]
    BY <2>1
  <2>5. \A t, u \in Spellings :
          drips'[t] # "none" /\ drips'[u] # "none" /\ WalletOf[t] = WalletOf[u] => t = u
    BY <2>3, <2>4 DEF OneRowInv
  <2>6. \A d, t : Holding(d, t)' <=> Holding(d, t)
    BY <2>1 DEF Holding, Allocating
  <2>7. \A t \in Spellings : WalletOf[t] # WalletOf[s] => Rows(WalletOf[t])' = Rows(WalletOf[t])
    BY <2>4 DEF Rows
  <2>8. \A d \in Callers, t \in Spellings : Holding(d, t)' => Rows(WalletOf[t])' = {}
    BY <2>2, <2>6, <2>7 DEF OneRowInv
  <2>9. ASSUME NEW i \in Instances, drip'[i].pc \in Sending
        PROVE  (\E r \in Rows(WalletOf[drip[i].to]) : drips[r] # "opted_out")'
    <3>1. PICK r \in Rows(WalletOf[drip[i].to]) : drips[r] # "opted_out"
      BY <2>9 DEF OneRowInv
    <3>2. r # s /\ r \in Spellings
      BY <2>3, <3>1 DEF Rows
    <3> QED BY <2>4, <3>1, <3>2 DEF Rows
  <2> QED BY <2>5, <2>6, <2>8, <2>9 DEF OneRowInv
<1>4. CASE UNCHANGED drips /\ ~UNCHANGED calls
  <2>1. PICK held :
        calls' = [calls EXCEPT ![c] = [pc |-> "allocate", owner |-> s, status |-> status,
                                       drip |-> held]]
                    /\ (held = << >> \/ (held = <<s>> /\ NoRowYet(s) /\ RowIsFree(s)))
    BY <1>4 DEF Lookup, Step
  <2>2. /\ calls'[c].drip = held /\ \A d \in Callers : d # c => calls'[d] = calls[d]
    BY <1>1, <2>1
  <2>3. \A d \in Callers, t \in Spellings : d # c => (Holding(d, t)' <=> Holding(d, t))
    BY <2>2 DEF Holding, Allocating
  <2>4. \A t \in Spellings : Holding(c, t)' => t = s /\ NoRowYet(s) /\ RowIsFree(s)
    BY <2>1, <2>2 DEF Holding
  <2>5. \A w : Rows(w)' = Rows(w)
    BY <1>4 DEF Rows
  <2>6. ASSUME NEW d \in Callers, NEW t \in Spellings, d # c, Holding(d, t), WalletOf[t] = WalletOf[s],
               RowIsFree(s)
        PROVE  FALSE
    <3>1. t = s
      BY <2>6 DEF OneAtATime
    <3> QED BY <2>6, <3>1 DEF RowIsFree, Holding, Allocating
  <2>7. \A d, e \in Callers : \A t, u \in Spellings :
          Holding(d, t)' /\ Holding(e, u)' /\ WalletOf[t] = WalletOf[u] => d = e
    BY <2>3, <2>4, <2>6 DEF OneRowInv
  <2>8. \A d \in Callers, t \in Spellings : Holding(d, t)' => Rows(WalletOf[t]) = {}
    BY <2>3, <2>4 DEF OneRowInv, NoRowYet
  <2>9. \A t \in Spellings : Rows(WalletOf[t])' = Rows(WalletOf[t])
    BY <1>4 DEF Rows
  <2>10. \A i \in Instances : drip'[i].pc \in Sending =>
           (\E r \in Rows(WalletOf[drip[i].to]) : drips[r] # "opted_out")'
    BY <1>4 DEF OneRowInv, Rows
  <2> QED BY <1>4, <2>7, <2>8, <2>9, <2>10 DEF OneRowInv
<1> QED BY <1>2, <1>3, <1>4

(* The row that a request holds is inserted.                               *)
LEMMA OneRowInsert ==
  ASSUME DripInv, OneRowInv, UNCHANGED drip, NEW c \in Callers, InsertAddress(c)
  PROVE  OneRowInv'
<1>1. DOMAIN calls = Callers /\ drips \in [Spellings -> Statuses] /\ Allocating(c)
      /\ calls' = [calls EXCEPT ![c] = Idle]
  BY DEF DripInv, DepositInv, TablesInv, InsertAddress, Step, Allocating
<1>2. \A d \in Callers : \A t : Holding(d, t)' => d # c /\ Holding(d, t)
  BY <1>1 DEF Holding, Allocating, Idle
<1>3. ASSUME NEW s \in Spellings, drips'[s] # drips[s]
      PROVE  Holding(c, s)
  BY <1>1, <1>3 DEF InsertAddress, Holding
<1>4. \A s, t \in Spellings :
        drips'[s] # "none" /\ drips'[t] # "none" /\ WalletOf[s] = WalletOf[t] => s = t
  <2>1. SUFFICES ASSUME NEW s \in Spellings, NEW t \in Spellings, drips'[s] # "none", drips'[t] # "none",
                        WalletOf[s] = WalletOf[t]
                 PROVE  s = t
    OBVIOUS
  <2>2. CASE drips'[s] = drips[s] /\ drips'[t] = drips[t]
    BY <2>1, <2>2 DEF OneRowInv
  <2>3. CASE Holding(c, s)
    <3>1. Rows(WalletOf[t]) = {}
      BY <2>1, <2>3 DEF OneRowInv
    <3>2. Holding(c, t)
      BY <1>3, <2>1, <3>1 DEF Rows
    <3> QED BY <2>3, <3>2 DEF Holding
  <2>4. CASE Holding(c, t)
    <3>1. Rows(WalletOf[s]) = {}
      BY <2>1, <2>4 DEF OneRowInv
    <3>2. Holding(c, s)
      BY <1>3, <2>1, <3>1 DEF Rows
    <3> QED BY <2>4, <3>2 DEF Holding
  <2> QED BY <1>3, <2>2, <2>3, <2>4
<1>5. \A d \in Callers, s \in Spellings : Holding(d, s)' => Rows(WalletOf[s])' = {}
  <2>1. SUFFICES ASSUME NEW d \in Callers, NEW s \in Spellings, Holding(d, s), d # c,
                        NEW t \in Rows(WalletOf[s])'
                 PROVE  FALSE
    BY <1>2
  <2>2. t \in Spellings /\ WalletOf[t] = WalletOf[s] /\ drips'[t] # "none"
    BY <2>1 DEF Rows
  <2>3. drips[t] = "none"
    BY <2>1, <2>2 DEF OneRowInv, Rows
  <2>4. Holding(c, t)
    BY <1>3, <2>2, <2>3
  <2> QED BY <2>1, <2>2, <2>4 DEF OneRowInv
<1>6. ASSUME NEW i \in Instances, drip'[i].pc \in Sending
      PROVE  (\E r \in Rows(WalletOf[drip[i].to]) : drips[r] # "opted_out")'
  <2>1. PICK r \in Rows(WalletOf[drip[i].to]) : drips[r] # "opted_out"
    BY <1>6 DEF OneRowInv
  <2>2. r \in Spellings /\ drips[r] # "none" /\ ~Holding(c, r)
    BY <2>1 DEF Rows, OneRowInv
  <2>3. drips'[r] = drips[r]
    BY <1>3, <2>2
  <2> QED BY <2>1, <2>2, <2>3 DEF Rows
<1>7. \A d, e \in Callers : \A s, t \in Spellings :
        Holding(d, s)' /\ Holding(e, t)' /\ WalletOf[s] = WalletOf[t] => d = e
  BY <1>2 DEF OneRowInv
<1> QED BY <1>4, <1>5, <1>6, <1>7 DEF OneRowInv

(* A step of an instance: where it goes on to send, a row lets it.         *)
LEMMA OneRowStep ==
  ASSUME DripInv, OneRowInv, UNCHANGED calls, NEW i \in Instances, NEW d, Proceed(i, d),
         \A s \in Spellings : /\ drips'[s] = "none" <=> drips[s] = "none"
                              /\ drips[s] # "opted_out" => drips'[s] # "opted_out",
         d.pc \in Sending => d.to \in Spellings /\ \E r \in Rows(WalletOf[d.to]) : drips[r] # "opted_out"
  PROVE  OneRowInv'
<1>1. ASSUME NEW j \in Instances, drip'[j].pc \in Sending
      PROVE  /\ drip'[j].to \in Spellings
             /\ \E r \in Rows(WalletOf[drip'[j].to]) : drips[r] # "opted_out"
  <2>1. CASE j = i
    BY <1>1, <2>1 DEF Proceed, DripInv
  <2>2. CASE j # i
    <3>1. drip'[j] = drip[j]
      BY <2>2 DEF Proceed, DripInv
    <3> QED BY <1>1, <3>1, Working DEF OneRowInv, Sending, Dripping
  <2> QED BY <2>1, <2>2
<1> QED BY <1>1, OneRowKept

(* The next order of the list is not sent anything yet.                    *)
LEMMA DoneEnds ==
  ASSUME NEW i, Done(i)
  PROVE  \E d : Proceed(i, d) /\ d.pc \in {"idle", "confirm"}
BY DEF Done, Idle

(* The rows of a wallet get a status that is neither none nor an opt-out.  *)
LEMMA OneRowUpdated ==
  ASSUME DripInv, OneRowInv, NEW i \in Instances, drip[i].pc \in Sending, UNCHANGED calls,
         NEW status \in Statuses \ {"none", "opted_out"}, UpdateRows(drip[i].to, status), Done(i)
  PROVE  OneRowInv'
<1>1. PICK d : Proceed(i, d) /\ d.pc \in {"idle", "confirm"}
  BY DoneEnds
<1>2. \A s \in Spellings : /\ drips'[s] = "none" <=> drips[s] = "none"
                           /\ drips[s] # "opted_out" => drips'[s] # "opted_out"
  BY DEF UpdateRows, Rows
<1> QED BY <1>1, <1>2, OneRowStep DEF Sending

LEMMA OneRowDrips ==
  ASSUME DripInv, OneRowInv, NEW i \in Instances, Drips(i) \/ Throw(i)
  PROVE  OneRowInv'
<1>1. ASSUME UNCHANGED depositVars, NEW d, Proceed(i, d), d.pc \notin Sending
      PROVE  OneRowInv'
  BY <1>1, OneRowStep DEF depositVars, apiVars
<1>2. ASSUME UNCHANGED depositVars, Done(i)
      PROVE  OneRowInv'
  BY <1>1, <1>2, DoneEnds DEF Sending
<1>3. ASSUME UNCHANGED depositVars, drip[i].pc \in Sending, NEW d, Proceed(i, d), d.to = drip[i].to
      PROVE  OneRowInv'
  <2>1. d.to \in Spellings /\ \E r \in Rows(WalletOf[d.to]) : drips[r] # "opted_out"
    BY <1>3, Working DEF OneRowInv, Sending, Dripping
  <2> QED BY <1>3, <2>1, OneRowStep DEF depositVars, apiVars
<1>4. CASE ListSubmitted(i)
  BY <1>1, <1>4 DEF ListSubmitted, Sending
<1>5. CASE ReadRow(i)
  <2>1. drip[i].pc = "row" /\ drip[i].pc \in Dripping /\ UNCHANGED depositVars
    BY <1>5 DEF ReadRow, Dripping
  <2>2. CASE Done(i)
    BY <1>2, <2>1, <2>2
  <2>3. CASE ~Done(i)
    <3>1. Proceed(i, [drip[i] EXCEPT !.pc = "balance"])
      BY <1>5, <2>3 DEF ReadRow
    <3>2. PICK r \in Rows(WalletOf[drip[i].to]) : drips[r] \notin Final
      BY <1>5, <2>3 DEF ReadRow
    <3>3. PICK d : d = [drip[i] EXCEPT !.pc = "balance"]
      OBVIOUS
    <3>4. d.to = drip[i].to /\ d.to \in Spellings
      BY <2>1, <3>3, Working
    <3>5. drips[r] # "opted_out"
      BY <3>2 DEF Final
    <3> QED BY <2>1, <3>1, <3>2, <3>3, <3>4, <3>5, OneRowStep DEF depositVars, apiVars
  <2> QED BY <2>2, <2>3
<1>6. CASE SkipRecipient(i)
  BY <1>6, OneRowUpdated DEF SkipRecipient, Sending, depositRest, Statuses
<1>7. CASE CheckRecipient(i)
  <2>1. drip[i].pc = "balance" /\ drip[i].pc \in Dripping /\ UNCHANGED depositVars
    BY <1>7 DEF CheckRecipient, Dripping
  <2>2. PICK d : d = [drip[i] EXCEPT !.pc = "send"]
    OBVIOUS
  <2>3. d.to = drip[i].to
    BY <2>1, <2>2, Working
  <2> QED BY <1>3, <1>7, <2>1, <2>2, <2>3 DEF CheckRecipient, Sending
<1>8. CASE WalletDry(i)
  BY <1>8, OneRowUpdated DEF WalletDry, Sending, depositRest, Statuses
<1>9. CASE Send(i)
  <2>1. drip[i].pc = "send" /\ drip[i].pc \in Dripping /\ UNCHANGED depositVars
    BY <1>9 DEF Send, Dripping
  <2>2. PICK d : d = [drip[i] EXCEPT !.pc = "receipt", !.sent = Len(transfers')]
    OBVIOUS
  <2>3. d.to = drip[i].to
    BY <2>1, <2>2, Working
  <2>4. CASE Done(i)
    BY <1>2, <2>1, <2>4
  <2>5. CASE Proceed(i, d)
    BY <1>3, <2>1, <2>3, <2>5 DEF Sending
  <2> QED BY <1>9, <2>2, <2>4, <2>5 DEF Send
<1>10. CASE Record(i)
  <2>1. PICK status : status = IF transfers[drip[i].sent].status = "success" THEN "sent" ELSE "failed"
    OBVIOUS
  <2>2. UpdateRows(drip[i].to, status) /\ Done(i) /\ drip[i].pc \in Sending /\ UNCHANGED calls
    BY <1>10, <2>1 DEF Record, Sending, depositRest
  <2>3. status \in Statuses \ {"none", "opted_out"}
    BY <2>1 DEF Statuses
  <2> QED BY <2>2, <2>3, OneRowUpdated
<1>11. CASE Throw(i)
  <2>1. UNCHANGED depositVars /\ (Done(i) \/ Proceed(i, Idle))
    BY <1>11 DEF Throw
  <2>2. Idle.pc \notin Sending
    BY DEF Idle, Sending
  <2> QED BY <1>1, <1>2, <2>1, <2>2
<1> QED BY <1>4, <1>5, <1>6, <1>7, <1>8, <1>9, <1>10, <1>11 DEF Drips

(* A row that was nobody's, and only that, is written by a request.        *)
LEMMA OnlyNewRows ==
  ASSUME DripInv, OneRowInv, DepositNext
  PROVE  \A s \in Spellings : drips'[s] # drips[s] => Rows(WalletOf[s]) = {} /\ drips[s] = "none"
<1>1. drips \in [Spellings -> Statuses]
  BY DEF DripInv, DepositInv, TablesInv
<1>2. SUFFICES ASSUME NEW s \in Spellings, drips'[s] # drips[s]
               PROVE  Rows(WalletOf[s]) = {}
  BY DEF Rows
<1>3. ASSUME NEW c \in Callers, NEW t \in Spellings, NEW status \in Preferences, Lookup(c, t, status)
      PROVE  Rows(WalletOf[s]) = {}
  BY <1>1, <1>2, <1>3 DEF Lookup, NoRowYet
<1>4. ASSUME NEW c \in Callers, InsertAddress(c)
      PROVE  Rows(WalletOf[s]) = {}
  BY <1>2, <1>4 DEF InsertAddress, OneRowInv, Holding, Allocating
<1>5. ASSUME UNCHANGED drips
      PROVE  FALSE
  BY <1>2, <1>5
<1>6. ASSUME NEW c \in Callers, NEW t \in Spellings, ReadQuoteIndex(c, t) \/ Allocate(c) \/ InsertQuote(c)
      PROVE  FALSE
  BY <1>5, <1>6 DEF ReadQuoteIndex, Allocate, InsertQuote
<1>7. ASSUME NEW v \in Watchers, Handles(v) \/ RecordFails(v) \/ Restart(v)
      PROVE  FALSE
  BY <1>5, <1>7 DEF Handles, StartBlock, IdThrows, FirstSight, ReadTracked, CheckRecorded, Ingest,
     EndBlock, RecordFails, Restart, apiVars
<1>8. ASSUME NEW paid, MineBlock(paid)
      PROVE  FALSE
  BY <1>5, <1>8 DEF MineBlock, apiVars
<1> QED BY <1>2, <1>3, <1>4, <1>6, <1>7, <1>8 DEF DepositNext

(* The other steps of the routes and those of the watchers hold no row.    *)
LEMMA OneRowOthers ==
  ASSUME DripInv, OneRowInv, UNCHANGED <<drip, drips>>,
         \A c \in Callers, s \in Spellings : Holding(c, s)' => Holding(c, s)
  PROVE  OneRowInv'
<1>1. \A w : Rows(w)' = Rows(w)
  BY DEF Rows
<1>2. \A s \in Spellings : Rows(WalletOf[s])' = Rows(WalletOf[s])
  BY DEF Rows
<1>3. ASSUME NEW i \in Instances, drip'[i].pc \in Sending
      PROVE  (\E r \in Rows(WalletOf[drip[i].to]) : drips[r] # "opted_out")'
  <2>1. PICK r \in Rows(WalletOf[drip[i].to]) : drips[r] # "opted_out"
    BY <1>3 DEF OneRowInv
  <2> QED BY <2>1 DEF Rows
<1> QED BY <1>2, <1>3 DEF OneRowInv

LEMMA OneRowDeposits ==
  ASSUME OneAtATime, DripInv, OneRowInv, DepositNext, UNCHANGED drip
  PROVE  OneRowInv'
<1>1. DOMAIN calls = Callers
  BY DEF DripInv, DepositInv
<1>2. ASSUME NEW c \in Callers, NEW call, Step(c, call), call.pc \in {"idle", "quote"}, UNCHANGED drips
      PROVE  OneRowInv'
  <2>1. \A d \in Callers, s \in Spellings : Holding(d, s)' => Holding(d, s)
    BY <1>1, <1>2 DEF Holding, Allocating, Step
  <2> QED BY <1>2, <2>1, OneRowOthers
<1>3. ASSUME NEW c \in Callers, NEW s \in Spellings, ReadQuoteIndex(c, s)
      PROVE  OneRowInv'
  BY <1>2, <1>3 DEF ReadQuoteIndex
<1>4. ASSUME NEW c \in Callers, InsertQuote(c)
      PROVE  OneRowInv'
  BY <1>2, <1>4 DEF InsertQuote, Idle
<1>5. ASSUME NEW c \in Callers, Allocate(c)
      PROVE  OneRowInv'
  <2>1. /\ calls[c].pc = "allocate" /\ UNCHANGED drips
        /\ \A d \in Callers : d # c => calls'[d] = calls[d]
        /\ calls'[c].drip = calls[c].drip
    BY <1>1, <1>5 DEF Allocate, Step
  <2>2. \A d \in Callers, s \in Spellings : Holding(d, s)' => Holding(d, s)
    BY <2>1 DEF Holding, Allocating
  <2> QED BY <2>1, <2>2, OneRowOthers
<1>6. ASSUME UNCHANGED apiVars
      PROVE  OneRowInv'
  BY <1>6, OneRowOthers DEF apiVars, Holding, Allocating
<1>7. ASSUME NEW paid, MineBlock(paid)
      PROVE  OneRowInv'
  BY <1>6, <1>7 DEF MineBlock
<1>8. ASSUME NEW v \in Watchers, Handles(v) \/ RecordFails(v) \/ Restart(v)
      PROVE  OneRowInv'
  BY <1>6, <1>8 DEF Handles, StartBlock, IdThrows, FirstSight, ReadTracked, CheckRecorded, Ingest,
     EndBlock, RecordFails, Restart
<1> QED BY <1>3, <1>4, <1>5, <1>7, <1>8, OneRowLookup, OneRowInsert DEF DepositNext

LEMMA OneRowSteps ==
  ASSUME OneAtATime PROVE DripInv /\ OneRowInv /\ [Next]_vars => OneRowInv'
<1> SUFFICES ASSUME DripInv, OneRowInv, [Next]_vars PROVE OneRowInv'
  OBVIOUS
<1>1. CASE DepositNext /\ UNCHANGED dripVars
  BY <1>1, OneRowDeposits DEF dripVars
<1>2. ASSUME NEW i \in Instances, Drips(i) \/ Throw(i)
      PROVE  OneRowInv'
  BY <1>2, OneRowDrips
<1>3. ASSUME NEW i \in Instances, NEW o, NEW enough, Complete(i, o, enough)
      PROVE  OneRowInv'
  <2>1. PICK d : d = [pc |-> "row", to |-> orders[o].owner, enough |-> enough, sent |-> 0,
                      todo |-> drip[i].todo \ {o}]
    OBVIOUS
  <2>2. Proceed(i, d) /\ UNCHANGED <<calls, drips>> /\ d.pc \notin Sending
    BY <1>3, <2>1 DEF Complete, depositVars, apiVars, Sending
  <2> QED BY <2>2, OneRowStep
<1>4. ASSUME UNCHANGED <<depositVars, drip>>
      PROVE  OneRowInv'
  BY <1>4, OneRowOthers DEF depositVars, apiVars, Holding, Allocating
<1>5. CASE \/ \E k \in DOMAIN transfers : MineTransfer(k)
           \/ \E w \in Wallets : Spend(w)
           \/ Refill \/ UNCHANGED vars
  BY <1>4, <1>5 DEF MineTransfer, Spend, Refill, vars, dripVars
<1> QED BY <1>1, <1>2, <1>3, <1>5 DEF Next

(* While first calls are kept apart, by their spelling or by coming one    *)
(* after another, a wallet has one row, and who opted out is sent nothing  *)
(* (deposit-address.ts:76, drip-sender.ts).                                *)
THEOREM OneRowInvariant == ASSUME OneAtATime PROVE Spec => []OneRowInv
<1>1. Init => OneRowInv
  BY DEF Init, DepositInit, OneRowInv, Holding, Allocating, Idle, Sending
<1>2. DripInv /\ OneRowInv /\ [Next]_vars => OneRowInv'
  BY OneRowSteps
<1> QED BY <1>1, <1>2, DripInvariant, PTL DEF Spec

-------------------------------------------------------------------------------
(* An opt-out stands.                                                      *)

(* An instance that would send has only a row that is no opt-out.          *)
LEMMA SendsToOthers ==
  ASSUME OneRowInv, NEW i \in Instances, drip[i].pc \in Sending,
         NEW s \in Spellings, drips[s] = "opted_out"
  PROVE  WalletOf[drip[i].to] # WalletOf[s]
<1>1. PICK r \in Rows(WalletOf[drip[i].to]) : drips[r] # "opted_out"
  BY DEF OneRowInv
<1>2. r \in Spellings /\ WalletOf[r] = WalletOf[drip[i].to] /\ drips[r] # "none"
  BY DEF Rows
<1> QED BY <1>1, <1>2 DEF OneRowInv

LEMMA OptOutSteps ==
  ASSUME DripInv, OneRowInv, [Next]_vars, NEW s \in Spellings, drips[s] = "opted_out"
  PROVE  drips'[s] = "opted_out" /\ SentTo(WalletOf[s])' = SentTo(WalletOf[s])
<1>1. ASSUME drips'[s] = drips[s], UNCHANGED transfers
      PROVE  drips'[s] = "opted_out" /\ SentTo(WalletOf[s])' = SentTo(WalletOf[s])
  BY <1>1 DEF SentTo
<1>2. CASE DepositNext /\ UNCHANGED dripVars
  BY <1>1, <1>2, OnlyNewRows DEF dripVars
<1>3. ASSUME NEW i \in Instances, Drips(i) \/ Throw(i)
      PROVE  drips'[s] = "opted_out" /\ SentTo(WalletOf[s])' = SentTo(WalletOf[s])
  <2>1. ASSUME drip[i].pc \in Sending, NEW status, UpdateRows(drip[i].to, status)
        PROVE  drips'[s] = drips[s]
    BY <2>1, SendsToOthers DEF UpdateRows, Rows
  <2>2. CASE SkipRecipient(i) \/ WalletDry(i) \/ Record(i)
    BY <1>1, <2>1, <2>2 DEF SkipRecipient, WalletDry, Record, dripRest, Sending
  <2>3. CASE ListSubmitted(i) \/ ReadRow(i) \/ CheckRecipient(i) \/ Throw(i)
    BY <1>1, <2>3 DEF ListSubmitted, ReadRow, CheckRecipient, Throw, dripRest, depositVars, apiVars
  <2>4. CASE Send(i)
    <3>1. PICK w : w = WalletOf[drip[i].to]
      OBVIOUS
    <3>2. drip[i].pc \in Sending /\ drip[i].pc \in Dripping
      BY <2>4 DEF Send, Sending, Dripping
    <3>3. /\ w # WalletOf[s] /\ w \in Wallets /\ UNCHANGED drips
          /\ transfers' = Append(transfers, [to |-> w, status |-> "pending"])
      BY <2>4, <3>1, <3>2, Working, SendsToOthers DEF Send, depositVars, apiVars
    <3>4. /\ TransfersKept /\ DOMAIN transfers' = DOMAIN transfers \cup {Len(transfers')}
          /\ transfers'[Len(transfers')].to = w
      BY <3>3, NewTransfer
    <3> QED BY <3>3, <3>4 DEF SentTo, TransfersKept
  <2> QED BY <1>3, <2>2, <2>3, <2>4 DEF Drips
<1>4. ASSUME NEW i \in Instances, NEW o, NEW enough, Complete(i, o, enough)
      PROVE  drips'[s] = "opted_out" /\ SentTo(WalletOf[s])' = SentTo(WalletOf[s])
  BY <1>1, <1>4 DEF Complete, depositVars, apiVars
<1>5. ASSUME NEW k \in DOMAIN transfers, MineTransfer(k)
      PROVE  drips'[s] = "opted_out" /\ SentTo(WalletOf[s])' = SentTo(WalletOf[s])
  <2>1. TransfersKept /\ DOMAIN transfers' = DOMAIN transfers
    BY <1>5, MineTransferStep
  <2> QED BY <1>5, <2>1 DEF SentTo, TransfersKept, MineTransfer, depositVars, apiVars
<1>6. CASE (\E w \in Wallets : Spend(w)) \/ Refill \/ UNCHANGED vars
  BY <1>1, <1>6 DEF Spend, Refill, vars, dripVars, depositVars, apiVars
<1> QED BY <1>2, <1>3, <1>4, <1>5, <1>6 DEF Next

(* Whoever opted out first stays out, and is sent no drip, as long as no   *)
(* first calls in two spellings cross (deposit-address.ts:76): the finding *)
(* GasDrip_findings is that the code does not keep such calls apart.       *)
THEOREM OptOutStaysOut == ASSUME OneAtATime PROVE Spec => OptOutStands
<1>1. DripInv /\ OneRowInv /\ [Next]_vars =>
        [\A s \in Spellings : drips[s] = "opted_out" =>
           drips'[s] = "opted_out" /\ (SentTo(WalletOf[s]) # {} \/ SentTo(WalletOf[s])' = {})]_vars
  <2> SUFFICES ASSUME DripInv, OneRowInv, [Next]_vars, NEW s \in Spellings, drips[s] = "opted_out"
               PROVE  drips'[s] = "opted_out" /\ (SentTo(WalletOf[s]) # {} \/ SentTo(WalletOf[s])' = {})
    OBVIOUS
  <2> QED BY OptOutSteps
<1>2. Spec => []DripInv
  BY DripInvariant
<1>3. Spec => []OneRowInv
  BY OneRowInvariant
<1> QED BY <1>1, <1>2, <1>3, PTL DEF Spec, OptOutStands

-------------------------------------------------------------------------------
(* One mint executor on its own.                                           *)

LEMMA SentToFinite ==
  ASSUME DripInv, NEW w
  PROVE  IsFiniteSet(SentTo(w)) /\ Cardinality(SentTo(w)) \in Nat
<1>1. transfers \in Seq(Transfer)
  BY DEF DripInv
<1>2. DOMAIN transfers = 1 .. Len(transfers) /\ Len(transfers) \in Nat
  BY <1>1, LenProperties
<1>3. IsFiniteSet(DOMAIN transfers)
  BY <1>2, FS_Interval
<1>4. SentTo(w) \subseteq DOMAIN transfers
  BY DEF SentTo
<1> QED BY <1>3, <1>4, FS_Subset, FS_CardinalityType

LEMMA StillOwed ==
  ASSUME NEW n \in Nat, NEW a \in Nat, NEW b \in Nat, NEW k \in Nat, NEW l \in Nat, k <= 1,
         n <= a + k, b >= a, k = 1 => l = 1 \/ b >= a + 1
  PROVE  n <= b + l
OBVIOUS

(* Nothing is sent, and what is forgotten is paid for by a fault.          *)
LEMMA RepeatKept ==
  ASSUME DripInv, RepeatInv,
         (\A i, j \in Instances : i = j) =>
           /\ \A w \in Wallets : SentTo(w)' = SentTo(w)
           /\ faults' \in Nat /\ faults' >= faults
           /\ \A w \in Wallets : Known(w) => Known(w)' \/ faults' >= faults + 1
           /\ \A i \in Instances : drip'[i].pc \in Sending =>
                \A r \in Rows(WalletOf[drip[i].to])' : drips'[r] \notin Final
  PROVE  RepeatInv'
<1>1. SUFFICES ASSUME \A i, j \in Instances : i = j
               PROVE  (/\ \A i \in Instances : drip[i].pc \in Sending =>
                            \A r \in Rows(WalletOf[drip[i].to]) : drips[r] \notin Final
                       /\ \A w \in Wallets : Cardinality(SentTo(w)) <= faults + (IF Known(w) THEN 1 ELSE 0))'
  BY DEF RepeatInv
<1>2. ASSUME NEW i \in Instances, drip'[i].pc \in Sending
      PROVE  (\A r \in Rows(WalletOf[drip[i].to]) : drips[r] \notin Final)'
  BY <1>1, <1>2
<1>3. ASSUME NEW w \in Wallets
      PROVE  (Cardinality(SentTo(w)) <= faults + (IF Known(w) THEN 1 ELSE 0))'
  <2>1. PICK n, k, l : n = Cardinality(SentTo(w)) /\ k = (IF Known(w) THEN 1 ELSE 0)
                       /\ l = (IF Known(w)' THEN 1 ELSE 0)
    OBVIOUS
  <2>2. n \in Nat /\ k \in Nat /\ l \in Nat /\ k <= 1 /\ faults \in Nat /\ n <= faults + k
    BY <1>1, <2>1, SentToFinite DEF RepeatInv, DripInv
  <2>3. faults' \in Nat /\ faults' >= faults /\ (k = 1 => l = 1 \/ faults' >= faults + 1)
    BY <1>1, <2>1
  <2>4. n <= faults' + l
    BY <2>2, <2>3, StillOwed
  <2> QED BY <1>1, <2>1, <2>4
<1> QED BY <1>2, <1>3

(* Of a wallet that is sent something, one instance knows nothing yet.     *)
LEMMA NothingKnown ==
  ASSUME DripInv, RepeatInv, \A i, j \in Instances : i = j, NEW i \in Instances,
         drip[i].pc \in {"balance", "send"}
  PROVE  ~Known(WalletOf[drip[i].to])
<1>1. \A r \in Rows(WalletOf[drip[i].to]) : drips[r] \notin {"sent", "failed"}
  BY DEF RepeatInv, Sending, Final
<1>2. \A j \in Instances : drip[j].pc # "receipt"
  <2>1. SUFFICES ASSUME NEW j \in Instances PROVE drip[j].pc # "receipt"
    OBVIOUS
  <2>2. j = i
    OBVIOUS
  <2> QED BY <2>2
<1> QED BY <1>1, <1>2 DEF Known

(* A step of the instance that writes no row and sends nothing.            *)
LEMMA RepeatNoRow ==
  ASSUME DripInv, RepeatInv, NEW i \in Instances, NEW d, Proceed(i, d), UNCHANGED <<drips, transfers>>,
         faults' = faults + 1 \/ (faults' = faults /\ drip[i].pc # "receipt"),
         d.pc \in Sending => \A r \in Rows(WalletOf[d.to]) : drips[r] \notin Final
  PROVE  RepeatInv'
<1>1. SUFFICES ASSUME \A k, j \in Instances : k = j
               PROVE  /\ \A w \in Wallets : SentTo(w)' = SentTo(w)
                      /\ faults' \in Nat /\ faults' >= faults
                      /\ \A w \in Wallets : Known(w) => Known(w)' \/ faults' >= faults + 1
                      /\ \A j \in Instances : drip'[j].pc \in Sending =>
                           \A r \in Rows(WalletOf[drip[j].to])' : drips'[r] \notin Final
  BY RepeatKept
<1>2. faults \in Nat /\ drip'[i] = d
  BY DEF DripInv, Proceed
<1>3. \A w : Rows(w)' = Rows(w)
  BY DEF Rows
<1>4. ASSUME NEW w \in Wallets, Known(w), faults' # faults + 1
      PROVE  Known(w)'
  <2>1. \A j \in Instances : drip[j].pc # "receipt"
    BY <1>1, <1>4
  <2>2. PICK r \in Rows(w) : drips[r] \in {"sent", "failed"}
    BY <1>4, <2>1 DEF Known
  <2>3. r \in Rows(w)' /\ drips'[r] \in {"sent", "failed"}
    BY <1>3, <2>2
  <2> QED BY <2>3 DEF Known
<1>5. ASSUME NEW j \in Instances, drip'[j].pc \in Sending
      PROVE  \A r \in Rows(WalletOf[drip[j].to])' : drips'[r] \notin Final
  <2>1. j = i /\ d.pc \in Sending
    BY <1>1, <1>2, <1>5
  <2>2. Rows(WalletOf[drip[j].to])' = Rows(WalletOf[d.to])
    BY <1>2, <2>1 DEF Rows
  <2> QED BY <2>1, <2>2
<1> QED BY <1>2, <1>4, <1>5 DEF SentTo

(* The row of the wallet is written: of one that was awaited, the outcome. *)
LEMMA RepeatUpdated ==
  ASSUME DripInv, OneRowInv, RepeatInv, NEW i \in Instances, drip[i].pc \in Sending, NEW status \in Statuses,
         UpdateRows(drip[i].to, status), Done(i), UNCHANGED <<transfers, faults>>,
         drip[i].pc = "receipt" => status \in {"sent", "failed"}
  PROVE  RepeatInv'
<1>1. SUFFICES ASSUME \A k, j \in Instances : k = j
               PROVE  /\ \A w \in Wallets : SentTo(w)' = SentTo(w)
                      /\ faults' \in Nat /\ faults' >= faults
                      /\ \A w \in Wallets : Known(w) => Known(w)' \/ faults' >= faults + 1
                      /\ \A j \in Instances : drip'[j].pc \in Sending =>
                           \A r \in Rows(WalletOf[drip[j].to])' : drips'[r] \notin Final
  BY RepeatKept
<1>2. PICK w : w = WalletOf[drip[i].to]
  OBVIOUS
<1>3. drips' = [r \in Spellings |-> IF r \in Rows(w) THEN status ELSE drips[r]]
  BY <1>2 DEF UpdateRows
<1>4. \A j \in Instances : drip'[j].pc \notin Sending
  <2>1. PICK d : Proceed(i, d) /\ d.pc \in {"idle", "confirm"}
    BY DoneEnds
  <2>2. drip'[i].pc \notin Sending
    BY <2>1 DEF Proceed, DripInv, Sending
  <2> QED BY <1>1, <2>2
<1>5. ASSUME NEW u \in Wallets, Known(u), u # w
      PROVE  Known(u)'
  <2>1. ASSUME NEW j \in Instances PROVE WalletOf[drip[j].to] # u
    <3>1. j = i
      BY <1>1
    <3> QED BY <1>2, <1>5, <3>1
  <2>2. PICK r \in Rows(u) : drips[r] \in {"sent", "failed"}
    BY <1>5, <2>1 DEF Known
  <2>3. drips'[r] = drips[r] /\ r \in Spellings /\ WalletOf[r] = u
    BY <1>3, <1>5, <2>2 DEF Rows
  <2>4. r \in Rows(u)'
    BY <2>2, <2>3 DEF Rows
  <2> QED BY <2>2, <2>3, <2>4 DEF Known
<1>6. ASSUME Known(w)
      PROVE  Known(w)'
  <2>1. drip[i].pc = "receipt"
    BY <1>1, <1>2, <1>6, NothingKnown DEF Sending
  <2>2. PICK r \in Rows(w) : TRUE
    BY <1>2 DEF OneRowInv
  <2>3. drips'[r] \in {"sent", "failed"} /\ r \in Spellings /\ WalletOf[r] = w
    BY <1>3, <2>1, <2>2 DEF Rows
  <2>4. r \in Rows(w)'
    BY <2>3 DEF Rows
  <2> QED BY <2>3, <2>4 DEF Known
<1>7. faults \in Nat
  BY DEF DripInv
<1> QED BY <1>4, <1>5, <1>6, <1>7 DEF SentTo

(* One more is sent: it is awaited, or its answer is lost with a fault.    *)
LEMMA RepeatSend ==
  ASSUME DripInv, OneRowInv, RepeatInv, NEW i \in Instances, Send(i)
  PROVE  RepeatInv'
<1>1. SUFFICES ASSUME \A k, j \in Instances : k = j
               PROVE  /\ \A j \in Instances : drip'[j].pc \in Sending =>
                           \A r \in Rows(WalletOf[drip[j].to])' : drips'[r] \notin Final
                      /\ \A w \in Wallets : Cardinality(SentTo(w)') <= faults' + (IF Known(w)' THEN 1 ELSE 0)
  BY DEF RepeatInv
<1>2. PICK w : w = WalletOf[drip[i].to]
  OBVIOUS
<1>3. drip[i].pc = "send" /\ drip[i].pc \in Dripping /\ UNCHANGED drips
  BY DEF Send, Dripping, depositVars, apiVars
<1>4. w \in Wallets /\ transfers' = Append(transfers, [to |-> w, status |-> "pending"])
  BY <1>2, <1>3, Working DEF Send
<1>5. PICK n : n = Len(transfers')
  OBVIOUS
<1>6. /\ TransfersKept /\ n \notin DOMAIN transfers
      /\ DOMAIN transfers' = DOMAIN transfers \cup {n} /\ transfers'[n].to = w
  <2>1. /\ TransfersKept /\ Len(transfers) \in Nat /\ DOMAIN transfers = 1 .. Len(transfers)
        /\ Len(transfers') = Len(transfers) + 1
        /\ DOMAIN transfers' = DOMAIN transfers \cup {Len(transfers')} /\ transfers'[Len(transfers')].to = w
    BY <1>4, NewTransfer
  <2> QED BY <1>5, <2>1
<1>7. \A u : Rows(u)' = Rows(u)
  BY <1>3 DEF Rows
<1>8. \A r \in Rows(w) : drips[r] \notin Final
  BY <1>1, <1>2, <1>3 DEF RepeatInv, Sending
<1>9. ASSUME NEW j \in Instances, drip'[j].pc \in Sending
      PROVE  \A r \in Rows(WalletOf[drip[j].to])' : drips'[r] \notin Final
  <2>1. j = i
    BY <1>1
  <2>2. drip'[i].to = drip[i].to
    <3>1. CASE Done(i)
      <4>1. PICK d : Proceed(i, d) /\ d.pc \in {"idle", "confirm"}
        BY <3>1, DoneEnds
      <4> QED BY <1>9, <2>1, <4>1 DEF Proceed, DripInv, Sending
    <3>2. CASE Proceed(i, [drip[i] EXCEPT !.pc = "receipt", !.sent = Len(transfers')])
      <4>1. PICK d : d = [drip[i] EXCEPT !.pc = "receipt", !.sent = Len(transfers')]
        OBVIOUS
      <4>2. d.to = drip[i].to
        BY <1>3, <4>1, Working
      <4> QED BY <3>2, <4>1, <4>2 DEF Proceed, DripInv
    <3> QED BY <3>1, <3>2 DEF Send
  <2>3. Rows(WalletOf[drip[j].to])' = Rows(w)
    BY <1>2, <1>7, <2>1, <2>2
  <2> QED BY <1>3, <1>8, <2>3
<1>10. ASSUME NEW u \in Wallets, u # w
       PROVE  Cardinality(SentTo(u)') <= faults' + (IF Known(u)' THEN 1 ELSE 0)
  <2>1. SentTo(u)' = SentTo(u)
    BY <1>6, <1>10 DEF SentTo, TransfersKept
  <2>2. Known(u) => Known(u)'
    <3>1. ASSUME NEW j \in Instances PROVE WalletOf[drip[j].to] # u
      <4>1. j = i
        BY <1>1
      <4> QED BY <1>2, <1>10, <4>1
    <3>2. SUFFICES ASSUME NEW r \in Rows(u), drips[r] \in {"sent", "failed"} PROVE Known(u)'
      BY <3>1 DEF Known
    <3> QED BY <1>3, <1>7, <3>2 DEF Known
  <2>3. PICK a, k, l : a = Cardinality(SentTo(u)) /\ k = (IF Known(u) THEN 1 ELSE 0)
                       /\ l = (IF Known(u)' THEN 1 ELSE 0)
    OBVIOUS
  <2>4. a \in Nat /\ a <= faults + k /\ faults \in Nat
    BY <1>1, <2>3, SentToFinite DEF RepeatInv, DripInv
  <2>5. faults' \in Nat /\ faults' >= faults
    BY <2>4 DEF Send, Fault
  <2>6. k \in Nat /\ l \in Nat /\ k <= 1 /\ (k = 1 => l = 1)
    BY <2>2, <2>3
  <2>7. a <= faults' + l
    BY <2>4, <2>5, <2>6, StillOwed
  <2> QED BY <2>1, <2>3, <2>7
<1>11. Cardinality(SentTo(w)') <= faults' + (IF Known(w)' THEN 1 ELSE 0)
  <2>1. SentTo(w)' = SentTo(w) \cup {n} /\ n \notin SentTo(w)
    BY <1>6 DEF SentTo, TransfersKept
  <2>2. Cardinality(SentTo(w)') = Cardinality(SentTo(w)) + 1
    BY <2>1, SentToFinite, FS_AddElement
  <2>3. Cardinality(SentTo(w)) <= faults
    <3>1. ~Known(w)
      BY <1>1, <1>2, <1>3, NothingKnown
    <3>2. Cardinality(SentTo(w)) <= faults + 0
      BY <1>1, <1>4, <3>1 DEF RepeatInv
    <3> QED BY <3>2 DEF DripInv
  <2>4. faults \in Nat /\ Cardinality(SentTo(w)) \in Nat
    BY SentToFinite DEF DripInv
  <2>5. CASE faults' = faults + 1
    BY <2>2, <2>3, <2>4, <2>5
  <2>6. CASE faults' # faults + 1
    <3>1. Proceed(i, [drip[i] EXCEPT !.pc = "receipt", !.sent = Len(transfers')]) /\ faults' = faults
      BY <2>6 DEF Send, Fault
    <3>2. PICK d : d = [drip[i] EXCEPT !.pc = "receipt", !.sent = Len(transfers')]
      OBVIOUS
    <3>3. d.to = drip[i].to /\ d.pc = "receipt"
      BY <1>3, <3>2, Working
    <3>4. drip'[i].pc = "receipt" /\ WalletOf[drip'[i].to] = w
      BY <1>2, <3>1, <3>2, <3>3 DEF Proceed, DripInv
    <3>5. Known(w)'
      BY <3>4 DEF Known
    <3> QED BY <2>2, <2>3, <2>4, <3>1, <3>5
  <2> QED BY <2>5, <2>6
<1> QED BY <1>9, <1>10, <1>11

(* A new row belongs to a wallet that nobody is sending to.                *)
LEMMA RepeatDeposits ==
  ASSUME DripInv, OneRowInv, RepeatInv, DepositNext, UNCHANGED dripVars
  PROVE  RepeatInv'
<1>1. SUFFICES ASSUME \A k, j \in Instances : k = j
               PROVE  /\ \A w \in Wallets : SentTo(w)' = SentTo(w)
                      /\ faults' \in Nat /\ faults' >= faults
                      /\ \A w \in Wallets : Known(w) => Known(w)' \/ faults' >= faults + 1
                      /\ \A j \in Instances : drip'[j].pc \in Sending =>
                           \A r \in Rows(WalletOf[drip[j].to])' : drips'[r] \notin Final
  BY RepeatKept
<1>2. UNCHANGED <<drip, transfers, faults>> /\ faults \in Nat
  BY DEF dripVars, DripInv
<1>3. \A s \in Spellings : drips'[s] # drips[s] => Rows(WalletOf[s]) = {} /\ drips[s] = "none"
  BY OnlyNewRows
<1>4. ASSUME NEW w, NEW r \in Rows(w)
      PROVE  r \in Rows(w)' /\ drips'[r] = drips[r]
  BY <1>3, <1>4 DEF Rows
<1>5. ASSUME NEW w \in Wallets, Known(w)
      PROVE  Known(w)'
  BY <1>2, <1>4, <1>5 DEF Known
<1>6. ASSUME NEW j \in Instances, drip[j].pc \in Sending, NEW w, w = WalletOf[drip[j].to]
      PROVE  \A r \in Rows(w)' : drips'[r] \notin Final
  <2>1. SUFFICES ASSUME NEW r \in Rows(w)' PROVE drips'[r] \notin Final
    OBVIOUS
  <2>2. r \in Spellings /\ WalletOf[r] = w /\ drips'[r] # "none"
    BY <2>1 DEF Rows
  <2>3. Rows(w) # {}
    BY <1>6 DEF OneRowInv
  <2>4. drips'[r] = drips[r] /\ r \in Rows(w)
    BY <1>3, <2>2, <2>3 DEF Rows
  <2> QED BY <1>1, <1>6, <2>4 DEF RepeatInv
<1>7. ASSUME NEW j \in Instances, drip'[j].pc \in Sending
      PROVE  \A r \in Rows(WalletOf[drip[j].to])' : drips'[r] \notin Final
  <2>1. PICK w : w = WalletOf[drip[j].to]
    OBVIOUS
  <2>2. Rows(WalletOf[drip[j].to])' = Rows(w)'
    BY <1>2, <2>1 DEF Rows
  <2> QED BY <1>2, <1>6, <1>7, <2>1, <2>2
<1> QED BY <1>2, <1>5, <1>7 DEF SentTo

LEMMA RepeatDrips ==
  ASSUME DripInv, OneRowInv, RepeatInv, NEW i \in Instances, Drips(i) \/ Throw(i)
  PROVE  RepeatInv'
<1>1. ASSUME UNCHANGED <<depositVars, transfers, faults>>, drip[i].pc # "receipt",
             NEW d, Proceed(i, d), d.pc \notin Sending
      PROVE  RepeatInv'
  BY <1>1, RepeatNoRow DEF depositVars, apiVars
<1>2. CASE ListSubmitted(i)
  BY <1>1, <1>2 DEF ListSubmitted, Sending, dripRest, Idle
<1>3. CASE ReadRow(i)
  <2>1. drip[i].pc = "row" /\ drip[i].pc \in Dripping /\ UNCHANGED <<depositVars, transfers, faults>>
    BY <1>3 DEF ReadRow, Dripping, dripRest
  <2>2. CASE Done(i)
    BY <1>1, <2>1, <2>2, DoneEnds DEF Sending
  <2>3. CASE ~Done(i)
    <3>1. Proceed(i, [drip[i] EXCEPT !.pc = "balance"])
      BY <1>3, <2>3 DEF ReadRow
    <3>2. PICK r \in Rows(WalletOf[drip[i].to]) : drips[r] \notin Final
      BY <1>3, <2>3 DEF ReadRow
    <3>3. \A s \in Rows(WalletOf[drip[i].to]) : drips[s] \notin Final
      BY <3>2, OnlyRow
    <3>4. PICK d : d = [drip[i] EXCEPT !.pc = "balance"]
      OBVIOUS
    <3>5. d.to = drip[i].to
      BY <2>1, <3>4, Working
    <3> QED BY <2>1, <3>1, <3>3, <3>4, <3>5, RepeatNoRow DEF depositVars, apiVars
  <2> QED BY <2>2, <2>3
<1>4. CASE SkipRecipient(i)
  BY <1>4, RepeatUpdated DEF SkipRecipient, Sending, dripRest, Statuses
<1>5. CASE CheckRecipient(i)
  <2>1. drip[i].pc = "balance" /\ drip[i].pc \in Dripping /\ UNCHANGED <<drips, transfers>>
    BY <1>5 DEF CheckRecipient, Dripping, dripRest, depositVars, apiVars
  <2>2. PICK d : d = [drip[i] EXCEPT !.pc = "send"]
    OBVIOUS
  <2>3. d.to = drip[i].to /\ Proceed(i, d)
    BY <1>5, <2>1, <2>2, Working DEF CheckRecipient
  <2>4. faults' = faults + 1 \/ (faults' = faults /\ drip[i].pc # "receipt")
    BY <1>5 DEF CheckRecipient, Fault
  <2>5. ASSUME \A k, j \in Instances : k = j
        PROVE  \A r \in Rows(WalletOf[d.to]) : drips[r] \notin Final
    BY <2>1, <2>3, <2>5 DEF RepeatInv, Sending
  <2>6. CASE \A k, j \in Instances : k = j
    BY <2>1, <2>3, <2>4, <2>5, <2>6, RepeatNoRow
  <2>7. CASE ~ \A k, j \in Instances : k = j
    BY <2>7 DEF RepeatInv
  <2> QED BY <2>6, <2>7
<1>6. CASE WalletDry(i)
  BY <1>6, RepeatUpdated DEF WalletDry, Sending, dripRest, Statuses
<1>7. CASE Record(i)
  <2>1. PICK status : status = IF transfers[drip[i].sent].status = "success" THEN "sent" ELSE "failed"
    OBVIOUS
  <2>2. /\ UpdateRows(drip[i].to, status) /\ Done(i) /\ drip[i].pc \in Sending
        /\ UNCHANGED <<transfers, faults>> /\ status \in Statuses /\ status \in {"sent", "failed"}
    BY <1>7, <2>1 DEF Record, Sending, dripRest, Statuses
  <2> QED BY <2>2, RepeatUpdated
<1>8. CASE Throw(i)
  <2>1. UNCHANGED <<drips, transfers>> /\ faults' = faults + 1
    BY <1>8 DEF Throw, Fault, dripRest, depositVars, apiVars
  <2>2. PICK d : Proceed(i, d) /\ d.pc \notin Sending
    BY <1>8, DoneEnds DEF Throw, Idle, Sending
  <2> QED BY <2>1, <2>2, RepeatNoRow
<1> QED BY <1>2, <1>3, <1>4, <1>5, <1>6, <1>7, <1>8, RepeatSend DEF Drips

LEMMA RepeatSteps == DripInv /\ OneRowInv /\ RepeatInv /\ [Next]_vars => RepeatInv'
<1> SUFFICES ASSUME DripInv, OneRowInv, RepeatInv, [Next]_vars PROVE RepeatInv'
  OBVIOUS
<1>1. CASE DepositNext /\ UNCHANGED dripVars
  BY <1>1, RepeatDeposits
<1>2. ASSUME NEW i \in Instances, Drips(i) \/ Throw(i)
      PROVE  RepeatInv'
  BY <1>2, RepeatDrips
<1>3. ASSUME NEW i \in Instances, drip[i].pc = "confirm", NEW o, NEW enough, Complete(i, o, enough)
      PROVE  RepeatInv'
  <2>1. PICK d : d = [pc |-> "row", to |-> orders[o].owner, enough |-> enough, sent |-> 0,
                      todo |-> drip[i].todo \ {o}]
    OBVIOUS
  <2>2. Proceed(i, d) /\ UNCHANGED <<drips, transfers, faults>> /\ d.pc \notin Sending
    BY <1>3, <2>1 DEF Complete, depositVars, apiVars, Sending
  <2> QED BY <1>3, <2>2, RepeatNoRow
<1>4. ASSUME UNCHANGED <<depositVars, drip, faults>>, \A w \in Wallets : SentTo(w)' = SentTo(w)
      PROVE  RepeatInv'
  <2>1. UNCHANGED drips /\ \A w : Rows(w)' = Rows(w)
    BY <1>4 DEF Rows, depositVars, apiVars
  <2>2. \A w : Known(w)' <=> Known(w)
    BY <1>4, <2>1 DEF Known
  <2>3. \A j \in Instances : Rows(WalletOf[drip[j].to])' = Rows(WalletOf[drip[j].to])
    BY <1>4, <2>1 DEF Rows
  <2>4. faults \in Nat
    BY DEF DripInv
  <2> QED BY <1>4, <2>1, <2>2, <2>3, <2>4, RepeatKept DEF RepeatInv
<1>5. ASSUME NEW k \in DOMAIN transfers, MineTransfer(k)
      PROVE  RepeatInv'
  <2>1. TransfersKept /\ DOMAIN transfers' = DOMAIN transfers
    BY <1>5, MineTransferStep
  <2>2. \A w \in Wallets : SentTo(w)' = SentTo(w)
    BY <2>1 DEF SentTo, TransfersKept
  <2> QED BY <1>4, <1>5, <2>2 DEF MineTransfer
<1>6. CASE (\E w \in Wallets : Spend(w)) \/ Refill \/ UNCHANGED vars
  BY <1>4, <1>6 DEF Spend, Refill, vars, dripVars, SentTo
<1> QED BY <1>1, <1>2, <1>3, <1>5, <1>6 DEF Next

(* While first calls are kept apart: with one mint executor, all that was  *)
(* sent to a wallet, but for a drip that is known, came with a fault.      *)
THEOREM RepeatInvariant == ASSUME OneAtATime PROVE Spec => []RepeatInv
<1>1. Init => RepeatInv
  <2> SUFFICES ASSUME Init PROVE RepeatInv
    OBVIOUS
  <2>1. \A i \in Instances : drip[i].pc \notin Sending
    BY DEF Init, Idle, Sending
  <2>2. ASSUME NEW w PROVE Cardinality(SentTo(w)) <= faults + (IF Known(w) THEN 1 ELSE 0)
    <3>1. SentTo(w) = {}
      BY DEF Init, SentTo
    <3>2. Cardinality(SentTo(w)) = 0 /\ faults = 0
      BY <3>1, FS_EmptySet DEF Init
    <3> QED BY <3>2
  <2> QED BY <2>1, <2>2 DEF RepeatInv
<1>2. DripInv /\ OneRowInv /\ RepeatInv /\ [Next]_vars => RepeatInv'
  BY RepeatSteps
<1>3. Spec => []DripInv
  BY DripInvariant
<1>4. Spec => []OneRowInv
  BY OneRowInvariant
<1> QED BY <1>1, <1>2, <1>3, <1>4, PTL DEF Spec

(* A mint executor on its own sends a wallet another drip only after a     *)
(* fault, while first calls are kept apart (drip-sender.ts:9).             *)
THEOREM RepeatsAreFaults == ASSUME OneAtATime PROVE Spec => []RepeatsNeedFaults
<1>1. DripInv /\ RepeatInv => RepeatsNeedFaults
  <2> SUFFICES ASSUME DripInv, RepeatInv, Cardinality(Instances) = 1, NEW w \in Wallets
               PROVE  Cardinality(SentTo(w)) <= 1 + faults
    BY DEF RepeatsNeedFaults
  <2>1. \A i, j \in Instances : i = j
    <3>1. PICK x : Instances = {x}
      BY DripAssumption, FS_Singleton
    <3> QED BY <3>1
  <2>2. PICK k : k = IF Known(w) THEN 1 ELSE 0
    OBVIOUS
  <2>3. k \in Nat /\ k <= 1 /\ Cardinality(SentTo(w)) <= faults + k
    BY <2>1, <2>2 DEF RepeatInv
  <2>4. faults \in Nat /\ Cardinality(SentTo(w)) \in Nat
    BY SentToFinite DEF DripInv
  <2> QED BY <2>3, <2>4
<1>2. Spec => []DripInv
  BY DripInvariant
<1>3. Spec => []RepeatInv
  BY RepeatInvariant
<1> QED BY <1>1, <1>2, <1>3, PTL
===============================================================================
