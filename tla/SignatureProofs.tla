---------------------------- MODULE SignatureProofs ----------------------------
(***************************************************************************)
(* What is proved of SignatureCollection, for any watchers, threshold and  *)
(* number of reissues, removed signers, crashes and failed calls.          *)
(***************************************************************************)
EXTENDS SignatureCollection, SetFacts

-------------------------------------------------------------------------------
(* What Among keeps of a list.  It is defined by recursion over the        *)
(* positions of the list; each fact is shown of the least position at      *)
(* which it could fail.                                                    *)

Kept(l, S, g, m) ==
  [n \in 0 .. m |-> IF n = 0 THEN << >>
                    ELSE IF l[n] \in S THEN Append(g[n-1], l[n]) ELSE g[n-1]]

(* The recursion defines a function. *)
LEMMA KeptExists ==
  ASSUME NEW l, NEW S, NEW len \in Nat
  PROVE  \E g : g = Kept(l, S, g, len)
<1> DEFINE Bad == {m \in 0 .. len : ~ \E g : g = Kept(l, S, g, m)}
<1>1. SUFFICES ASSUME Bad # {} PROVE FALSE
  <2>1. len \in 0 .. len
    OBVIOUS
  <2> QED BY <2>1
<1>2. PICK m \in Bad : \A n \in Bad : m <= n
  <2>1. Bad \in SUBSET Nat
    OBVIOUS
  <2> HIDE DEF Bad
  <2> QED BY <1>1, <2>1, LeastOf
<1>3. m \in 0 .. len /\ m \in Nat /\ ~ \E g : g = Kept(l, S, g, m)
  BY <1>2
<1>4. CASE m = 0
  <2> DEFINE g == [n \in 0 .. 0 |-> << >>]
  <2>1. g = Kept(l, S, g, 0)
    BY DEF Kept
  <2> QED BY <1>3, <1>4, <2>1
<1>5. CASE m # 0
  <2>1. m - 1 \in 0 .. len /\ m - 1 \notin Bad
    <3>1. m - 1 \in 0 .. len /\ m - 1 < m
      BY <1>3, <1>5
    <3> HIDE DEF Bad
    <3> QED BY <1>2, <1>3, <3>1
  <2>2. PICK g : g = Kept(l, S, g, m - 1)
    BY <2>1
  <2> DEFINE last == IF l[m] \in S THEN Append(g[m-1], l[m]) ELSE g[m-1]
  <2> DEFINE h == [n \in 0 .. m |-> IF n = m THEN last ELSE g[n]]
  <2>3. \A n \in 0 .. m - 1 :
          g[n] = IF n = 0 THEN << >>
                 ELSE IF l[n] \in S THEN Append(g[n-1], l[n]) ELSE g[n-1]
    BY <2>2 DEF Kept
  <2>4. \A n \in 0 .. m :
          h[n] = IF n = 0 THEN << >>
                 ELSE IF l[n] \in S THEN Append(h[n-1], l[n]) ELSE h[n-1]
    <3>1. TAKE n \in 0 .. m
    <3>2. CASE n = m
      <4>1. h[m] = last /\ h[m-1] = g[m-1] /\ m - 1 \in 0 .. m
        BY <1>3, <1>5
      <4> QED BY <1>5, <3>2, <4>1
    <3>3. CASE n # m /\ n # 0
      <4>1. n \in 0 .. m - 1 /\ n - 1 \in 0 .. m /\ n - 1 # m
        BY <1>3, <3>1, <3>3
      <4>2. h[n] = g[n] /\ h[n-1] = g[n-1]
        BY <3>1, <3>3, <4>1
      <4> HIDE DEF h
      <4> QED BY <2>3, <3>3, <4>1, <4>2
    <3>4. CASE n # m /\ n = 0
      <4>1. h[0] = g[0] /\ 0 \in 0 .. m - 1
        BY <1>3, <1>5, <3>1, <3>4
      <4> HIDE DEF h
      <4> QED BY <2>3, <3>4, <4>1
    <3> QED BY <3>2, <3>3, <3>4
  <2>5. h = Kept(l, S, h, m)
    <3>1. h = [n \in 0 .. m |-> h[n]]
      OBVIOUS
    <3> HIDE DEF h
    <3> QED BY <2>4, <3>1 DEF Kept
  <2> HIDE DEF h
  <2> QED BY <1>3, <2>5
<1> QED BY <1>4, <1>5

(* So Among is where the recursion ends. *)
LEMMA AmongUnfolds ==
  ASSUME NEW E, NEW l \in Seq(E), NEW S
  PROVE  \E g : g = Kept(l, S, g, Len(l)) /\ Among(l, S) = g[Len(l)]
<1> DEFINE kept == CHOOSE g : g = Kept(l, S, g, Len(l))
<1>1. Len(l) \in Nat
  OBVIOUS
<1>2. kept = Kept(l, S, kept, Len(l))
  BY <1>1, KeptExists
<1>3. Among(l, S) = kept[Len(l)]
  BY DEF Among, Kept
<1> QED BY <1>2, <1>3

Distinct(l) == \A j, k \in DOMAIN l : l[j].signer = l[k].signer => j = k

(* What the recursion has kept of the first n entries. *)
KeptFits(l, S, v, n) ==
  /\ v \in Seq(Entries)
  /\ \A k \in DOMAIN v : v[k] \in S /\ \E i \in 1 .. n : v[k] = l[i]
  /\ \A i \in 1 .. n : l[i] \in S => \E k \in DOMAIN v : v[k] = l[i]
  /\ Distinct(l) => Distinct(v)

LEMMA KeptStep ==
  ASSUME NEW l \in Seq(Entries), NEW S, NEW n \in 1 .. Len(l), NEW v,
         KeptFits(l, S, v, n - 1)
  PROVE  KeptFits(l, S, IF l[n] \in S THEN Append(v, l[n]) ELSE v, n)
<1>1. /\ v \in Seq(Entries) /\ l[n] \in Entries /\ n \in DOMAIN l /\ n \in Nat
      /\ 1 .. n - 1 \subseteq DOMAIN l
  BY DEF KeptFits
<1>2. \A k \in DOMAIN v : v[k] \in S /\ \E i \in 1 .. n - 1 : v[k] = l[i]
  BY DEF KeptFits
<1>3. \A i \in 1 .. n - 1 : l[i] \in S => \E k \in DOMAIN v : v[k] = l[i]
  BY DEF KeptFits
<1>4. \A i \in 1 .. n : i = n \/ i \in 1 .. n - 1
  BY <1>1
<1>5. CASE l[n] \notin S
  <2>1. \A k \in DOMAIN v : v[k] \in S /\ \E i \in 1 .. n : v[k] = l[i]
    BY <1>1, <1>2
  <2>2. \A i \in 1 .. n : l[i] \in S => \E k \in DOMAIN v : v[k] = l[i]
    BY <1>3, <1>4, <1>5
  <2> QED BY <1>1, <1>5, <2>1, <2>2 DEF KeptFits
<1>6. CASE l[n] \in S
  <2> DEFINE w == Append(v, l[n])
  <2>1. /\ w \in Seq(Entries) /\ Len(w) = Len(v) + 1 /\ Len(v) \in Nat
        /\ DOMAIN v = 1 .. Len(v) /\ DOMAIN w = 1 .. Len(v) + 1
        /\ \A k \in DOMAIN v : w[k] = v[k]
        /\ w[Len(v) + 1] = l[n]
    BY <1>1
  <2> HIDE DEF w
  <2>2. \A k \in DOMAIN w : k \in DOMAIN v \/ k = Len(v) + 1
    BY <2>1
  <2>3. DOMAIN v \subseteq DOMAIN w /\ Len(v) + 1 \in DOMAIN w
    BY <2>1
  <2>4. ASSUME NEW k \in DOMAIN w PROVE w[k] \in S /\ \E i \in 1 .. n : w[k] = l[i]
    <3>1. CASE k \in DOMAIN v
      <4>1. PICK i \in 1 .. n - 1 : v[k] = l[i]
        BY <1>2, <3>1
      <4>2. i \in 1 .. n
        BY <1>1
      <4> QED BY <1>2, <2>1, <3>1, <4>1, <4>2
    <3>2. CASE k = Len(v) + 1
      BY <1>1, <1>6, <2>1, <3>2
    <3> QED BY <2>2, <3>1, <3>2
  <2>5. ASSUME NEW i \in 1 .. n, l[i] \in S PROVE \E k \in DOMAIN w : w[k] = l[i]
    <3>1. CASE i = n
      BY <2>1, <2>3, <3>1
    <3>2. CASE i \in 1 .. n - 1
      <4>1. PICK k \in DOMAIN v : v[k] = l[i]
        BY <1>3, <2>5, <3>2
      <4> QED BY <2>1, <2>3, <4>1
    <3> QED BY <1>4, <3>1, <3>2
  <2>6. ASSUME Distinct(l) PROVE Distinct(w)
    <3>1. SUFFICES ASSUME NEW j \in DOMAIN w, NEW k \in DOMAIN w, w[j].signer = w[k].signer
                   PROVE  j = k
      BY DEF Distinct
    <3>2. ASSUME NEW m \in DOMAIN v PROVE v[m].signer # l[n].signer
      <4>1. PICK i \in 1 .. n - 1 : v[m] = l[i]
        BY <1>2
      <4>2. i \in DOMAIN l /\ i # n
        BY <1>1
      <4> QED BY <1>1, <2>6, <4>1, <4>2 DEF Distinct
    <3>3. CASE j \in DOMAIN v /\ k \in DOMAIN v
      <4>1. Distinct(v) /\ v[j].signer = v[k].signer
        BY <2>1, <2>6, <3>1, <3>3 DEF KeptFits
      <4> QED BY <3>3, <4>1 DEF Distinct
    <3>4. CASE j \in DOMAIN v /\ k = Len(v) + 1
      BY <2>1, <3>1, <3>2, <3>4
    <3>5. CASE j = Len(v) + 1 /\ k \in DOMAIN v
      BY <2>1, <3>1, <3>2, <3>5
    <3> QED BY <2>2, <3>3, <3>4, <3>5
  <2>7. KeptFits(l, S, w, n)
    BY <2>1, <2>4, <2>5, <2>6 DEF KeptFits
  <2> QED BY <1>6, <2>7 DEF w
<1> QED BY <1>5, <1>6

(* Among keeps the entries that are in S, all of them and no others, and   *)
(* does not make a signer appear twice.                                    *)
LEMMA AmongFacts ==
  ASSUME NEW l \in Seq(Entries), NEW S
  PROVE  KeptFits(l, S, Among(l, S), Len(l))
<1>1. PICK g : g = Kept(l, S, g, Len(l)) /\ Among(l, S) = g[Len(l)]
  BY AmongUnfolds
<1>2. Len(l) \in Nat
  OBVIOUS
<1>3. g[0] = << >>
  BY <1>1, <1>2 DEF Kept
<1>4. ASSUME NEW n \in 1 .. Len(l)
      PROVE  g[n] = IF l[n] \in S THEN Append(g[n-1], l[n]) ELSE g[n-1]
  <2>1. n \in 0 .. Len(l) /\ n # 0
    BY <1>2
  <2>2. Kept(l, S, g, Len(l))[n] = IF l[n] \in S THEN Append(g[n-1], l[n]) ELSE g[n-1]
    BY <2>1 DEF Kept
  <2> QED BY <1>1, <2>2
<1> DEFINE Bad == {n \in 0 .. Len(l) : ~ KeptFits(l, S, g[n], n)}
<1>5. SUFFICES ASSUME Bad # {} PROVE FALSE
  <2>1. Len(l) \in 0 .. Len(l)
    BY <1>2
  <2> QED BY <1>1, <2>1
<1>6. PICK n \in Bad : \A m \in Bad : n <= m
  <2>1. Bad \in SUBSET Nat
    BY <1>2
  <2> HIDE DEF Bad
  <2> QED BY <1>5, <2>1, LeastOf
<1>7. n \in 0 .. Len(l) /\ n \in Nat /\ ~ KeptFits(l, S, g[n], n)
  BY <1>2, <1>6
<1>8. CASE n = 0
  <2>1. << >> \in Seq(Entries) /\ DOMAIN << >> = {} /\ 1 .. 0 = {}
    OBVIOUS
  <2>2. KeptFits(l, S, << >>, 0)
    BY <2>1 DEF KeptFits, Distinct
  <2> QED BY <1>3, <1>7, <1>8, <2>2
<1>9. CASE n # 0
  <2>1. n - 1 \in 0 .. Len(l) /\ n - 1 < n /\ n \in 1 .. Len(l)
    BY <1>2, <1>7, <1>9
  <2>2. n - 1 \notin Bad
    <3>1. n - 1 \in Int
      BY <2>1
    <3> HIDE DEF Bad
    <3> QED BY <1>6, <1>7, <2>1, <3>1
  <2>3. KeptFits(l, S, g[n-1], n - 1)
    BY <2>1, <2>2
  <2>4. KeptFits(l, S, g[n], n)
    BY <1>4, <2>1, <2>3, KeptStep
  <2> QED BY <1>7, <2>4
<1> QED BY <1>8, <1>9

LEMMA AmongKeeps ==
  ASSUME NEW l \in Seq(Entries), NEW S, NEW k \in DOMAIN l, l[k] \in S
  PROVE  \E i \in DOMAIN Among(l, S) : Among(l, S)[i] = l[k]
<1>1. KeptFits(l, S, Among(l, S), Len(l))
  BY AmongFacts
<1>2. k \in 1 .. Len(l)
  OBVIOUS
<1> QED BY <1>1, <1>2 DEF KeptFits

(* No more watchers can be on a list than there are. *)
LEMMA DistinctFits ==
  ASSUME NEW l \in Seq(Entries), Distinct(l)
  PROVE  Len(l) <= Cardinality(Watchers)
<1> DEFINE f == [k \in 1 .. Len(l) |-> l[k].signer]
<1>1. Len(l) \in Nat /\ DOMAIN l = 1 .. Len(l)
  OBVIOUS
<1>2. \A k \in 1 .. Len(l) : l[k].signer \in Watchers
  <2>1. \A k \in 1 .. Len(l) : l[k] \in Entries
    OBVIOUS
  <2> QED BY <2>1 DEF Entries
<1>3. f \in Injection(1 .. Len(l), Watchers)
  BY <1>1, <1>2 DEF Injection, Distinct, IsInjective
<1>4. Cardinality(1 .. Len(l)) <= Cardinality(Watchers)
  BY <1>3, FS_Injection, SignatureAssumption
<1>5. Cardinality(1 .. Len(l)) = Len(l)
  BY <1>1, FS_Interval
<1> QED BY <1>4, <1>5

-------------------------------------------------------------------------------
(* The inductive invariant.  What makes an overwriting append harmless: the *)
(* list a watcher is about to append to was read without the watcher on     *)
(* it, so writing it back cannot list the watcher twice; and entries over a *)
(* later authorization than the executor verified cannot be on the list it  *)
(* verified, so when that list is still there, whatever else is not over    *)
(* the verified authorization is over an old one.                           *)

(* A list as it can stand while the row holds authorization a. *)
Sound(l, a) ==
  /\ l \in Seq(Entries)
  /\ Distinct(l)
  /\ \A k \in DOMAIN l : l[k].over <= a

WatcherStates ==
  {Idle} \cup [pc : {"signed"}, over : 0 .. MaxReissues]
         \cup [pc : {"append"}, over : 0 .. MaxReissues, list : Seq(Entries)]

ExecStates ==
  {Idle} \cup [pc : {"verify"}, over : 0 .. MaxReissues, list : Seq(Entries)]
         \cup [pc : {"simulate", "drop"}, over : 0 .. MaxReissues,
               list : Seq(Entries), valid : Seq(Entries)]
         \cup [pc : {"send"}, over : 0 .. MaxReissues]

WatcherInv(w) ==
  watcher[w] # Idle =>
    /\ watcher[w].over <= auth
    /\ watcher[w].pc = "append" => /\ Sound(watcher[w].list, auth)
                                   /\ w \notin Signers(watcher[w].list)

ExecInv ==
  /\ exec # Idle => exec.over <= auth
  /\ exec.pc \in {"verify", "simulate", "drop"} => Sound(exec.list, exec.over)
  /\ exec.pc \in {"simulate", "drop"} => exec.valid = Valid(exec.list, exec.over)

Types ==
  /\ auth \in 0 .. MaxReissues
  /\ registered \subseteq Watchers
  /\ watcher \in [Watchers -> WatcherStates]
  /\ exec \in ExecStates
  /\ faults \in 0 .. MaxFaults

SigInv ==
  /\ Types
  /\ Sound(list, auth)
  /\ \A w \in Watchers : WatcherInv(w)
  /\ ExecInv

-------------------------------------------------------------------------------
(* Lists.                                                                  *)

LEMMA BoundsNat == MaxReissues \in Nat /\ MaxFaults \in Nat
BY SignatureAssumption

LEMMA EmptySound ==
  ASSUME NEW a PROVE Sound(<< >>, a)
<1>1. << >> \in Seq(Entries) /\ DOMAIN << >> = {}
  OBVIOUS
<1> QED BY <1>1 DEF Sound, Distinct

LEMMA SoundLater ==
  ASSUME NEW a \in Nat, NEW b \in Nat, a <= b, NEW l, Sound(l, a)
  PROVE  Sound(l, b)
<1>1. \A k \in DOMAIN l : l[k].over \in Nat
  <2>1. \A k \in DOMAIN l : l[k] \in Entries
    BY DEF Sound
  <2> QED BY <2>1, BoundsNat DEF Entries
<1>2. l \in Seq(Entries) /\ Distinct(l) /\ \A k \in DOMAIN l : l[k].over <= a
  BY DEF Sound
<1>3. \A k \in DOMAIN l : l[k].over <= b
  BY <1>1, <1>2
<1> QED BY <1>2, <1>3 DEF Sound

(* A signature by a signer who is not on the list yet. *)
LEMMA AppendSound ==
  ASSUME NEW a, NEW l, Sound(l, a), NEW e \in Entries, e.over <= a, e.signer \notin Signers(l)
  PROVE  Sound(Append(l, e), a)
<1>1. l \in Seq(Entries) /\ Distinct(l) /\ \A k \in DOMAIN l : l[k].over <= a
  BY DEF Sound
<1> DEFINE v == Append(l, e)
<1>2. /\ v \in Seq(Entries) /\ Len(l) \in Nat
      /\ DOMAIN l = 1 .. Len(l) /\ DOMAIN v = 1 .. Len(l) + 1
      /\ \A k \in DOMAIN l : v[k] = l[k]
      /\ v[Len(l) + 1] = e
  BY <1>1
<1> HIDE DEF v
<1>3. \A k \in DOMAIN v : k \in DOMAIN l \/ k = Len(l) + 1
  BY <1>2
<1>4. \A k \in DOMAIN l : l[k].signer # e.signer
  BY DEF Signers
<1>5. ASSUME NEW j \in DOMAIN v, NEW k \in DOMAIN v, v[j].signer = v[k].signer PROVE j = k
  <2>1. CASE j \in DOMAIN l /\ k \in DOMAIN l
    BY <1>1, <1>2, <1>5, <2>1 DEF Distinct
  <2>2. CASE j \in DOMAIN l /\ k = Len(l) + 1
    BY <1>2, <1>4, <1>5, <2>2
  <2>3. CASE j = Len(l) + 1 /\ k \in DOMAIN l
    BY <1>2, <1>4, <1>5, <2>3
  <2> QED BY <1>3, <2>1, <2>2, <2>3
<1>6. \A k \in DOMAIN v : v[k].over <= a
  BY <1>1, <1>2, <1>3
<1>7. Sound(v, a)
  BY <1>2, <1>5, <1>6 DEF Sound, Distinct
<1> QED BY <1>7 DEF v

LEMMA AmongSound ==
  ASSUME NEW a, NEW l, Sound(l, a), NEW S
  PROVE  Sound(Among(l, S), a)
<1>1. l \in Seq(Entries) /\ Distinct(l) /\ \A k \in DOMAIN l : l[k].over <= a
  BY DEF Sound
<1>2. KeptFits(l, S, Among(l, S), Len(l))
  BY <1>1, AmongFacts
<1>3. 1 .. Len(l) = DOMAIN l
  BY <1>1
<1> DEFINE v == Among(l, S)
<1>4. v \in Seq(Entries) /\ Distinct(v) /\ \A k \in DOMAIN v : \E i \in DOMAIN l : v[k] = l[i]
  BY <1>1, <1>2, <1>3 DEF KeptFits
<1> HIDE DEF v
<1>5. \A k \in DOMAIN v : v[k].over <= a
  BY <1>1, <1>4
<1>6. Sound(v, a)
  BY <1>4, <1>5 DEF Sound
<1> QED BY <1>6 DEF v

(* Pruning leaves the list or puts what is kept of it in its place. *)
LEMMA PruneSound ==
  ASSUME NEW original, NEW keep, Prune(original, keep)
  PROVE  list' = list \/ (list = original /\ list' = keep)
BY DEF Prune

-------------------------------------------------------------------------------
(* The steps.                                                              *)

LEMMA IdleFacts == Idle.pc = "idle"
BY DEF Idle

LEMMA WatcherCases ==
  ASSUME Types, NEW w \in Watchers
  PROVE  /\ watcher[w].pc = "signed" =>
              watcher[w] \in [pc : {"signed"}, over : 0 .. MaxReissues]
         /\ watcher[w].pc = "append" =>
              watcher[w] \in [pc : {"append"}, over : 0 .. MaxReissues, list : Seq(Entries)]
         /\ watcher[w].pc \in {"idle", "signed", "append"}
         /\ watcher[w].pc = "idle" <=> watcher[w] = Idle
<1>1. watcher[w] \in WatcherStates
  BY DEF Types
<1>2. watcher[w] = Idle => watcher[w].pc = "idle"
  BY IdleFacts
<1> QED BY <1>1, <1>2 DEF WatcherStates

LEMMA ExecCases ==
  ASSUME Types
  PROVE  /\ exec.pc = "verify" =>
              exec \in [pc : {"verify"}, over : 0 .. MaxReissues, list : Seq(Entries)]
         /\ exec.pc \in {"simulate", "drop"} =>
              exec \in [pc : {"simulate", "drop"}, over : 0 .. MaxReissues,
                        list : Seq(Entries), valid : Seq(Entries)]
         /\ exec.pc = "send" => exec \in [pc : {"send"}, over : 0 .. MaxReissues]
         /\ exec.pc \in {"idle", "verify", "simulate", "drop", "send"}
         /\ exec.pc = "idle" <=> exec = Idle
<1>1. exec \in ExecStates
  BY DEF Types
<1>2. exec = Idle => exec.pc = "idle"
  BY IdleFacts
<1> QED BY <1>1, <1>2 DEF ExecStates

(* A step of one watcher leaves the others as they are. *)
LEMMA WatcherStep ==
  ASSUME Types, \A w \in Watchers : WatcherInv(w), NEW w \in Watchers, NEW v \in WatcherStates,
         watcher' = [watcher EXCEPT ![w] = v], auth' = auth,
         v # Idle => /\ v.over <= auth
                     /\ v.pc = "append" => Sound(v.list, auth) /\ w \notin Signers(v.list)
  PROVE  /\ watcher' \in [Watchers -> WatcherStates]
         /\ \A u \in Watchers : WatcherInv(u)'
<1>1. watcher \in [Watchers -> WatcherStates]
  BY DEF Types
<1>2. watcher' \in [Watchers -> WatcherStates]
  BY <1>1
<1>3. ASSUME NEW u \in Watchers PROVE WatcherInv(u)'
  <2>1. CASE u = w
    <3>1. watcher'[u] = v
      BY <1>1, <2>1
    <3> QED BY <2>1, <3>1 DEF WatcherInv, Signers
  <2>2. CASE u # w
    <3>1. watcher'[u] = watcher[u]
      BY <1>1, <2>2
    <3>2. WatcherInv(u)
      OBVIOUS
    <3> QED BY <3>1, <3>2 DEF WatcherInv
  <2> QED BY <2>1, <2>2
<1> QED BY <1>2, <1>3

LEMMA InitSig == Init => SigInv
<1> SUFFICES ASSUME Init PROVE SigInv
  OBVIOUS
<1>1. /\ auth = 0 /\ list = << >> /\ registered = Watchers /\ exec = Idle /\ faults = 0
      /\ watcher = [w \in Watchers |-> Idle]
  BY DEF Init
<1>2. Types
  BY <1>1, BoundsNat DEF Types, WatcherStates, ExecStates
<1>3. \A w \in Watchers : WatcherInv(w)
  BY <1>1 DEF WatcherInv
<1>4. ExecInv
  BY <1>1, IdleFacts DEF ExecInv
<1> QED BY <1>1, <1>2, <1>3, <1>4, EmptySound DEF SigInv

(* What a watcher's step leaves alone. *)
LEMMA WatcherKeeps ==
  ASSUME SigInv, UNCHANGED <<auth, registered, exec>>
  PROVE  /\ auth' \in 0 .. MaxReissues /\ registered' \subseteq Watchers
         /\ exec' \in ExecStates /\ ExecInv'
<1>1. Types /\ ExecInv
  BY DEF SigInv
<1>2. ExecInv'
  BY <1>1 DEF ExecInv
<1>3. auth' \in 0 .. MaxReissues /\ registered' \subseteq Watchers /\ exec' \in ExecStates
  BY <1>1 DEF Types
<1> QED BY <1>2, <1>3

LEMMA PollSignStep ==
  ASSUME SigInv, NEW w \in Watchers, PollSign(w)
  PROVE  SigInv'
<1>1. Types /\ Sound(list, auth) /\ \A u \in Watchers : WatcherInv(u)
  BY DEF SigInv
<1> DEFINE v == [pc |-> "signed", over |-> auth]
<1>2. v \in WatcherStates /\ v.over <= auth /\ v.pc # "append"
  BY <1>1, BoundsNat DEF Types, WatcherStates
<1>3. watcher' = [watcher EXCEPT ![w] = v] /\ UNCHANGED <<auth, list, registered, exec, faults>>
  BY DEF PollSign
<1> HIDE DEF v
<1>4. watcher' \in [Watchers -> WatcherStates] /\ \A u \in Watchers : WatcherInv(u)'
  BY <1>1, <1>2, <1>3, WatcherStep
<1>5. Sound(list, auth)'
  BY <1>1, <1>3
<1>6. faults' \in 0 .. MaxFaults
  BY <1>1, <1>3 DEF Types
<1> QED BY <1>3, <1>4, <1>5, <1>6, WatcherKeeps DEF SigInv, Types

LEMMA ReadListStep ==
  ASSUME SigInv, NEW w \in Watchers, ReadList(w)
  PROVE  SigInv'
<1>1. Types /\ Sound(list, auth) /\ \A u \in Watchers : WatcherInv(u)
  BY DEF SigInv
<1>2. /\ watcher[w].pc = "signed" /\ UNCHANGED <<auth, list, registered, exec, faults>>
      /\ watcher' = [watcher EXCEPT ![w] =
                       IF w \in Signers(list) THEN Idle
                       ELSE [pc |-> "append", over |-> watcher[w].over, list |-> list]]
  BY DEF ReadList
<1>3. watcher[w].over \in 0 .. MaxReissues /\ watcher[w].over <= auth
  <2>1. watcher[w] # Idle
    BY <1>2, IdleFacts
  <2>2. watcher[w] \in [pc : {"signed"}, over : 0 .. MaxReissues]
    BY <1>1, <1>2, WatcherCases
  <2> QED BY <1>1, <2>1, <2>2 DEF WatcherInv
<1>4. list \in Seq(Entries)
  BY <1>1 DEF Sound
<1> DEFINE a == [pc |-> "append", over |-> watcher[w].over, list |-> list]
<1>5. a \in WatcherStates /\ Idle \in WatcherStates /\ a.over = watcher[w].over /\ a.list = list
  BY <1>3, <1>4 DEF WatcherStates
<1> HIDE DEF a
<1>6. PICK v : /\ v = IF w \in Signers(list) THEN Idle ELSE a
               /\ watcher' = [watcher EXCEPT ![w] = v]
  BY <1>2 DEF a
<1>7. watcher' \in [Watchers -> WatcherStates] /\ \A u \in Watchers : WatcherInv(u)'
  BY <1>1, <1>2, <1>3, <1>5, <1>6, WatcherStep
<1>8. Sound(list, auth)'
  BY <1>1, <1>2
<1>9. faults' \in 0 .. MaxFaults
  BY <1>1, <1>2 DEF Types
<1> QED BY <1>2, <1>7, <1>8, <1>9, WatcherKeeps DEF SigInv, Types

(* An idle watcher needs no facts. *)
LEMMA BecomesIdle ==
  ASSUME SigInv, NEW w \in Watchers, watcher' = [watcher EXCEPT ![w] = Idle], auth' = auth
  PROVE  watcher' \in [Watchers -> WatcherStates] /\ \A u \in Watchers : WatcherInv(u)'
<1>1. Types /\ (\A u \in Watchers : WatcherInv(u)) /\ Idle \in WatcherStates
  BY DEF SigInv, WatcherStates
<1> QED BY <1>1, WatcherStep

LEMMA WriteListStep ==
  ASSUME SigInv, NEW w \in Watchers, WriteList(w)
  PROVE  SigInv'
<1>1. Types /\ WatcherInv(w)
  BY DEF SigInv
<1> DEFINE e == [signer |-> w, over |-> watcher[w].over]
<1>2. /\ watcher[w].pc = "append" /\ list' = Append(watcher[w].list, e)
      /\ watcher' = [watcher EXCEPT ![w] = Idle] /\ UNCHANGED <<auth, registered, exec, faults>>
  BY DEF WriteList
<1>3. watcher[w].over \in 0 .. MaxReissues
  BY <1>1, <1>2, WatcherCases
<1>4. e \in Entries /\ e.over = watcher[w].over /\ e.signer = w
  BY <1>3 DEF Entries
<1> HIDE DEF e
<1>5. /\ watcher[w].over <= auth /\ Sound(watcher[w].list, auth)
      /\ w \notin Signers(watcher[w].list)
  BY <1>1, <1>2, IdleFacts DEF WatcherInv
<1>6. Sound(Append(watcher[w].list, e), auth)
  BY <1>4, <1>5, AppendSound
<1>7. Sound(list, auth)'
  BY <1>2, <1>6
<1>8. faults' \in 0 .. MaxFaults
  BY <1>1, <1>2 DEF Types
<1> QED BY <1>2, <1>7, <1>8, BecomesIdle, WatcherKeeps DEF SigInv, Types

LEMMA WatcherFailsStep ==
  ASSUME SigInv, NEW w \in Watchers, WatcherFails(w)
  PROVE  SigInv'
<1>1. Types /\ Sound(list, auth)
  BY DEF SigInv
<1>2. /\ watcher' = [watcher EXCEPT ![w] = Idle] /\ UNCHANGED <<auth, list, registered, exec>>
      /\ faults < MaxFaults /\ faults' = faults + 1
  BY DEF WatcherFails
<1>3. faults' \in 0 .. MaxFaults
  BY <1>1, <1>2, BoundsNat DEF Types
<1>4. Sound(list, auth)'
  BY <1>1, <1>2
<1> QED BY <1>2, <1>3, <1>4, BecomesIdle, WatcherKeeps DEF SigInv, Types

LEMMA RotateStep ==
  ASSUME SigInv, NEW w \in Watchers, Rotate(w)
  PROVE  SigInv'
<1>1. registered' = registered \ {w} /\ UNCHANGED <<auth, list, sent, watcher, exec, faults>>
  BY DEF Rotate
<1>2. Types' /\ Sound(list, auth)'
  BY <1>1 DEF SigInv, Types
<1>3. (\A u \in Watchers : WatcherInv(u)') /\ ExecInv'
  BY <1>1 DEF SigInv, WatcherInv, ExecInv
<1> QED BY <1>2, <1>3 DEF SigInv

(* A new authorization: every list that was sound still is. *)
LEMMA ReissueStep ==
  ASSUME SigInv, Reissue
  PROVE  SigInv'
<1>1. Types /\ ExecInv
  BY DEF SigInv
<1>2. /\ auth < MaxReissues /\ auth' = auth + 1 /\ list' = << >>
      /\ UNCHANGED <<registered, watcher, exec, faults>>
  BY DEF Reissue
<1>3. auth \in Nat /\ auth' \in Nat /\ auth <= auth' /\ auth' \in 0 .. MaxReissues
  BY <1>1, <1>2, BoundsNat DEF Types
<1>4. Types'
  BY <1>1, <1>2, <1>3 DEF Types
<1>5. Sound(list, auth)'
  BY <1>2, EmptySound
<1>6. ASSUME NEW w \in Watchers PROVE WatcherInv(w)'
  <2>1. SUFFICES ASSUME watcher[w] # Idle
                 PROVE  /\ watcher[w].over <= auth'
                        /\ watcher[w].pc = "append" => /\ Sound(watcher[w].list, auth')
                                                       /\ w \notin Signers(watcher[w].list)
    BY <1>2 DEF WatcherInv
  <2>2. WatcherInv(w)
    BY DEF SigInv
  <2>3. watcher[w].over \in Nat
    BY <1>1, <2>1, WatcherCases, BoundsNat
  <2>4. watcher[w].over <= auth'
    BY <1>3, <2>1, <2>2, <2>3 DEF WatcherInv
  <2>5. ASSUME watcher[w].pc = "append" PROVE Sound(watcher[w].list, auth')
    BY <1>3, <2>1, <2>2, <2>5, SoundLater DEF WatcherInv
  <2> QED BY <2>1, <2>2, <2>4, <2>5 DEF WatcherInv
<1>7. ExecInv'
  <2>1. exec # Idle => exec.over \in Nat
    BY <1>1, ExecCases, BoundsNat
  <2>2. exec # Idle => exec.over <= auth'
    BY <1>1, <1>3, <2>1 DEF ExecInv
  <2> QED BY <1>1, <1>2, <2>2 DEF ExecInv
<1> QED BY <1>4, <1>5, <1>6, <1>7 DEF SigInv

(* What a step of the executor leaves alone. *)
LEMMA ExecKeeps ==
  ASSUME SigInv, UNCHANGED <<auth, registered, watcher>>
  PROVE  /\ auth' \in 0 .. MaxReissues /\ registered' \subseteq Watchers
         /\ watcher' \in [Watchers -> WatcherStates]
         /\ \A w \in Watchers : WatcherInv(w)'
BY DEF SigInv, Types, WatcherInv

LEMMA ExecIdle ==
  ASSUME exec' = Idle
  PROVE  exec' \in ExecStates /\ ExecInv'
BY IdleFacts DEF ExecStates, ExecInv

LEMMA SelectReadyStep ==
  ASSUME SigInv, SelectReady
  PROVE  SigInv'
<1>1. Types /\ Sound(list, auth)
  BY DEF SigInv
<1>2. /\ exec' = [pc |-> "verify", over |-> auth, list |-> list]
      /\ UNCHANGED <<auth, list, registered, watcher, faults>>
  BY DEF SelectReady
<1>3. auth \in 0 .. MaxReissues /\ auth <= auth /\ list \in Seq(Entries)
  BY <1>1, BoundsNat DEF Types, Sound
<1>4. exec' \in ExecStates
  BY <1>2, <1>3 DEF ExecStates
<1>5. exec'.pc = "verify" /\ exec'.over = auth /\ exec'.list = list
  BY <1>2
<1>6. ExecInv'
  BY <1>1, <1>2, <1>3, <1>5 DEF ExecInv
<1>7. Sound(list, auth)' /\ faults' \in 0 .. MaxFaults
  BY <1>1, <1>2 DEF Types
<1> QED BY <1>2, <1>4, <1>6, <1>7, ExecKeeps DEF SigInv, Types

(* The list the executor verified, if it still stands, is sound with what  *)
(* is pruned gone.                                                         *)
LEMMA VerifyStep ==
  ASSUME SigInv, Verify
  PROVE  SigInv'
<1>1. Types /\ Sound(list, auth) /\ ExecInv
  BY DEF SigInv
<1>2. exec.pc = "verify" /\ UNCHANGED <<auth, registered, watcher, faults>>
  BY DEF Verify
<1>3. exec \in [pc : {"verify"}, over : 0 .. MaxReissues, list : Seq(Entries)]
  BY <1>1, <1>2, ExecCases
<1>4. Sound(exec.list, exec.over) /\ exec # Idle
  BY <1>1, <1>2, IdleFacts DEF ExecInv
<1> DEFINE valid == Valid(exec.list, exec.over)
<1>5. Sound(valid, exec.over) /\ valid \in Seq(Entries)
  BY <1>4, AmongSound DEF Valid, Sound
<1>6. CASE Len(valid) < Threshold
  <2>1. Prune(exec.list, valid) /\ exec' = Idle
    BY <1>6 DEF Verify
  <2>2. Sound(list, auth)'
    <3>1. list' = list \/ (list = exec.list /\ list' = Valid(list, exec.over))
      BY <2>1, PruneSound
    <3>2. Sound(Valid(list, exec.over), auth)
      BY <1>1, AmongSound DEF Valid
    <3> QED BY <1>1, <1>2, <3>1, <3>2
  <2>3. faults' \in 0 .. MaxFaults
    BY <1>1, <1>2 DEF Types
  <2> QED BY <1>2, <2>1, <2>2, <2>3, ExecIdle, ExecKeeps DEF SigInv, Types
<1>7. CASE ~ (Len(valid) < Threshold)
  <2>1. /\ exec' = [pc |-> "simulate", over |-> exec.over, list |-> exec.list, valid |-> valid]
        /\ list' = list
    BY <1>7 DEF Verify
  <2>2. exec' \in ExecStates
    BY <1>3, <1>5, <2>1 DEF ExecStates
  <2>3. exec'.pc = "simulate" /\ exec'.over = exec.over /\ exec'.list = exec.list
        /\ exec'.valid = valid
    BY <2>1
  <2>4. ExecInv'
    BY <1>1, <1>2, <1>4, <2>3 DEF ExecInv
  <2>5. Sound(list, auth)' /\ faults' \in 0 .. MaxFaults
    BY <1>1, <1>2, <2>1 DEF Types
  <2> QED BY <1>2, <2>2, <2>4, <2>5, ExecKeeps DEF SigInv, Types
<1> QED BY <1>6, <1>7

LEMMA SimulateStep ==
  ASSUME SigInv, Simulate
  PROVE  SigInv'
<1>1. Types /\ Sound(list, auth) /\ ExecInv
  BY DEF SigInv
<1>2. exec.pc = "simulate" /\ UNCHANGED <<auth, list, registered, watcher, faults>>
  BY DEF Simulate
<1>3. exec \in [pc : {"simulate", "drop"}, over : 0 .. MaxReissues,
                list : Seq(Entries), valid : Seq(Entries)]
  BY <1>1, <1>2, ExecCases
<1>4. /\ exec # Idle /\ exec.over <= auth /\ Sound(exec.list, exec.over)
      /\ exec.valid = Valid(exec.list, exec.over)
  BY <1>1, <1>2, IdleFacts DEF ExecInv
<1>5. exec' \in ExecStates /\ ExecInv'
  <2>1. CASE exec' = [pc |-> "drop", over |-> exec.over, list |-> exec.list,
                      valid |-> exec.valid]
    <3>1. exec' \in ExecStates
      BY <1>3, <2>1 DEF ExecStates
    <3>2. exec'.pc = "drop" /\ exec'.over = exec.over /\ exec'.list = exec.list
          /\ exec'.valid = exec.valid
      BY <2>1
    <3> QED BY <1>2, <1>4, <3>1, <3>2 DEF ExecInv
  <2>2. CASE exec' = [pc |-> "send", over |-> exec.over]
    <3>1. exec' \in ExecStates
      BY <1>3, <2>2 DEF ExecStates
    <3>2. exec'.pc = "send" /\ exec'.over = exec.over
      BY <2>2
    <3> QED BY <1>2, <1>4, <3>1, <3>2 DEF ExecInv
  <2>3. CASE exec' = Idle
    BY <2>3, ExecIdle
  <2> QED BY <2>1, <2>2, <2>3 DEF Simulate
<1>6. Sound(list, auth)' /\ faults' \in 0 .. MaxFaults
  BY <1>1, <1>2 DEF Types
<1> QED BY <1>2, <1>5, <1>6, ExecKeeps DEF SigInv, Types

LEMMA DropNonSignersStep ==
  ASSUME SigInv, DropNonSigners
  PROVE  SigInv'
<1>1. Types /\ Sound(list, auth) /\ ExecInv
  BY DEF SigInv
<1> DEFINE S == [signer : registered, over : 0 .. MaxReissues]
<1>2. /\ exec.pc = "drop" /\ exec' = Idle /\ UNCHANGED <<auth, registered, watcher, faults>>
      /\ Prune(exec.list, Among(exec.valid, S))
  BY DEF DropNonSigners
<1>3. exec.valid = Valid(exec.list, exec.over)
  BY <1>1, <1>2 DEF ExecInv
<1>4. Sound(list, auth)'
  <2>1. list' = list \/ list' = Among(Valid(list, exec.over), S)
    BY <1>2, <1>3, PruneSound
  <2>2. Sound(Valid(list, exec.over), auth)
    BY <1>1, AmongSound DEF Valid
  <2>3. Sound(Among(Valid(list, exec.over), S), auth)
    BY <2>2, AmongSound
  <2> QED BY <1>1, <1>2, <2>1, <2>3
<1>5. faults' \in 0 .. MaxFaults
  BY <1>1, <1>2 DEF Types
<1> QED BY <1>2, <1>4, <1>5, ExecIdle, ExecKeeps DEF SigInv, Types

LEMMA ExecEndsStep ==
  ASSUME SigInv, Send \/ ExecFails
  PROVE  SigInv'
<1>1. Types /\ Sound(list, auth)
  BY DEF SigInv
<1>2. exec' = Idle /\ UNCHANGED <<auth, list, registered, watcher>>
  BY DEF Send, ExecFails
<1>3. faults' \in 0 .. MaxFaults
  BY <1>1, BoundsNat DEF Types, Send, ExecFails
<1>4. Sound(list, auth)'
  BY <1>1, <1>2
<1> QED BY <1>2, <1>3, <1>4, ExecIdle, ExecKeeps DEF SigInv, Types

LEMMA NextSig ==
  ASSUME SigInv, [Next]_vars
  PROVE  SigInv'
<1>1. CASE UNCHANGED vars
  <2>1. Types' /\ Sound(list, auth)' /\ (\A w \in Watchers : WatcherInv(w)') /\ ExecInv'
    BY <1>1 DEF vars, SigInv, Types, WatcherInv, ExecInv
  <2> QED BY <2>1 DEF SigInv
<1>2. CASE \E w \in Watchers : Sign(w) \/ WatcherFails(w) \/ Rotate(w)
  BY <1>2, PollSignStep, ReadListStep, WriteListStep, WatcherFailsStep, RotateStep DEF Sign
<1>3. CASE Execute \/ Reissue \/ ExecFails
  BY <1>3, SelectReadyStep, VerifyStep, SimulateStep, DropNonSignersStep, ReissueStep,
     ExecEndsStep DEF Execute
<1> QED BY <1>1, <1>2, <1>3 DEF Next

-------------------------------------------------------------------------------
(* The theorems.                                                           *)

(* However the statements of watchers and executor interleave, however     *)
(* often the request is reissued and whoever fails, the row's list and     *)
(* every list that was read to be written back is duplicate free.          *)
THEOREM SignatureInvariant == Spec => []SigInv
BY InitSig, NextSig, PTL DEF Spec

(* submitSignature: no watcher is on the list twice, although its SELECT   *)
(* and UPDATE are not one transaction, so signature_count counts signers.  *)
THEOREM NoSignerIsListedTwice == Spec => []NoSignerTwice
<1>1. SigInv => NoSignerTwice
  BY DEF SigInv, Sound, Distinct, NoSignerTwice
<1> QED BY <1>1, SignatureInvariant, PTL

(* Types, and that a list never has more signatures than there are         *)
(* watchers, which needs that no watcher is on it twice.                   *)
THEOREM SignatureTypes == Spec => []TypeOK
<1>1. SigInv => TypeOK
  <2>1. SUFFICES ASSUME SigInv PROVE TypeOK
    OBVIOUS
  <2>2. Types /\ list \in Seq(Entries) /\ Distinct(list)
    BY <2>1 DEF SigInv, Sound
  <2>3. Len(list) <= Cardinality(Watchers)
    BY <2>2, DistinctFits
  <2>4. \A w \in Watchers : watcher[w].pc \in {"idle", "signed", "append"}
    BY <2>2, WatcherCases
  <2>5. exec.pc \in {"idle", "verify", "simulate", "drop", "send"}
    BY <2>2, ExecCases
  <2> QED BY <2>2, <2>3, <2>4, <2>5 DEF TypeOK, Types
<1> QED BY <1>1, SignatureInvariant, PTL

(* What Valid drops of a list read earlier, if the list still stands, is   *)
(* not over the authorization the row has now, reissued or not.            *)
LEMMA DroppedByValid ==
  ASSUME SigInv, exec.pc \in {"verify", "simulate", "drop"}, list = exec.list,
         NEW k \in DOMAIN list, \A j \in DOMAIN Valid(list, exec.over) :
                                  Valid(list, exec.over)[j] # list[k]
  PROVE  list[k].over # auth
<1>1. Types /\ ExecInv /\ Sound(list, exec.over)
  BY DEF SigInv, ExecInv
<1>2. list \in Seq(Entries) /\ list[k] \in Entries /\ k \in 1 .. Len(list)
  BY <1>1 DEF Sound
<1>3. exec # Idle /\ exec.over \in 0 .. MaxReissues /\ exec.over <= auth
  BY <1>1, IdleFacts, ExecCases DEF ExecInv
<1> DEFINE S == [signer : Watchers, over : {exec.over}]
<1>4. list[k] \notin S
  <2>1. Valid(list, exec.over) = Among(list, S)
    BY DEF Valid
  <2> HIDE DEF S
  <2>2. \A j \in DOMAIN Among(list, S) : Among(list, S)[j] # list[k]
    BY <2>1
  <2> QED BY <1>2, <2>2, AmongKeeps
<1>5. list[k].over # exec.over
  BY <1>2, <1>4 DEF Entries
<1>6. list[k].over <= exec.over /\ list[k].over \in Nat /\ exec.over \in Nat /\ auth \in Nat
  BY <1>1, <1>2, <1>3, BoundsNat DEF Sound, Entries, Types
<1> QED BY <1>3, <1>5, <1>6

(* _pruneSignatures takes from the list only signatures of no use, because *)
(* it compares the whole list with the one it read.                        *)
THEOREM PruneTakesOnlyUseless == Spec => PruneRemovesOnlyUseless
<1> DEFINE Useless(k) == list[k].over # auth \/ list[k].signer \notin registered
<1> DEFINE A == \A k \in DOMAIN list :
      (Verify \/ DropNonSigners) /\ (\A j \in DOMAIN list' : list'[j] # list[k]) => Useless(k)
<1>1. SigInv /\ [Next]_vars => [A]_vars
  <2>1. SUFFICES ASSUME SigInv, NEW k \in DOMAIN list, Verify \/ DropNonSigners,
                        \A j \in DOMAIN list' : list'[j] # list[k]
                 PROVE  Useless(k)
    OBVIOUS
  <2>2. list' # list
    BY <2>1
  <2>3. CASE Verify
    <3>1. /\ exec.pc = "verify" /\ list = exec.list /\ list' = Valid(list, exec.over)
      BY <2>2, <2>3, PruneSound DEF Verify
    <3> QED BY <2>1, <3>1, DroppedByValid
  <2>4. CASE DropNonSigners
    <3> DEFINE S == [signer : registered, over : 0 .. MaxReissues]
    <3>1. /\ exec.pc = "drop" /\ list = exec.list /\ list' = Among(exec.valid, S)
      BY <2>2, <2>4, PruneSound DEF DropNonSigners
    <3>2. exec.valid = Valid(list, exec.over) /\ Sound(list, auth)
      BY <2>1, <3>1 DEF SigInv, ExecInv
    <3> DEFINE v == Valid(list, exec.over)
    <3>3. v \in Seq(Entries)
      BY <3>2, AmongSound DEF Valid, Sound
    <3>4. CASE \A j \in DOMAIN v : v[j] # list[k]
      <4>1. list[k].over # auth
        BY <2>1, <3>1, <3>4, DroppedByValid
      <4> QED BY <4>1
    <3>5. CASE \E j \in DOMAIN v : v[j] = list[k]
      <4>1. PICK j \in DOMAIN v : v[j] = list[k]
        BY <3>5
      <4>2. j \in 1 .. Len(v) /\ v[j] \in Entries
        BY <3>3
      <4>3. list' = Among(v, S)
        BY <3>1, <3>2
      <4> HIDE DEF v
      <4>4. v[j] \in S => \E i \in DOMAIN Among(v, S) : Among(v, S)[i] = v[j]
        BY <3>3, <4>1, AmongKeeps
      <4>5. v[j] \notin S
        BY <2>1, <4>1, <4>3, <4>4
      <4>6. v[j].signer \notin registered
        BY <4>2, <4>5 DEF Entries
      <4> QED BY <4>1, <4>6
    <3> QED BY <3>4, <3>5
  <2> QED BY <2>1, <2>3, <2>4
<1>2. Spec => [][A]_vars
  BY <1>1, SignatureInvariant, PTL DEF Spec
<1> QED BY <1>2 DEF PruneRemovesOnlyUseless
===============================================================================
