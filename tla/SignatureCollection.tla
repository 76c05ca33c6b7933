-------------------------- MODULE SignatureCollection --------------------------
(***************************************************************************)
(* How one mint request gets its signatures: the watchers' signing loops   *)
(* (watcher/src/index.ts, signing/submitter.ts) and the part of the mint   *)
(* executor that verifies, prunes and uses what they wrote                 *)
(* (backend/src/executor/mint-executor.ts).  MintExecutor sees all of this *)
(* as one step, CollectSignatures.                                         *)
(*                                                                         *)
(* Each statement on the row is a step of its own: submitSignature has no  *)
(* transaction around its SELECT ... FOR UPDATE and its UPDATE, so the row *)
(* lock is released between the two.                                       *)
(*                                                                         *)
(* Authorizations are numbered: reissuing the request (new deadline, new   *)
(* nonce) makes the next one.  A signature is who signed and over which.   *)
(***************************************************************************)
EXTENDS Naturals, Sequences, FiniteSets

CONSTANTS
  Watchers,      \* signing keys, one watcher each
  Threshold,     \* SIGNATURE_THRESHOLD
  MaxReissues,   \* bound: times the request is reissued
  MaxRotations,  \* bound: signers removed from BridgeController
  MaxFaults      \* bound: crashes and failed calls

ASSUME SignatureAssumption ==
  /\ IsFiniteSet(Watchers)
  /\ Threshold \in 1 .. Cardinality(Watchers)
  /\ {MaxReissues, MaxRotations, MaxFaults} \subseteq Nat

VARIABLES
  auth,        \* the authorization the row holds
  list,        \* mint_requests.signatures; signature_count is its length
  sent,        \* the executeMint sent: its authorization
  registered,  \* BridgeController.isSigner
  watcher,     \* watcher[w]: what w is in the middle of
  exec,        \* what the executor is in the middle of
  faults

vars == <<auth, list, sent, registered, watcher, exec, faults>>

-------------------------------------------------------------------------------
Idle == [pc |-> "idle"]

Entries == [signer : Watchers, over : 0 .. MaxReissues]

Signers(l) == {l[k].signer : k \in DOMAIN l}

(* The entries of a list that are in S, in its order.                      *)
Among(l, S) ==
  LET kept[n \in 0 .. Len(l)] ==
        IF n = 0 THEN << >>
        ELSE IF l[n] \in S THEN Append(kept[n-1], l[n]) ELSE kept[n-1]
  IN  kept[Len(l)]

Pending == sent = Idle

Init ==
  /\ auth = 0
  /\ list = << >>
  /\ sent = Idle
  /\ registered = Watchers
  /\ watcher = [w \in Watchers |-> Idle]
  /\ exec = Idle
  /\ faults = 0

-------------------------------------------------------------------------------
(* A watcher.                                                              *)

(* pollForSigningOpportunities: the row is open and w is not on it.  The   *)
(* check against the node and the signing itself are over what was read.   *)
PollSign(w) ==
  /\ watcher[w] = Idle
  /\ Pending
  /\ Len(list) < Threshold
  /\ w \notin Signers(list)
  /\ watcher' = [watcher EXCEPT ![w] = [pc |-> "signed", over |-> auth]]
  /\ UNCHANGED <<auth, list, sent, registered, exec, faults>>

(* As ReadList, without looking for w's own signature.                     *)
ReadListUnchecked(w) ==
  /\ watcher[w].pc = "signed"
  /\ watcher' = [watcher EXCEPT ![w] = [pc |-> "append", over |-> watcher[w].over,
                                       list |-> list]]
  /\ UNCHANGED <<auth, list, sent, registered, exec, faults>>

(* submitSignature, its SELECT: the list to append to, unless w is on it.  *)
ReadList(w) ==
  /\ watcher[w].pc = "signed"
  /\ watcher' = [watcher EXCEPT ![w] =
                   IF w \in Signers(list) THEN Idle
                   ELSE [pc |-> "append", over |-> watcher[w].over, list |-> list]]
  /\ UNCHANGED <<auth, list, sent, registered, exec, faults>>

(* submitSignature, its UPDATE: the row's list is replaced.                *)
WriteList(w) ==
  /\ watcher[w].pc = "append"
  /\ list' = Append(watcher[w].list, [signer |-> w, over |-> watcher[w].over])
  /\ watcher' = [watcher EXCEPT ![w] = Idle]
  /\ UNCHANGED <<auth, sent, registered, exec, faults>>

WatcherFails(w) ==
  /\ watcher[w] # Idle
  /\ faults < MaxFaults
  /\ watcher' = [watcher EXCEPT ![w] = Idle]
  /\ faults' = faults + 1
  /\ UNCHANGED <<auth, list, sent, registered, exec>>

-------------------------------------------------------------------------------
(* The executor.                                                           *)

(* _regenerate: a new authorization, no signatures.                        *)
Reissue ==
  /\ Pending
  /\ auth < MaxReissues
  /\ auth' = auth + 1
  /\ list' = << >>
  /\ UNCHANGED <<sent, registered, watcher, exec, faults>>

(* submitReadyMints: a row with enough signatures, by its count.           *)
SelectReady ==
  /\ exec = Idle
  /\ Pending
  /\ Len(list) >= Threshold
  /\ exec' = [pc |-> "verify", over |-> auth, list |-> list]
  /\ UNCHANGED <<auth, list, sent, registered, watcher, faults>>

(* _validSignatures: those over the authorization about to be sent.  That  *)
(* no signer is on the list twice is NoSignerTwice.                        *)
Valid(l, a) == Among(l, [signer : Watchers, over : {a}])

(* As Prune, without the comparison.                                       *)
PruneBlindly(original, keep) ==
  list' = IF Len(keep) # Len(original) /\ Pending THEN keep ELSE list

(* As Prune, leaving the list for the watchers to repair.                  *)
PruneNothing(original, keep) == list' = list

(* _pruneSignatures: compare and set. *)
Prune(original, keep) ==
  list' = IF /\ Len(keep) # Len(original)
             /\ Pending
             /\ list = original
          THEN keep ELSE list

Verify ==
  /\ exec.pc = "verify"
  /\ LET valid == Valid(exec.list, exec.over)
     IN  IF Len(valid) < Threshold
         THEN /\ Prune(exec.list, valid)
              /\ exec' = Idle
         ELSE /\ exec' = [pc |-> "simulate", over |-> exec.over, list |-> exec.list,
                          valid |-> valid]
              /\ UNCHANGED list
  /\ UNCHANGED <<auth, sent, registered, watcher, faults>>

(* The simulation: too few signers the controller knows; or a refusal of   *)
(* an authorization reissued meanwhile; or the call goes on to be sent.    *)
Simulate ==
  /\ exec.pc = "simulate"
  /\ IF Cardinality(Signers(exec.valid) \cap registered) < Threshold
     THEN exec' = [pc |-> "drop", over |-> exec.over, list |-> exec.list,
                   valid |-> exec.valid]
     ELSE \/ exec' = [pc |-> "send", over |-> exec.over]
          \/ exec.over # auth /\ exec' = Idle
  /\ UNCHANGED <<auth, list, sent, registered, watcher, faults>>

(* _dropNonSigners: isSigner is asked again, then the list pruned.         *)
DropNonSigners ==
  /\ exec.pc = "drop"
  /\ Prune(exec.list, Among(exec.valid, [signer : registered, over : 0 .. MaxReissues]))
  /\ exec' = Idle
  /\ UNCHANGED <<auth, sent, registered, watcher, faults>>

(* writeContract and its record.  A lost record is MintExecutor's.         *)
Send ==
  /\ exec.pc = "send"
  /\ sent' = IF Pending THEN [pc |-> "sent", over |-> exec.over] ELSE sent
  /\ exec' = Idle
  /\ UNCHANGED <<auth, list, registered, watcher, faults>>

ExecFails ==
  /\ exec # Idle
  /\ faults < MaxFaults
  /\ exec' = Idle
  /\ faults' = faults + 1
  /\ UNCHANGED <<auth, list, sent, registered, watcher>>

(* The owner of BridgeController removes a signer, whose watcher runs on.  *)
Rotate(w) ==
  /\ w \in registered
  /\ Cardinality(registered) > Threshold
  /\ Cardinality(Watchers \ registered) < MaxRotations
  /\ registered' = registered \ {w}
  /\ UNCHANGED <<auth, list, sent, watcher, exec, faults>>

-------------------------------------------------------------------------------
Sign(w) == PollSign(w) \/ ReadList(w) \/ WriteList(w)

Execute == SelectReady \/ Verify \/ Simulate \/ DropNonSigners \/ Send

Next ==
  \/ \E w \in Watchers : Sign(w) \/ WatcherFails(w) \/ Rotate(w)
  \/ Execute \/ Reissue \/ ExecFails

Spec == Init /\ [][Next]_vars

(* Every watcher and the executor poll for ever.  Nothing is assumed of    *)
(* reissues, rotations and faults, of which there are finitely many.       *)
Fairness == (\A w \in Watchers : WF_vars(Sign(w))) /\ WF_vars(Execute)

FairSpec == Spec /\ Fairness

-------------------------------------------------------------------------------
(* Properties.                                                             *)

(* Every variable has its type; a watcher adds at most one signature.      *)
TypeOK ==
  /\ auth \in 0 .. MaxReissues
  /\ list \in Seq(Entries) /\ Len(list) <= Cardinality(Watchers)
  /\ registered \subseteq Watchers
  /\ \A w \in Watchers : watcher[w].pc \in {"idle", "signed", "append"}
  /\ exec.pc \in {"idle", "verify", "simulate", "drop", "send"}
  /\ faults \in 0 .. MaxFaults

(* No signer is ever on the list twice, whoever overwrote whom: what the   *)
(* dedup of submitSignature and the count in signature_count rely on.      *)
NoSignerTwice ==
  \A j, k \in DOMAIN list : list[j].signer = list[k].signer => j = k

(* Pruning is a compare-and-set on the whole list, so it removes only      *)
(* signatures of no use: not over the current authorization, or by a       *)
(* signer the controller does not know; never one appended since the read. *)
PruneRemovesOnlyUseless ==
  [][\A k \in DOMAIN list :
       (Verify \/ DropNonSigners) /\ (\A j \in DOMAIN list' : list'[j] # list[k]) =>
         list[k].over # auth \/ list[k].signer \notin registered]_vars

(* watcher/src/signing/submitter.ts:4: "Atomically appends this watcher's  *)
(* EIP-712 signature": what was on the list stays on it.                   *)
AppendKeepsOthers ==
  [][\A w \in Watchers : WriteList(w) =>
       \A k \in DOMAIN list : \E j \in DOMAIN list' : list'[j] = list[k]]_vars

(* However signatures overwrite each other or go stale, the mint is sent   *)
(* in the end: a list full of useless ones is emptied and signed again.    *)
(* (With a removed signer whose watcher runs on it may not be: it can fill *)
(* the emptied list before the others do, over and over.)                  *)
EventuallySent == [](registered = Watchers) => <>(sent # Idle)
===============================================================================
