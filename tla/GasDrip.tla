------------------------------- MODULE GasDrip -------------------------------
(***************************************************************************)
(* The gas drip (backend/src/executor/drip-sender.ts): after a mint, the   *)
(* mint executor of an instance sends some xDAI to a recipient who asked   *)
(* for it when the deposit address was allocated, once per wallet.         *)
(*                                                                         *)
(* DepositAddresses gives the preferences and the credited orders, all of  *)
(* which are minted here at once (see MintExecutor).  Of the amounts there *)
(* is how many drips the hot wallet still holds, whether the recipient     *)
(* holds the threshold and whether the mint is large enough.               *)
(***************************************************************************)
EXTENDS DepositAddresses

CONSTANTS
  Instances,   \* backend processes with a mint executor
  Funds,       \* drips that the hot wallet holds at first
  MaxRefills,  \* bound: refills of the hot wallet, by one drip
  MaxSpends,   \* bound: times recipients spend or receive xDAI elsewhere
  MaxFaults    \* bound: lost answers, failed writes, timeouts, crashes

ASSUME DripAssumption ==
  /\ IsFiniteSet(Instances)
  /\ {Funds, MaxRefills, MaxSpends, MaxFaults} \subseteq Nat

VARIABLES
  completed,  \* orders whose mint is completed
  drip,       \* drip[i]: the sendDripIfEligible that i is in
  transfers,  \* drips sent: wallet, pending, success or reverted
  funds,      \* drips that the hot wallet holds
  gas,        \* wallets that hold the threshold
  refills,    \* refills so far
  spends,     \* changes of gas from elsewhere so far
  faults      \* faults so far

dripVars == <<completed, drip, transfers, funds, gas, refills, spends, faults>>
vars == <<depositVars, dripVars>>

-------------------------------------------------------------------------------
Init ==
  /\ DepositInit
  /\ completed = {}
  /\ drip = [i \in Instances |-> Idle]
  /\ transfers = << >>
  /\ funds = Funds
  /\ gas = {}
  /\ refills = 0 /\ spends = 0 /\ faults = 0

Fault == faults < MaxFaults /\ faults' = faults + 1

Proceed(i, step) == drip' = [drip EXCEPT ![i] = step]

(* On to the next order of the list. *)
Done(i) == Proceed(i, IF drip[i].todo = {} THEN Idle ELSE [pc |-> "confirm", todo |-> drip[i].todo])

(* UPDATE gas_drips ... WHERE lower(recipient) = lower(s). *)
UpdateRows(s, status) ==
  drips' = [r \in Spellings |-> IF r \in Rows(WalletOf[s]) THEN status ELSE drips[r]]

depositRest == <<addresses, calls, orders, payments, blocks, scanVars>>
dripRest == <<completed, transfers, funds, gas, refills, spends>>

-------------------------------------------------------------------------------
(* confirmSubmittedMints: the mints not yet confirmed. *)
ListSubmitted(i) ==
  /\ drip[i] = Idle
  /\ LET todo == {o \in DOMAIN orders : orders[o].payment # 0} \ completed
     IN  todo # {} /\ Proceed(i, [pc |-> "confirm", todo |-> todo])
  /\ UNCHANGED <<depositVars, dripRest, faults>>

(* Its receipt is there: the order is completed, if no other instance did  *)
(* that meanwhile, and its drip begins in either case.                     *)
Complete(i, o, enough) ==
  /\ completed' = completed \cup {o}
  /\ Proceed(i, [pc |-> "row", to |-> orders[o].owner, enough |-> enough, sent |-> 0,
                 todo |-> drip[i].todo \ {o}])
  /\ UNCHANGED <<depositVars, transfers, funds, gas, refills, spends, faults>>

(* As Final, leaving out a drip that reverted. *)
SentIsFinal == {"opted_out", "sent"}

(* Statuses after which nothing is sent. *)
Final == {"opted_out", "sent", "failed"}

(* One of the wallet's rows, whichever the query returns first. *)
ReadRow(i) ==
  /\ drip[i].pc = "row"
  /\ LET rows == Rows(WalletOf[drip[i].to])
     IN  \/ /\ rows = {} \/ \E r \in rows : drips[r] \in Final
            /\ Done(i)
         \/ /\ \E r \in rows : drips[r] \notin Final
            /\ IF drip[i].enough THEN Proceed(i, [drip[i] EXCEPT !.pc = "balance"]) ELSE Done(i)
  /\ UNCHANGED <<depositVars, dripRest, faults>>

(* A recipient with gas keeps the drip for later. *)
SkipRecipient(i) ==
  /\ drip[i].pc = "balance"
  /\ WalletOf[drip[i].to] \in gas
  /\ UpdateRows(drip[i].to, "recipient_has_gas")
  /\ Done(i)
  /\ UNCHANGED <<depositRest, dripRest, faults>>

(* Without gas, or when its balance cannot be read, the recipient is next. *)
CheckRecipient(i) ==
  /\ drip[i].pc = "balance"
  /\ \/ WalletOf[drip[i].to] \notin gas /\ UNCHANGED faults
     \/ WalletOf[drip[i].to] \in gas /\ Fault
  /\ Proceed(i, [drip[i] EXCEPT !.pc = "send"])
  /\ UNCHANGED <<depositVars, dripRest>>

WalletDry(i) ==
  /\ drip[i].pc = "send"
  /\ funds = 0
  /\ UpdateRows(drip[i].to, "wallet_dry")
  /\ Done(i)
  /\ UNCHANGED <<depositRest, dripRest, faults>>

(* sendTransaction, whose answer may be lost; the value leaves the hot     *)
(* wallet when the transfer is mined.                                      *)
Send(i) ==
  /\ drip[i].pc = "send"
  /\ funds > 0
  /\ transfers' = Append(transfers, [to |-> WalletOf[drip[i].to], status |-> "pending"])
  /\ \/ Proceed(i, [drip[i] EXCEPT !.pc = "receipt", !.sent = Len(transfers')]) /\ UNCHANGED faults
     \/ Done(i) /\ Fault
  /\ UNCHANGED <<depositVars, completed, funds, gas, refills, spends>>

(* As HasReceipt, not waiting for it. *)
WasSent(k) == k \in DOMAIN transfers

(* waitForTransactionReceipt. *)
HasReceipt(k) == transfers[k].status # "pending"

(* The outcome of the receipt, after the hash was recorded. *)
Record(i) ==
  /\ drip[i].pc = "receipt"
  /\ HasReceipt(drip[i].sent)
  /\ UpdateRows(drip[i].to, IF transfers[drip[i].sent].status = "success" THEN "sent" ELSE "failed")
  /\ Done(i)
  /\ UNCHANGED <<depositRest, dripRest, faults>>

(* A write or a read fails, no receipt in 60 s, or the process dies: only  *)
(* the error is recorded, if anything.                                     *)
Throw(i) ==
  /\ drip[i] # Idle
  /\ Fault
  /\ Done(i) \/ Proceed(i, Idle)
  /\ UNCHANGED <<depositVars, dripRest>>

-------------------------------------------------------------------------------
(* Gnosis and the people at it.                                            *)

MineTransfer(k) ==
  /\ transfers[k].status = "pending"
  /\ \E status \in {"success", "reverted"} :
       /\ status = "success" => funds > 0
       /\ transfers' = [transfers EXCEPT ![k].status = status]
       /\ funds' = IF status = "success" THEN funds - 1 ELSE funds
       /\ gas' = IF status = "success" THEN gas \cup {transfers[k].to} ELSE gas
  /\ UNCHANGED <<depositVars, completed, drip, refills, spends, faults>>

Spend(w) ==
  /\ spends < MaxSpends
  /\ spends' = spends + 1
  /\ gas' = IF w \in gas THEN gas \ {w} ELSE gas \cup {w}
  /\ UNCHANGED <<depositVars, completed, drip, transfers, funds, refills, faults>>

Refill ==
  /\ refills < MaxRefills
  /\ refills' = refills + 1
  /\ funds' = funds + 1
  /\ UNCHANGED <<depositVars, completed, drip, transfers, gas, spends, faults>>

Drips(i) ==
  \/ ListSubmitted(i) \/ ReadRow(i) \/ SkipRecipient(i) \/ CheckRecipient(i)
  \/ WalletDry(i) \/ Send(i) \/ Record(i)

Next ==
  \/ DepositNext /\ UNCHANGED dripVars
  \/ \E i \in Instances :
       \/ Drips(i) \/ Throw(i)
       \/ /\ drip[i].pc = "confirm"
          /\ \E o \in drip[i].todo, enough \in BOOLEAN : Complete(i, o, enough)
  \/ \E k \in DOMAIN transfers : MineTransfer(k)
  \/ \E w \in Wallets : Spend(w)
  \/ Refill

Spec == Init /\ [][Next]_vars

-------------------------------------------------------------------------------
(* Properties.                                                             *)

SentTo(w) == {k \in DOMAIN transfers : transfers[k].to = w}

Received(w) == {k \in SentTo(w) : transfers[k].status = "success"}

(* migration 009, the status machine: a row says sent or failed only of a  *)
(* drip that succeeded or reverted for that wallet, in either spelling.    *)
OutcomeIsOnChain ==
  \A s \in Spellings :
    /\ drips[s] = "sent" => Received(WalletOf[s]) # {}
    /\ drips[s] = "failed" => \E k \in SentTo(WalletOf[s]) : transfers[k].status = "reverted"

(* drip-sender.ts:9, as far as it goes: a mint executor on its own sends a *)
(* wallet another drip only after a fault.                                 *)
RepeatsNeedFaults ==
  Cardinality(Instances) = 1 => \A w \in Wallets : Cardinality(SentTo(w)) <= 1 + faults

(* drip-sender.ts:9: "One drip per recipient address, ever".               *)
OneDripEver == \A w \in Wallets : Cardinality(Received(w)) <= 1

(* deposit-address.ts:76: calls after the first "can't flip-flop their     *)
(* decision": who opted out stays so, and no drip is sent.                 *)
OptOutStands ==
  [][\A s \in Spellings : drips[s] = "opted_out" =>
       drips'[s] = "opted_out" /\ (SentTo(WalletOf[s]) # {} \/ SentTo(WalletOf[s])' = {})]_vars
===============================================================================
