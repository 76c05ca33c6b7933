--------------------------- MODULE DepositAddresses ---------------------------
(***************************************************************************)
(* Who is given a deposit address and who is credited for a payment to it: *)
(* the two routes that allocate addresses (backend/src/api/routes/         *)
(* deposit-address.ts and quotes.ts) and the two passes of the watchers    *)
(* that match payments to them (watcher/src/deposits/block-handler.ts).    *)
(*                                                                         *)
(* An address is its index in the HD wallet, a recipient is a spelling of  *)
(* a wallet's address.  Transactions are READ COMMITTED: each statement    *)
(* that another transaction may precede is a step of its own.  Left out:   *)
(* the amounts, and the confirmations, reorganisations and first start of  *)
(* DepositWatcher; here every block stays.                                 *)
(***************************************************************************)
EXTENDS Integers, Sequences, FiniteSets, FiniteSetsExt

CONSTANTS
  Spellings,    \* recipients as the callers write them
  WalletOf,     \* WalletOf[s]: the wallet that s is a spelling of
  Malformed,    \* mixed-case spellings with a wrong EIP-55 checksum
  Callers,      \* requests that the API works on at one time
  Watchers,     \* watcher processes over one database
  DripEnabled,  \* config.dripEnabled: deposit-address records a preference
  Preferences,  \* what callers ask for: opted_in, opted_out
  MaxQuotes,    \* bound: quotes
  MaxPayments,  \* bound: payments
  MaxErrors     \* bound: database errors while a payment is recorded

ASSUME AddressAssumption ==
  /\ DripEnabled \in BOOLEAN
  /\ Preferences \subseteq {"opted_in", "opted_out"}
  /\ Spellings \subseteq DOMAIN WalletOf
  /\ Malformed \subseteq Spellings
  /\ {MaxQuotes, MaxPayments, MaxErrors} \subseteq Nat

VARIABLES
  addresses,  \* deposit_addresses: [owner, index]
  drips,      \* drips[s]: gas_drips.status of the row of s
  orders,     \* bridge_orders with their source_deposits, by id
  calls,      \* calls[c]: the transaction a request is in
  payments,   \* payments[p]: the index of the address p pays
  blocks,     \* blocks[b]: the payments in block b
  scan,       \* scan[v]: what v has read of the block it handles
  mem,        \* mem[v]: blocks handled, cursor held
  cursor,     \* watcher_cursors
  errors      \* database errors so far

apiVars == <<addresses, drips, calls>>
scanVars == <<scan, mem, cursor, errors>>
depositVars == <<apiVars, orders, payments, blocks, scanVars>>

-------------------------------------------------------------------------------
Wallets == {WalletOf[s] : s \in Spellings}

Idle == [pc |-> "idle"]

DepositInit ==
  /\ addresses = {}
  /\ drips = [s \in Spellings |-> "none"]
  /\ orders = << >>
  /\ calls = [c \in Callers |-> Idle]
  /\ payments = << >>
  /\ blocks = << >>
  /\ scan = [v \in Watchers |-> Idle]
  /\ mem = [v \in Watchers |-> [pos |-> 0, held |-> FALSE]]
  /\ cursor = [v \in Watchers |-> 0]
  /\ errors = 0

AddressesOf(w) == {a \in addresses : WalletOf[a.owner] = w}

Rows(w) == {s \in Spellings : WalletOf[s] = w /\ drips[s] # "none"}

(* MAX(hd_index) of each table, -1 when it is empty. *)
MaxAddress == Max({a.index : a \in addresses} \cup {-1})

MaxDeposit == Max({orders[o].index : o \in DOMAIN orders} \cup {-1})

Step(c, call) == calls' = [calls EXCEPT ![c] = call]

-------------------------------------------------------------------------------
(* GET /v1/deposit-address.                                                *)

(* As RowIsFree, not waiting for a transaction that may insert the row.    *)
AnyRowIsFree(s) == TRUE

(* ON CONFLICT waits while another transaction holds the row of s.         *)
RowIsFree(s) == \A c \in Callers : calls[c].pc \in {"allocate", "insert"} => calls[c].drip # <<s>>

(* As NoRowYet, comparing the spelling. *)
NoRowAsSpelled(s) == drips[s] = "none"

(* No gas_drips row of the wallet, in any spelling. *)
NoRowYet(s) == Rows(WalletOf[s]) = {}

(* The preference is inserted, and with an address the transaction ends: a *)
(* call that finds both only reads, and is no step.  drip names the row    *)
(* that it holds.                                                          *)
Lookup(c, s, status) ==
  /\ calls[c] = Idle
  /\ LET inserts == DripEnabled /\ NoRowYet(s)
     IN  /\ inserts \/ AddressesOf(WalletOf[s]) = {}
         /\ inserts => RowIsFree(s)
         /\ IF AddressesOf(WalletOf[s]) # {}
            THEN /\ drips' = IF inserts THEN [drips EXCEPT ![s] = status] ELSE drips
                 /\ UNCHANGED calls
            ELSE /\ Step(c, [pc |-> "allocate", owner |-> s, status |-> status,
                             drip |-> IF inserts THEN <<s>> ELSE << >>])
                 /\ UNCHANGED drips
  /\ UNCHANGED <<addresses, orders, payments, blocks, scanVars>>

(* The next index after both tables. *)
Allocate(c) ==
  /\ calls[c].pc = "allocate"
  /\ Step(c, [pc |-> "insert", owner |-> calls[c].owner, status |-> calls[c].status,
              drip |-> calls[c].drip, index |-> Max({MaxAddress, MaxDeposit}) + 1])
  /\ UNCHANGED <<addresses, drips, orders, payments, blocks, scanVars>>

(* hd_index is unique: a second insert undoes the preference too (500). *)
InsertAddress(c) ==
  /\ calls[c].pc = "insert"
  /\ LET call == calls[c]
     IN  IF \E a \in addresses : a.index = call.index
         THEN UNCHANGED <<addresses, drips>>
         ELSE /\ addresses' = addresses \cup {[owner |-> call.owner, index |-> call.index]}
              /\ drips' = [s \in Spellings |-> IF call.drip = <<s>> THEN call.status ELSE drips[s]]
  /\ Step(c, Idle)
  /\ UNCHANGED <<orders, payments, blocks, scanVars>>

-------------------------------------------------------------------------------
(* POST /v1/quotes.                                                        *)

Quotes == {o \in DOMAIN orders : orders[o].quoted}

InQuotes == {c \in Callers : calls[c].pc = "quote"}

(* The next index after source_deposits. *)
ReadQuoteIndex(c, s) ==
  /\ calls[c] = Idle
  /\ Cardinality(Quotes) + Cardinality(InQuotes) < MaxQuotes
  /\ Step(c, [pc |-> "quote", owner |-> s, index |-> MaxDeposit + 1])
  /\ UNCHANGED <<addresses, drips, orders, payments, blocks, scanVars>>

(* An order for any amount, with its address and no payment yet. *)
InsertQuote(c) ==
  /\ calls[c].pc = "quote"
  /\ orders' = Append(orders, [owner |-> calls[c].owner, index |-> calls[c].index,
                               quoted |-> TRUE, payment |-> 0])
  /\ Step(c, Idle)
  /\ UNCHANGED <<addresses, drips, payments, blocks, scanVars>>

-------------------------------------------------------------------------------
(* The chain.                                                              *)

Given == {a.index : a \in addresses} \cup {orders[o].index : o \in Quotes}

(* A block with payments to addresses that a route returned.  Nothing sees *)
(* a payment before it is mined.                                           *)
MineBlock(paid) ==
  /\ Len(payments \o paid) <= MaxPayments
  /\ payments' = payments \o paid
  /\ blocks' = Append(blocks, DOMAIN payments' \ DOMAIN payments)
  /\ UNCHANGED <<apiVars, orders, scanVars>>

-------------------------------------------------------------------------------
(* handleBlock.                                                            *)

(* matchBlock: the payments of a block to any of the watched addresses. *)
Matches(b, watched) == {p \in blocks[b] : payments[p] \in watched}

Recorded(p) == \E o \in DOMAIN orders : orders[o].payment = p

(* As DepositId, hashing the recipient as it is spelled. *)
SpelledDepositId(p, s) == <<p, s>>

(* computeDepositId: the output and the recipient, as an address.  The     *)
(* routes only match a recipient with a pattern; encoding a malformed one  *)
(* throws.                                                                 *)
DepositId(p, s) == <<p, WalletOf[s]>>

(* The UNIQUE constraint on source_deposits.deposit_id. *)
IdTaken(p, s) ==
  \E o \in DOMAIN orders : orders[o].payment # 0 /\ DepositId(orders[o].payment, orders[o].owner) = DepositId(p, s)

PendingAt(n) == {o \in Quotes : orders[o].payment = 0 /\ orders[o].index = n}

(* First pass: the quotes not yet paid, one of them for each address. *)
StartBlock(v) ==
  /\ scan[v] = Idle
  /\ mem[v].pos < Len(blocks)
  /\ LET b == mem[v].pos + 1
         watched == {n \in Given : PendingAt(n) # {}}
         todo == Matches(b, watched)
     IN  \E quote \in [{payments[p] : p \in todo} -> Quotes] :
           /\ \A n \in DOMAIN quote : quote[n] \in PendingAt(n)
           /\ scan' = [scan EXCEPT ![v] = [pc |-> "first", block |-> b, todo |-> todo,
                                           quote |-> quote, complete |-> TRUE]]
  /\ UNCHANGED <<apiVars, orders, payments, blocks, mem, cursor, errors>>

(* The recipient of the payment next in hand has an id.                    *)
HasId(v) ==
  LET n == payments[Min(scan[v].todo)]
  IN  (IF scan[v].pc = "first" THEN orders[scan[v].quote[n]].owner ELSE scan[v].owner[n]) \notin Malformed

(* The id is computed before anything is recorded, outside the try: what   *)
(* it throws ends the poll, and the next one handles the block again.      *)
IdThrows(v) ==
  /\ \/ scan[v].pc = "first" /\ scan[v].todo # {}
     \/ scan[v].pc = "tracked" /\ scan[v].todo # {} /\ ~Recorded(Min(scan[v].todo))
  /\ ~HasId(v)
  /\ scan' = [scan EXCEPT ![v] = Idle]
  /\ UNCHANGED <<apiVars, orders, payments, blocks, mem, cursor, errors>>

Match(v, complete) ==
  scan' = [scan EXCEPT ![v].todo = @ \ {Min(@)}, ![v].complete = @ /\ complete]

(* The quote takes the payment unless another payment came first. *)
FirstSight(v) ==
  /\ scan[v].pc = "first" /\ scan[v].todo # {} /\ HasId(v)
  /\ LET p == Min(scan[v].todo)
         o == scan[v].quote[payments[p]]
     IN  IF orders[o].payment # 0 THEN Match(v, TRUE) /\ UNCHANGED orders
         ELSE IF IdTaken(p, orders[o].owner) THEN Match(v, FALSE) /\ UNCHANGED orders
         ELSE orders' = [orders EXCEPT ![o].payment = p] /\ Match(v, TRUE)
  /\ UNCHANGED <<apiVars, payments, blocks, mem, cursor, errors>>

(* Second pass: the addresses of deposit_addresses and their owners. *)
ReadTracked(v) ==
  /\ scan[v].pc = "first" /\ scan[v].todo = {}
  /\ LET todo == Matches(scan[v].block, {a.index : a \in addresses})
         owner == [n \in {payments[p] : p \in todo} |-> (CHOOSE a \in addresses : a.index = n).owner]
     IN  scan' = [scan EXCEPT ![v] = [pc |-> "tracked", block |-> @.block, complete |-> @.complete,
                                      todo |-> todo, owner |-> owner]]
  /\ UNCHANGED <<apiVars, orders, payments, blocks, mem, cursor, errors>>

(* The check, before the transaction and again in it. *)
CheckRecorded(v) ==
  /\ scan[v].pc = "tracked" /\ scan[v].todo # {}
  /\ IF Recorded(Min(scan[v].todo)) THEN Match(v, TRUE)
     ELSE HasId(v) /\ scan' = [scan EXCEPT ![v].pc = "ingest"]
  /\ UNCHANGED <<apiVars, orders, payments, blocks, mem, cursor, errors>>

(* As AfterIngest, holding the block also for another watcher's record.    *)
HeldAfterIngest(v, taken) == [scan[v] EXCEPT !.pc = "tracked", !.todo = @ \ {Min(@)}, !.complete = @ /\ ~taken]

(* A violation of the unique deposit id (23505) is no failure. *)
AfterIngest(v, taken) == [scan[v] EXCEPT !.pc = "tracked", !.todo = @ \ {Min(@)}]

(* A new order of the address's owner. *)
Ingest(v) ==
  /\ scan[v].pc = "ingest"
  /\ LET p == Min(scan[v].todo)
         s == scan[v].owner[payments[p]]
     IN  /\ orders' = IF IdTaken(p, s) THEN orders
                      ELSE Append(orders, [owner |-> s, index |-> payments[p], quoted |-> FALSE, payment |-> p])
         /\ scan' = [scan EXCEPT ![v] = AfterIngest(v, IdTaken(p, s))]
  /\ UNCHANGED <<apiVars, payments, blocks, mem, cursor, errors>>

(* As RecordFails, going on as if the block was complete. *)
FailForgotten(v) ==
  /\ \/ scan[v].pc = "first" /\ scan[v].todo # {} /\ HasId(v)
     \/ scan[v].pc = "ingest"
  /\ errors < MaxErrors
  /\ errors' = errors + 1
  /\ scan' = [scan EXCEPT ![v].pc = IF @ = "ingest" THEN "tracked" ELSE @, ![v].todo = @ \ {Min(@)}]
  /\ UNCHANGED <<apiVars, orders, payments, blocks, mem, cursor>>

(* A database error is logged: the block is not complete. *)
RecordFails(v) ==
  /\ \/ scan[v].pc = "first" /\ scan[v].todo # {} /\ HasId(v)
     \/ scan[v].pc = "ingest"
  /\ errors < MaxErrors
  /\ errors' = errors + 1
  /\ scan' = [scan EXCEPT ![v].pc = IF @ = "ingest" THEN "tracked" ELSE @,
                          ![v].todo = @ \ {Min(@)}, ![v].complete = FALSE]
  /\ UNCHANGED <<apiVars, orders, payments, blocks, mem, cursor>>

(* onBlock: the cursor moves until a block is not complete. *)
EndBlock(v) ==
  /\ scan[v].pc = "tracked" /\ scan[v].todo = {}
  /\ LET held == mem[v].held \/ ~scan[v].complete
     IN  /\ mem' = [mem EXCEPT ![v] = [pos |-> scan[v].block, held |-> held]]
         /\ cursor' = IF held THEN cursor ELSE [cursor EXCEPT ![v] = scan[v].block]
  /\ scan' = [scan EXCEPT ![v] = Idle]
  /\ UNCHANGED <<apiVars, orders, payments, blocks, errors>>

(* Between two blocks it forgets only that the cursor is held.             *)
Restart(v) ==
  /\ scan[v] # Idle \/ mem[v].held
  /\ scan' = [scan EXCEPT ![v] = Idle]
  /\ mem' = [mem EXCEPT ![v] = [pos |-> cursor[v], held |-> FALSE]]
  /\ UNCHANGED <<apiVars, orders, payments, blocks, cursor, errors>>

-------------------------------------------------------------------------------
Handles(v) ==
  \/ StartBlock(v) \/ IdThrows(v) \/ FirstSight(v) \/ ReadTracked(v)
  \/ CheckRecorded(v) \/ Ingest(v) \/ EndBlock(v)

DepositNext ==
  \/ \E c \in Callers, s \in Spellings :
       \/ \E status \in Preferences : Lookup(c, s, status)
       \/ ReadQuoteIndex(c, s)
  \/ \E c \in Callers : Allocate(c) \/ InsertAddress(c) \/ InsertQuote(c)
  \/ \E k \in 1 .. MaxPayments : \E paid \in [1 .. k -> Given] : MineBlock(paid)
  \/ \E v \in Watchers : Handles(v) \/ RecordFails(v) \/ Restart(v)

DepositSpec == DepositInit /\ [][DepositNext]_depositVars

-------------------------------------------------------------------------------
(* Properties.                                                             *)

Statuses == {"none", "opted_in", "opted_out", "sent", "failed", "wallet_dry", "recipient_has_gas"}

(* Every table and every watcher's position has its type. *)
DepositTypeOK ==
  /\ \A a \in addresses : a.owner \in Spellings /\ a.index \in Nat
  /\ drips \in [Spellings -> Statuses]
  /\ \A o \in DOMAIN orders : orders[o].payment \in {0} \cup DOMAIN payments
  /\ \A v \in Watchers : cursor[v] \in 0 .. mem[v].pos /\ mem[v].pos \in 0 .. Len(blocks)

(* Those whom the address n was given to, once for each time. *)
Holders(n) ==
  {<<"address", a.owner>> : a \in {x \in addresses : x.index = n}}
    \cup {<<"quote", o>> : o \in {q \in Quotes : orders[q].index = n}}

HolderWallets(n) ==
  {WalletOf[a.owner] : a \in {x \in addresses : x.index = n}}
    \cup {WalletOf[orders[o].owner] : o \in {q \in Quotes : orders[q].index = n}}

Shared(n) == Cardinality(Holders(n)) > 1

Credits(p) == {o \in DOMAIN orders : orders[o].payment = p}

(* block-handler.ts:215: a payment to an address that only one wallet was  *)
(* given, in whatever spellings, is credited to that wallet and only once, *)
(* by whichever pass of whichever watcher.                                 *)
OneWalletOneCredit ==
  \A p \in DOMAIN payments : Cardinality(HolderWallets(payments[p])) = 1 =>
    /\ Cardinality(Credits(p)) <= 1
    /\ \A o \in Credits(p) : WalletOf[orders[o].owner] \in HolderWallets(payments[p])

(* block-handler.ts:92: a pass "only ever sees a payment in its own        *)
(* block": of the blocks behind a cursor every payment is credited, or     *)
(* stands behind another payment to the same quote, however often its      *)
(* address was given.                                                      *)
CursorCoversCredits ==
  \A v \in Watchers : \A b \in 1 .. cursor[v] : \A p \in blocks[b] :
    \/ Recorded(p)
    \/ \E o \in Quotes : orders[o].index = payments[p] /\ orders[o].payment # 0

(* block-handler.ts:276: without database errors no watcher holds its      *)
(* cursor, except over addresses that were given twice.                    *)
HeldByErrorsOnly ==
  (\A n \in Given : ~Shared(n)) => (errors = 0 => \A v \in Watchers : ~mem[v].held)

(* deposit-address.ts:80: a recipient gets no second address.  Two first   *)
(* calls at one time are kept apart only by the row of the preference.     *)
OneAddressPerSpelling ==
  \A a, b \in addresses : a.owner = b.owner => a = b

(* deposit-address.ts:78-80: 0xAbC and 0xabc "are one wallet": not even in *)
(* two spellings does a wallet get a second address.                       *)
OneAddressPerWallet == \A w \in Wallets : Cardinality(AddressesOf(w)) <= 1

(* checkMintAgainstNode, once the payment is final: the order's address is *)
(* the bridge's at its index, the output pays it and makes its deposit id. *)
checkMintAgainstNode(o) ==
  /\ orders[o].payment # 0
  /\ payments[orders[o].payment] = orders[o].index

(* deposit-address.ts:105-106, "so we can't collide": no payment makes two *)
(* orders that the signers would mint for.                                 *)
MintedForOnce ==
  \A p \in DOMAIN payments : Cardinality({o \in Credits(p) : checkMintAgainstNode(o)}) <= 1

(* index.ts:205: the cursor is held only where a deposit failed to record. *)
HeldByErrors == errors = 0 => \A v \in Watchers : ~mem[v].held
===============================================================================
