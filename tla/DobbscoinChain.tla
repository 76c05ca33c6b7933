---------------------------- MODULE DobbscoinChain ----------------------------
(***************************************************************************)
(* The Dobbscoin block chain as a watcher sees it through its own node:    *)
(* a tree of blocks of which the longest branch is active.  Branches are   *)
(* shorter than the confirmations a deposit needs to be final.             *)
(*                                                                         *)
(* Blocks are numbered as they are found; 0 is the genesis block.          *)
(***************************************************************************)
EXTENDS Integers, Sequences, FiniteSets

CONSTANTS
  Payments,            \* outputs that pay an address of the bridge: (txid, vout)
  FinalConfirmations,  \* confirmations at which a deposit is final
  MaxBlocks,           \* bound: blocks
  MaxForks             \* bound: blocks that do not extend the active branch

ASSUME ChainAssumption ==
  /\ IsFiniteSet(Payments)
  /\ FinalConfirmations \in Nat \ {0}
  /\ {MaxBlocks, MaxForks} \subseteq Nat

VARIABLES
  blocks,  \* blocks[b]: its height, its branch down to genesis, its payments
  tip,     \* the node's best block
  forks    \* blocks that did not extend the active branch

chainVars == <<blocks, tip, forks>>

-------------------------------------------------------------------------------
ChainInit == blocks = << >> /\ tip = 0 /\ forks = 0

Blocks == 0 .. Len(blocks)

Height(b) == IF b = 0 THEN 0 ELSE blocks[b].height

Branch(b) == IF b = 0 THEN {0} ELSE blocks[b].branch

PaidIn(b) == IF b = 0 THEN {} ELSE blocks[b].paid

PaidOn(branch) == UNION {PaidIn(b) : b \in branch}

(* The highest of some blocks of one branch. *)
Highest(branch) == CHOOSE b \in branch : \A c \in branch : Height(c) <= Height(b)

ForkPoint(b, c) == Highest(Branch(b) \cap Branch(c))

(* A block on p: the active tip or, in a fork, a block that is not buried. *)
Mine(p, paid) ==
  /\ Len(blocks) < MaxBlocks
  /\ p # tip => forks < MaxForks
  /\ Height(tip) - Height(ForkPoint(p, tip)) < FinalConfirmations
  /\ paid \cap PaidOn(Branch(p)) = {}
  /\ LET b == Len(blocks) + 1
     IN  /\ blocks' = Append(blocks, [height |-> Height(p) + 1,
                                      branch |-> Branch(p) \cup {b}, paid |-> paid])
         /\ tip' = IF Height(p) + 1 > Height(tip) THEN b ELSE tip
  /\ forks' = forks + (IF p = tip THEN 0 ELSE 1)

ChainNext == \E p \in Blocks, paid \in SUBSET Payments : Mine(p, paid)

-------------------------------------------------------------------------------
(* getrawtransaction: where the payment is on the active branch. *)
InBlock(d) == {b \in Branch(tip) : d \in PaidIn(b)}

Confirmations(d) ==
  IF InBlock(d) = {} THEN 0 ELSE Height(tip) - Height(Highest(InBlock(d))) + 1

TxStatus(d) ==
  [confs |-> Confirmations(d), block |-> IF InBlock(d) = {} THEN 0 ELSE Highest(InBlock(d))]

ChainTypeOK ==
  /\ Len(blocks) <= MaxBlocks
  /\ \A b \in DOMAIN blocks :
       /\ blocks[b].height \in 1 .. b
       /\ blocks[b].branch \subseteq 0 .. b
       /\ blocks[b].paid \subseteq Payments
  /\ tip \in Blocks
  /\ forks \in 0 .. MaxForks
===============================================================================
