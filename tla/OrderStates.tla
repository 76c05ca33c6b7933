----------------------------- MODULE OrderStates -----------------------------
(***************************************************************************)
(* The two state machines every service shares (shared/src/state-machine/):*)
(* what an order may do, whoever moves it.  The executors and the watchers *)
(* implement these specifications, each with the part of an order's life   *)
(* that it drives.                                                         *)
(***************************************************************************)
CONSTANT Orders

VARIABLE state  \* state[o]: bridge_orders.state

-------------------------------------------------------------------------------
InboundState == {"QUOTE_CREATED", "DEPOSIT_ADDRESS_ASSIGNED", "DEPOSIT_SEEN_MEMPOOL",
                 "DEPOSIT_CONFIRMED", "DEPOSIT_FINALIZED", "MINT_AUTH_CREATED",
                 "MINT_SUBMITTED", "MINT_CONFIRMED", "COMPLETED", "FAILED", "REFUNDED"}

INBOUND_TRANSITIONS ==
  [s \in InboundState |->
     CASE s = "QUOTE_CREATED"            -> {"DEPOSIT_ADDRESS_ASSIGNED", "FAILED"}
       [] s = "DEPOSIT_ADDRESS_ASSIGNED" -> {"DEPOSIT_SEEN_MEMPOOL", "FAILED"}
       [] s = "DEPOSIT_SEEN_MEMPOOL"     -> {"DEPOSIT_CONFIRMED", "FAILED"}
       [] s = "DEPOSIT_CONFIRMED"        -> {"DEPOSIT_FINALIZED", "DEPOSIT_SEEN_MEMPOOL", "FAILED"}
       [] s = "DEPOSIT_FINALIZED"        -> {"MINT_AUTH_CREATED", "REFUNDED", "FAILED"}
       [] s = "MINT_AUTH_CREATED"        -> {"MINT_SUBMITTED", "FAILED"}
       [] s = "MINT_SUBMITTED"           -> {"MINT_CONFIRMED", "FAILED"}
       [] s = "MINT_CONFIRMED"           -> {"COMPLETED"}
       [] s = "FAILED"                   -> {"REFUNDED"}
       [] s \in {"COMPLETED", "REFUNDED"} -> {}]

OutboundState == {"WITHDRAW_REQUEST_CREATED", "BURN_TX_SEEN", "BURN_CONFIRMED",
                  "PAYOUT_QUEUED", "PAYOUT_SIGNED", "PAYOUT_BROADCAST", "PAYOUT_CONFIRMED",
                  "COMPLETED", "FAILED", "MANUAL_REVIEW"}

OUTBOUND_TRANSITIONS ==
  [s \in OutboundState |->
     CASE s = "WITHDRAW_REQUEST_CREATED" -> {"BURN_TX_SEEN", "FAILED"}
       [] s = "BURN_TX_SEEN"             -> {"BURN_CONFIRMED", "FAILED"}
       [] s = "BURN_CONFIRMED"           -> {"PAYOUT_QUEUED", "FAILED"}
       [] s = "PAYOUT_QUEUED"            -> {"PAYOUT_SIGNED", "FAILED", "MANUAL_REVIEW"}
       [] s = "PAYOUT_SIGNED"            -> {"PAYOUT_BROADCAST", "FAILED", "MANUAL_REVIEW"}
       [] s = "PAYOUT_BROADCAST"         -> {"PAYOUT_CONFIRMED", "FAILED", "MANUAL_REVIEW"}
       [] s = "PAYOUT_CONFIRMED"         -> {"COMPLETED"}
       [] s = "COMPLETED"                -> {}
       [] s = "FAILED"                   -> {"MANUAL_REVIEW"}
       [] s = "MANUAL_REVIEW"            -> {"PAYOUT_QUEUED", "FAILED"}]

-------------------------------------------------------------------------------
(* assertInboundTransition and assertOutboundTransition guard the one      *)
(* order that a transaction moves.                                         *)
Move(table, o) ==
  \E next \in table[state[o]] : state' = [state EXCEPT ![o] = next]

InboundSpec ==
  /\ state \in [Orders -> InboundState]
  /\ [][\E o \in Orders : Move(INBOUND_TRANSITIONS, o)]_state

OutboundSpec ==
  /\ state \in [Orders -> OutboundState]
  /\ [][\E o \in Orders : Move(OUTBOUND_TRANSITIONS, o)]_state
===============================================================================
