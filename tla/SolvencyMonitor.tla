--------------------------- MODULE SolvencyMonitor ---------------------------
(***************************************************************************)
(* The solvency monitor (backend/src/monitor/): a loop that compares the   *)
(* supply of wBOB with the pool, and tells an operator.  A poll reads the  *)
(* chain and then the database, one statement after the other, while the   *)
(* bridge works on; what it has read and has yet to use is in poll.        *)
(*                                                                         *)
(* Alerts of one type wait for a cooldown; a type is in cooling until it   *)
(* has passed.  The low-pool, stuck-order, drip-wallet, scan-halt and      *)
(* chain-stall alerts compare one number that was read with a threshold    *)
(* and touch nothing else: the alerts that a poll raises of them are any.  *)
(***************************************************************************)
EXTENDS PoolLedger

CONSTANTS
  OtherAlerts    \* types of threshold alerts that are followed

ASSUME MonitorAssumption ==
  OtherAlerts \subseteq {"LOW_UTXO_POOL", "STUCK_ORDERS", "DRIP_WALLET_LOW",
                         "DRIP_WALLET_DRY", "GNOSIS_SCAN_HALTED", "CHAIN_STALLED"}

VARIABLES
  poll,        \* what the poll under way has read, and what happened since it began
  lastKnown,   \* lastKnownSolvent
  lastReview,  \* the orders that lastManualReviewCount counted, once read
  cooling,     \* types whose last alert is younger than alertCooldownMs
  reported     \* types the last step dispatched, if it ended a poll

monitorVars == <<poll, lastKnown, lastReview, cooling, reported>>
vars == <<ledgerVars, monitorVars>>

Unread == [read |-> FALSE, orders |-> {}]

Resting == [pc |-> "rest"]

Quiet == reported' = {}

Forget ==
  /\ lastKnown' = "unknown"
  /\ lastReview' = Unread
  /\ cooling' = {}

Init ==
  /\ LedgerInit
  /\ poll = Resting
  /\ lastKnown = "unknown"
  /\ lastReview = Unread
  /\ cooling = {}
  /\ reported = {}

-------------------------------------------------------------------------------
(* The ledger moves, beside the poll.  Kept of it for the properties:      *)
(* whether at some time wBOB from outside was in the supply or a coin was  *)
(* reserved (strained), and whether at some time the supply of when the    *)
(* poll began (began) was covered, or a transaction went out between the   *)
(* reads of the pool and of the fees (covered).                            *)

Reserved == \E x \in Spenders : held[x] # {}

Covered == OwnSat + FeesPaidSat >= supply

LedgerStep ==
  /\ LedgerNext
  /\ poll' = IF poll = Resting THEN Resting
             ELSE [poll EXCEPT !.strained = @ \/ Reserved' \/ outside',
                               !.covered = @ \/ OwnSat' + FeesPaidSat' >= poll.began
                                              \/ (poll.pc = "fees" /\ sent' # sent)]
  /\ UNCHANGED <<lastKnown, lastReview, cooling>>
  /\ Quiet

-------------------------------------------------------------------------------
(* _dbWBobSupply. *)
DbSupply ==
  LET minted == SumOver(MintedSat, Minted)
      paid   == SumOver(BurnSat, PaidOut)
  IN  IF minted > paid THEN minted - paid ELSE 0

(* _readWBobSupply: of the chain, or when that fails an estimate.          *)
ReadSupply ==
  /\ poll = Resting
  /\ \E stale \in BOOLEAN :
       poll' = [pc |-> "pool", stale |-> stale,
                supply |-> IF stale THEN DbSupply ELSE supply, pool |-> 0, fees |-> 0,
                began |-> supply, strained |-> Reserved \/ outside, covered |-> Covered]
  /\ Quiet
  /\ UNCHANGED <<ledgerVars, lastKnown, lastReview, cooling>>

ReadPool ==
  /\ poll.pc = "pool"
  /\ poll' = [poll EXCEPT !.pc = "fees", !.pool = PoolSat]
  /\ UNCHANGED <<ledgerVars, lastKnown, lastReview, cooling>>
  /\ Quiet

ReadFees ==
  /\ poll.pc = "fees"
  /\ poll' = [poll EXCEPT !.pc = "report", !.fees = FeesPaidSat]
  /\ UNCHANGED <<ledgerVars, lastKnown, lastReview, cooling>>
  /\ Quiet

(* checkSolvency. *)
IsSolvent(p) == p.pool + p.fees >= p.supply

(* As SolvencyAlerts, with a verdict on the estimate too.                  *)
SolvencyAlertsOfAnySupply(p) ==
  IF ~IsSolvent(p) THEN {"SOLVENCY_BREACH"}
  ELSE IF lastKnown = "short" THEN {"SOLVENCY_RECOVERED"}
  ELSE {}

(* buildAlerts, which a stale supply withholds. *)
SolvencyAlerts(p) ==
  IF p.stale THEN {"SUPPLY_READ_STALE"}
  ELSE IF ~IsSolvent(p) THEN {"SOLVENCY_BREACH"}
  ELSE IF lastKnown = "short" THEN {"SOLVENCY_RECOVERED"}
  ELSE {}

(* manualReviewRose: by the number of orders. *)
ReviewRose(review) ==
  /\ review.read /\ lastReview.read
  /\ Cardinality(review.orders) > Cardinality(lastReview.orders)

(* As ReviewAlerts, of a rise alone. *)
ReviewAlertsOnRise(review) == IF ReviewRose(review) THEN {"MANUAL_REVIEW_ORDERS"} ELSE {}

(* checkManualReview. *)
ReviewAlerts(review) == IF review.orders # {} THEN {"MANUAL_REVIEW_ORDERS"} ELSE {}

(* The alert that does not wait for its cooldown. *)
Bypassing(review) == IF ReviewRose(review) THEN {"MANUAL_REVIEW_ORDERS"} ELSE {}

(* The reads of the orders, the verdict, and the dispatch of the alerts    *)
(* that are due.  A failed read of the orders in review costs their alert. *)
Report(review) ==
  /\ poll.pc = "report"
  /\ \E others \in SUBSET OtherAlerts :
       LET alerts == SolvencyAlerts(poll) \cup ReviewAlerts(review) \cup others
       IN  /\ reported' = (alerts \ cooling) \cup (alerts \cap Bypassing(review))
           /\ cooling' = cooling \cup alerts
  /\ lastKnown' = IF poll.stale THEN lastKnown
                  ELSE IF IsSolvent(poll) THEN "solvent" ELSE "short"
  /\ lastReview' = IF review.read THEN review ELSE lastReview
  /\ poll' = Resting
  /\ UNCHANGED fundsVars

ReportAll ==
  Report([read |-> TRUE, orders |-> InReview]) /\ UNCHANGED incidents

ReportWithoutReviews == Incident /\ Report(Unread)

(* A database call throws and ends the poll; or the process restarts. *)
PollFails ==
  /\ Incident
  /\ poll # Resting
  /\ poll' = Resting
  /\ UNCHANGED <<fundsVars, lastKnown, lastReview, cooling>>
  /\ Quiet

Restart ==
  /\ Incident
  /\ poll' = Resting
  /\ Quiet
  /\ Forget
  /\ UNCHANGED fundsVars

CooldownEnds(type) ==
  /\ type \in cooling
  /\ cooling' = cooling \ {type}
  /\ UNCHANGED <<ledgerVars, poll, lastKnown, lastReview>>
  /\ Quiet

-------------------------------------------------------------------------------
AlertTypes == OtherAlerts \cup {"SOLVENCY_BREACH", "SOLVENCY_RECOVERED",
                                "SUPPLY_READ_STALE", "MANUAL_REVIEW_ORDERS"}

PollStep == ReadSupply \/ ReadPool \/ ReadFees \/ ReportAll \/ ReportWithoutReviews

Next ==
  \/ LedgerStep
  \/ PollStep \/ PollFails \/ Restart
  \/ \E type \in AlertTypes : CooldownEnds(type)

Spec == Init /\ [][Next]_vars

(* The loop of start() polls for ever, and time passes.  Nothing is        *)
(* assumed of the bridge, of faults and of whether the supply is readable. *)
FairSpec ==
  /\ Spec
  /\ WF_vars(PollStep)
  /\ \A type \in AlertTypes : WF_vars(CooldownEnds(type))

-------------------------------------------------------------------------------
(* Properties.                                                             *)

(* A breach is reported only if there is wBOB from outside the bridge, or  *)
(* a coin was reserved while the poll was reading: what deposits, mints,   *)
(* burns, payouts and refunds do to the pool, the fees on record and the   *)
(* supply always balances (poll, checkSolvency, tx-builder.ts).            *)
BreachIsReal ==
  [][poll.pc = "report" /\ poll' = Resting /\ "SOLVENCY_BREACH" \in reported'
       => poll.strained]_vars

(* An all-clear is given only if at some time of the poll what the bridge  *)
(* owns and the fees on record covered the supply there was when the poll  *)
(* began, unless a transaction went out between the reads of the pool and  *)
(* of the fees (poll: a stale supply gives no verdict).  They may never    *)
(* have covered the supply of their own time: a deposit that is taken and  *)
(* minted between the reads is in the pool and not in the supply read.     *)
AllClearIsTrue ==
  [][poll.pc = "report" /\ poll' = Resting /\ "SOLVENCY_RECOVERED" \in reported'
       => poll.covered]_vars

(* Trouble that lasts is reported again and again, through cooldowns,      *)
(* stale reads, failed polls and restarts: supply that is not covered, by  *)
(* a breach or by the alert that no verdict can be given, and an order in  *)
(* review by its own (poll, checkManualReview).                            *)
LastingTroubleIsReported ==
  /\ <>[](~Covered) => []<>(reported \cap {"SOLVENCY_BREACH", "SUPPLY_READ_STALE"} # {})
  /\ <>[](InReview # {}) => []<>("MANUAL_REVIEW_ORDERS" \in reported)

(* A breach is reported only if supply is not covered: types.ts:8 has it   *)
(* mean that the bridge is under water.                                    *)
BreachIsShortfall ==
  [][poll.pc = "report" /\ poll' = Resting /\ "SOLVENCY_BREACH" \in reported'
       => ~Covered]_vars

(* The poll that finds supply covered again says so (buildAlerts).         *)
EveryRecoveryIsTold ==
  [][lastKnown = "short" /\ lastKnown' = "solvent" => "SOLVENCY_RECOVERED" \in reported']_vars

(* The first poll that counts an order in review reports it (poll: a new   *)
(* order in review is news and does not wait for the cooldown).            *)
NewReviewIsNews ==
  [][poll.pc = "report" /\ poll' = Resting /\ lastReview.read
     /\ lastReview'.orders \ lastReview.orders # {}
       => "MANUAL_REVIEW_ORDERS" \in reported']_vars
===============================================================================
