----------------------------- MODULE MintCapacity -----------------------------
(***************************************************************************)
(* The arithmetic of the daily mint cap: backend/src/executor/             *)
(* mint-capacity.ts, and isRefundTooSmall of tx-builder.ts.                *)
(*                                                                         *)
(* Every operator here is a function of its arguments.  Amounts are        *)
(* naturals (satoshi); a cap state is what one pinned block of the wBOB    *)
(* contract says: minted (currentDayMinted), dayStart (currentDayStart),   *)
(* supply (totalSupply), time (blockTimestamp) and block (blockNumber).    *)
(***************************************************************************)
EXTENDS Integers, FiniteSets

CONSTANTS
  DayLength,        \* DAY_SECONDS, in ticks of the model's clock
  DailyMintLimit,   \* dailyMintLimit of the wBOB contract
  MaxSupply,        \* MAX_SUPPLY of the wBOB contract; 0 means no cap
  RefundFloor       \* largest excess whose refund does not clear fee plus dust

ASSUME CapAssumption ==
  /\ DayLength \in Nat \ {0}
  /\ DailyMintLimit \in Nat
  /\ MaxSupply \in Nat
  /\ RefundFloor \in Nat

-------------------------------------------------------------------------------
(* max(a - b, 0), the shape every bigint subtraction of the file is given. *)
Monus(a, b) == IF a > b THEN a - b ELSE 0

Least(a, b) == IF a < b THEN a ELSE b

WindowStale(s, t) == t >= s.dayStart + DayLength

(* computeCapWindow: what the contract would count as minted today and     *)
(* still allow, judged at time t.                                          *)
MintedToday(s, t) == IF WindowStale(s, t) THEN 0 ELSE s.minted

(* As RemainingToday, under the daily limit alone.                         *)
RemainingDaily(s, t) == Monus(DailyMintLimit, MintedToday(s, t))

RemainingToday(s, t) ==
  LET daily == Monus(DailyMintLimit, MintedToday(s, t))
  IN  IF MaxSupply > 0 THEN Least(daily, Monus(MaxSupply, s.supply)) ELSE daily

WindowStart(s, t) == IF WindowStale(s, t) THEN t - (t % DayLength) ELSE s.dayStart

AvailableCapacity(remaining, reserved) == Monus(remaining, reserved)

(* As SplitDeposit, refunding the deposit and not its excess.              *)
SplitDepositWhole(deposit, capacity) ==
  LET mint == Least(deposit, capacity)
  IN  [mint |-> mint, excess |-> IF mint < deposit THEN deposit ELSE 0]

(* splitDeposit: mint what fits, send the rest back. *)
SplitDeposit(deposit, capacity) ==
  LET mint == Least(deposit, capacity)
  IN  [mint |-> mint, excess |-> deposit - mint]

(* isRefundTooSmall: the excess is not more than one-input two-output fee  *)
(* plus dust.  Fee rate and dust are constants of a deployment.            *)
IsRefundTooSmall(excess) == excess <= RefundFloor

(* The sum of amount[x] over x \in S, counted satoshi by satoshi: the      *)
(* reduction of sumOutstandingReservations.  Written with Cardinality so   *)
(* that it is a sum one can reason about with facts on finite sets.        *)
TotalOf(amount, S) == Cardinality(UNION {{x} \X (1 .. amount[x]) : x \in S})
===============================================================================
