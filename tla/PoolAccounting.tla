---------------------------- MODULE PoolAccounting ----------------------------
(***************************************************************************)
(* The arithmetic of a Dobbscoin transaction that spends the bridge's      *)
(* coins: backend/src/dobbscoin/tx-builder.ts.  Every operator here is a   *)
(* function of its arguments.  Amounts are naturals (satoshi); a coin is a *)
(* record with its amount in sat.  Keys, scripts and signatures are left   *)
(* out.                                                                    *)
(***************************************************************************)
EXTENDS Integers, FiniteSets

CONSTANT FeeRate  \* dobbscoinFeeRateSatPerVbyte

ASSUME FeeRateAssumption == FeeRate \in Nat \ {0}

TX_OVERHEAD == 10
BYTES_PER_INPUT == 148
BYTES_PER_OUTPUT == 34

(* Outputs of at most this are never created but folded into the fee.      *)
DUST_THRESHOLD_SAT == 546

EstimateFee(inputs, outputs) ==
  (TX_OVERHEAD + inputs * BYTES_PER_INPUT + outputs * BYTES_PER_OUTPUT) * FeeRate

(* The sum of f[x] over a finite set, one element after the other.         *)
SumOver(f, S) ==
  LET sum[P \in SUBSET S] ==
        IF P = {} THEN 0 ELSE LET x == CHOOSE x \in P : TRUE IN f[x] + sum[P \ {x}]
  IN  sum[S]

TotalSat(S) == SumOver([c \in S |-> c.sat], S)

-------------------------------------------------------------------------------
(* What a transaction does with the total of its inputs.                   *)

(* selectUtxos: the fee it settles on, and when the inputs suffice.        *)
SelectionFee(total, inputs, target) ==
  EstimateFee(inputs, IF total > target THEN 2 ELSE 1)

Covers(total, inputs, target) == total >= target + SelectionFee(total, inputs, target)

(* As PayoutTx, with a dust remainder left out of the fee on record.       *)
PayoutTxDustUnbooked(total, inputs, amount) ==
  LET fee  == SelectionFee(total, inputs, amount)
      rest == total - amount - fee
  IN  [pays |-> amount, change |-> IF rest > DUST_THRESHOLD_SAT THEN rest ELSE 0,
       fee |-> fee, bridgeFee |-> fee]

(* buildPayoutTx: the bridge pays the whole fee, a dust remainder with it. *)
PayoutTx(total, inputs, amount) ==
  LET fee  == SelectionFee(total, inputs, amount)
      rest == total - amount - fee
      all  == IF rest <= DUST_THRESHOLD_SAT THEN total - amount ELSE fee
  IN  [pays |-> amount, change |-> IF rest > DUST_THRESHOLD_SAT THEN rest ELSE 0,
       fee |-> all, bridgeFee |-> all]

IsRefundTooSmall(gross) == gross - EstimateFee(1, 2) <= DUST_THRESHOLD_SAT

(* planRefund: the fee comes out of what is refunded, only a dust          *)
(* remainder is the bridge's.  It throws unless RefundSendable.            *)
RefundTx(total, inputs, gross) ==
  LET rest   == total - gross
      change == IF rest > DUST_THRESHOLD_SAT THEN rest ELSE 0
      least  == EstimateFee(inputs, IF rest > DUST_THRESHOLD_SAT THEN 2 ELSE 1)
      pays   == gross - least
      fee    == total - pays - change
  IN  [pays |-> pays, change |-> change, fee |-> fee, bridgeFee |-> fee - least]

RefundSendable(total, inputs, gross) ==
  total >= gross /\ RefundTx(total, inputs, gross).pays > DUST_THRESHOLD_SAT

-------------------------------------------------------------------------------
(* Which coins it takes: the shortest prefix that will do of the coins     *)
(* sorted largest first, for any order of coins of one amount.             *)

LargestFirst(P, S) == \A c \in P, d \in S \ P : c.sat >= d.sat

Shortest(Ps) == {P \in Ps : \A Q \in Ps : Cardinality(P) <= Cardinality(Q)}

(* selectUtxos.  Empty when the coins of S are insufficient.               *)
SelectUtxos(S, target) ==
  Shortest({P \in SUBSET S : /\ P # {} /\ LargestFirst(P, S)
                             /\ Covers(TotalSat(P), Cardinality(P), target)})

(* The inputs of planRefund: preferred coins come before all others.       *)
SelectForRefund(S, gross, preferred) ==
  Shortest({P \in SUBSET S : /\ P # {} /\ S \cap preferred \subseteq P
                             /\ LargestFirst(P \ preferred, S \ preferred)
                             /\ TotalSat(P) >= gross})
===============================================================================
