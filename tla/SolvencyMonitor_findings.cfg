\* Each property is violated: TLC shows one at a time.
CONSTANTS
  d1 = d1
  d2 = d2
  w1 = w1
  w2 = w2
  FeeRate = 1
  Deposits = {d1}
  DepositSat <- SplitDeposit
  MintedSat <- SplitMinted
  Withdrawals = {w1, w2}
  BurnSat <- TwoBurns
  OutsideSat = 1500
  MaxIncidents = 1
  OtherAlerts = {}
SPECIFICATION Spec
PROPERTIES
  BreachIsShortfall
  EveryRecoveryIsTold
  NewReviewIsNews
