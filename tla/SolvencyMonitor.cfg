\* A split deposit, a withdrawal, wBOB from outside, a fault.
CONSTANTS
  d1 = d1
  d2 = d2
  w1 = w1
  w2 = w2
  FeeRate = 1
  Deposits = {d1}
  DepositSat <- SplitDeposit
  MintedSat <- SplitMinted
  Withdrawals = {w1}
  BurnSat <- OneBurn
  OutsideSat = 1500
  MaxIncidents = 1
  OtherAlerts = {}
SPECIFICATION FairSpec
PROPERTIES
  BreachIsReal
  AllClearIsTrue
  LastingTroubleIsReported
