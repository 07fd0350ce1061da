CONSTANTS
  Pyth = pyth
  cex1 = cex1
  cex2 = cex2
  cex3 = cex3
  Sources = {pyth, cex1, cex2, cex3}
  Granularity <- MCGranularity
  MAX_SKEW = 2
  Tokens = {"SOL", "BTC", "USDC", "PYUSD", "XYZ"}
  Kind <- MCKind
  UNIT = 1000
  Coverage = 15000
  MIN_PAYABLE_LOSS = 1500
  Offsets = 3
  Incidents <- MCIncidents
  Asked <- MCAsked
  ProofEnabled = TRUE
  NOISE = 2
  MAX_VERIFY_ATTEMPTS = 2
SPECIFICATION PriceSpec
CHECK_DEADLOCK FALSE
INVARIANTS
  PriceTypeOK
  FairFillNeverPaid
  PaidIsCorroborated
  SilenceNeverDenies
