SPECIFICATION UnderwritingSpec
CONSTANTS
  Stakers = {}
  Triggers = {oracle}
  ORACLE_MANIPULATION = oracle
  LockPeriod <- MCLockPeriod
  CLAIM_RESOLUTION_GRACE = 0
  UNSTAKE_COOLDOWN = 1
  BPS = 10
  STAKER_SHARE_BPS = 0
  RESERVE_SHARE_BPS = 2
  SOLVENCY_CAUTION = 10
  SOLVENCY_CRITICAL = 5
  RATIO_MAX = 15
  CANCEL_PENALTY_BPS = 2
  MIN_PREMIUM = 5
  PREMIUM_BPS <- MCPremiumBps
  SECONDS_PER_YEAR = 4
  LOSS_INDEX_SCALE = 12
  REWARD_PER_STAKE_SCALE = 4
  MIN_MULTIPLIER = 10
  MAX_MULTIPLIER = 10
  StakeAmounts = {}
  Coverages = {13}
  Durations = {1}
  FlatPremiums = {1, 12}
  Multipliers = {10}
  Payouts = {4}
  MaxStaked = 0
  MaxPolicies = 1
  Horizon = 5
  Keys = {k1, k2}
  Agents = {a1}
  AttestedTiers <- MCAttestedTiers
  NoKey = NoKey
  NoAgent = NoAgent
  NoFeed = NoFeed
  NoMandate = NoMandate
  f1 = f1
  f2 = f2
  m1 = m1
  m2 = m2
  Feeds = {f1, f2}
  Market <- MCMarket
  Prices = {2, 4}
  Decimals = {0}
  Scale <- MCScale
  Quantities = {2}
  Mandates = {m1, m2}
  EnvelopePrice <- MCEnvelopePrice
  Validities = {1, 2}
  MAX_ATTESTATION_VALIDITY = 1
  MAX_PRICE_EVIDENCE_SKEW = 1
  MAX_CLAIM_EVIDENCE_LAG = 1
  MIN_PROVABLE_DEVIATION_BPS = 5
SYMMETRY KeySymmetry
INVARIANTS
  UnderwritingTypeOK PricedAsSold
PROPERTIES
  SoldByRecentOracle EnvelopePaidFor
CHECK_DEADLOCK FALSE
