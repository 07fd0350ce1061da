SPECIFICATION GovernanceSpec
CONSTANTS
  Stakers = {}
  Triggers = {governance}
  GOVERNANCE_ATTACK = governance
  SlowLock = 1
  LockPeriod <- MCLockPeriod
  CLAIM_RESOLUTION_GRACE = 0
  UNSTAKE_COOLDOWN = 1
  BPS = 10
  STAKER_SHARE_BPS = 0
  RESERVE_SHARE_BPS = 2
  SOLVENCY_CAUTION = 10
  SOLVENCY_CRITICAL = 5
  RATIO_MAX = 15
  CANCEL_PENALTY_BPS = 2
  MIN_PREMIUM = 20
  PREMIUM_BPS <- MCPremiumBps
  SECONDS_PER_YEAR = 4
  LOSS_INDEX_SCALE = 12
  REWARD_PER_STAKE_SCALE = 4
  MIN_MULTIPLIER = 10
  MAX_MULTIPLIER = 10
  StakeAmounts = {}
  Coverages = {9}
  Durations = {2}
  FlatPremiums = {0}
  Multipliers = {10}
  Payouts = {4}
  MaxStaked = 0
  MaxPolicies = 1
  Horizon = 4
  Agents = {a1}
  Holder = h
  Outsiders = {x}
  GOVERNANCE_BASELINE_DELAY = 1
  MAX_AUTHORITY_CHECKPOINT_AGE = 2
  GOVERNANCE_DRAIN_WINDOW = 2
  MIN_PROVABLE_GOVERNANCE_LOSS = 1
  Amounts = {0, 9}
  Openings <- MCOpenings
  Manifests <- MCManifests
  MaxChanges = 1
INVARIANTS
  GovernanceTypeOK LoneTakeoverProvable
PROPERTIES
  DepartureFollowsConsent PayoutWithinReach
CHECK_DEADLOCK FALSE
