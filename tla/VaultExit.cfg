SPECIFICATION Spec
CONSTANTS
  Stakers = {s1}
  Triggers = {exploit}
  SlowTrigger = governance
  LockPeriod <- MCLockPeriod
  CLAIM_RESOLUTION_GRACE = 1
  UNSTAKE_COOLDOWN = 1
  BPS = 10
  STAKER_SHARE_BPS = 7
  RESERVE_SHARE_BPS = 2
  SOLVENCY_CAUTION = 10
  SOLVENCY_CRITICAL = 5
  RATIO_MAX = 15
  CANCEL_PENALTY_BPS = 2
  MIN_PREMIUM = 5
  PREMIUM_BPS <- MCPremiumBps
  SECONDS_PER_YEAR = 4
  LOSS_INDEX_SCALE = 12
  REWARD_PER_STAKE_SCALE = 4
  MIN_MULTIPLIER = 5
  MAX_MULTIPLIER = 30
  StakeAmounts = {4}
  Coverages = {5}
  Durations = {1}
  FlatPremiums = {0}
  Multipliers = {10}
  Payouts = {2, 5}
  MaxStaked = 4
  MaxPolicies = 1
  Horizon = 6
INVARIANT
  ExitOpenWhenUncovered
CHECK_DEADLOCK FALSE
