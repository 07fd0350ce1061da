SPECIFICATION SettlementSpec
CONSTANTS
  Stakers = {}
  Triggers = {exploit, agent_error}
  EXPLOIT = exploit
  AGENT_ERROR = agent_error
  SlowLock = 3
  LockPeriod <- MCLockPeriod
  CLAIM_RESOLUTION_GRACE = 0
  UNSTAKE_COOLDOWN = 1
  BPS = 10
  STAKER_SHARE_BPS = 0
  RESERVE_SHARE_BPS = 2
  SOLVENCY_CAUTION = 10
  SOLVENCY_CRITICAL = 5
  RATIO_MAX = 15
  CANCEL_PENALTY_BPS = 2
  MIN_PREMIUM = 20
  PREMIUM_BPS <- MCPremiumBps
  SECONDS_PER_YEAR = 4
  LOSS_INDEX_SCALE = 12
  REWARD_PER_STAKE_SCALE = 4
  MIN_MULTIPLIER = 10
  MAX_MULTIPLIER = 10
  StakeAmounts = {}
  Coverages = {9}
  Durations = {2}
  FlatPremiums = {0}
  Multipliers = {10}
  Payouts = {4, 8}
  MaxStaked = 0
  MaxPolicies = 1
  Horizon = 6
  Agents = {a1}
  MAX_CHECKPOINT_AGE = 2
  MAX_MANDATE_CHECKPOINT_AGE = 2
  MIN_PROVABLE_DROP_BPS = 5
  MIN_PROVABLE_MANDATE_BREACH = 1
  MANDATE_DECLARATION_DELAY = 1
  Balances = {0, 5, 9}
  Caps = {1, 5}
  Floors = {0}
INVARIANT
  LoneBreachMeasured
CHECK_DEADLOCK FALSE
