CONSTANTS
  Agent = agent
  Holder = holder
  x = x
  y = y
  Strangers = {x, y}
  Nobody = nobody
  Unread = unread
  Programs = {"venue", "unlisted"}
  KnownPrograms = {"venue"}
  Coverage = 6
  MIN_PAYABLE_LOSS = 2
  MIN_PROVABLE_MANDATE_BREACH = 3
  MAX_VERIFY_ATTEMPTS = 2
  HISTORY_AGE = 3
  FRESH_AGE = 1
  MIN_OBSERVATIONS = 2
  GOVERNANCE_DRAIN_WINDOW = 1
  Incidents <- MCIncidents
  Readings <- MCReadings
  ProofEnabled = {"exploit", "agent_error", "governance"}
  MaxLag = 2
  MaxGaps = 2
  Stories <- MCStories
  Sightings <- MCSightings
  Lookback = 3
  MaxFaults = 1
  SCREEN_MIN = 3
  SCREEN_MIN_VALUE = 4
  OUTFLOW_RATIO_THRESHOLD = 5
  MAX_SUPERSEDES = 2
SPECIFICATION DetectionSpec
CHECK_DEADLOCK FALSE
INVARIANTS
  ReviewTypeOK
  GapsNeverDeny
  GapsNeverPay
  GapsNeverRaiseConfidence
  ApprovedAsItHappened
  PaidIsProvable
  BackstopRaises
  HalfLossLeavesARecord
