SPECIFICATION FairSpec
CONSTANTS
  NumEndpoints = 2
  Policies = {p1, p2}
  Late = p2
  PaidAt <- MCPaidAt
  FAILURE_THRESHOLD = 2
  EJECTION = 1
  RATE_LIMIT_EJECTION = 2
  MaxSlot = 2
  MaxFaults = 3
INVARIANTS ReadsTypeOK
PROPERTIES NeverBackAlone MirrorCatchesUp
CHECK_DEADLOCK FALSE
