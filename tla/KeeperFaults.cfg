SPECIFICATION FairSpec
CONSTANTS
  Claims = {c1, c2}
  Workers = {w1}
  Exploit = "exploit"
  Governance = "governance"
  AgentError = "agent error"
  Oracle = "oracle"
  AlertKinds = {"exploit", "governance"}
  ATTEMPTS = 2
  MAX_VERIFY_ATTEMPTS = 2
  MAX_SUPERSEDES = 1
  DEFERRALS = 1
  MaxAlerts = 1
  MaxFaults = 1
CHECK_DEADLOCK FALSE
INVARIANT PaidMeansPaid
PROPERTIES FailedMeansUnpaid ClaimResolved
