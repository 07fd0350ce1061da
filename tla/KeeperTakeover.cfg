SPECIFICATION Spec
CONSTANTS
  Claims = {c1}
  Workers = {w1, w2}
  Exploit = "exploit"
  Governance = "governance"
  AgentError = "agent error"
  Oracle = "oracle"
  AlertKinds = {"exploit"}
  ATTEMPTS = 1
  MAX_VERIFY_ATTEMPTS = 2
  MAX_SUPERSEDES = 1
  DEFERRALS = 0
  MaxAlerts = 3
  MaxFaults = 0
CHECK_DEADLOCK FALSE
SYMMETRY SlotSymmetry
INVARIANTS KeeperTypeOK SoleWorker
