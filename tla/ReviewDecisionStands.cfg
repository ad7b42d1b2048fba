SPECIFICATION JobSpec
CONSTANTS
  Run = {r1}
  Infra = {}
  MaxFaults = 0
  MaxRetries = 1
PROPERTY ReviewDecisionStands
CHECK_DEADLOCK FALSE
