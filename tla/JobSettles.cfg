SPECIFICATION JobFairSpec
CONSTANTS
  Run = {r1}
  Infra = {}
  MaxFaults = 0
  MaxRetries = 1
PROPERTY JobSettles
CHECK_DEADLOCK FALSE
