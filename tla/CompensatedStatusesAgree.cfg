SPECIFICATION Spec
CONSTANTS
  Run = {r1}
  Infra = {}
  MaxFaults = 0
INVARIANT CompensatedStatusesAgree
CHECK_DEADLOCK FALSE
