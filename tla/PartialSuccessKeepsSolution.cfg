SPECIFICATION Spec
CONSTANTS
  Run = {r1}
  Infra = {}
  MaxFaults = 0
INVARIANT PartialSuccessKeepsSolution
CHECK_DEADLOCK FALSE
