SPECIFICATION JobSpec
CONSTANTS
  Run = {r1, r2}
  Infra = {"redis", "db", "broker"}
  MaxFaults = 1
  MaxRetries = 1
SYMMETRY RunSymmetry
INVARIANTS
  JobTypeOK
  NoPhantomCompletion
  NoDoubleRun
CHECK_DEADLOCK FALSE
