SPECIFICATION JobSpec
CONSTANTS
  Run = {r1}
  Infra = {}
  MaxFaults = 0
  MaxRetries = 1
PROPERTY VariantDataImmutable
CHECK_DEADLOCK FALSE
