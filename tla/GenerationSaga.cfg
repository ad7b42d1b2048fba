SPECIFICATION FairSpec
CONSTANTS
  Run = {r1, r2}
  Infra = {"redis", "db", "broker"}
  MaxFaults = 1
INVARIANTS
  TypeOK
  SavedUnlessWriteFails
  AgreeWhenQuiet
  CancelHonoured
  EphemeralKeysCleared
PROPERTIES
  CompletedIsNeverTakenBack
  ImplementsContract
  ProgressSettles
CHECK_DEADLOCK FALSE
