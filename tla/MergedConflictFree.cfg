SPECIFICATION SolveSpec
CONSTANTS
  Course = {"A", "B", "C"}
  Department = {"cs", "ph"}
  Teacher = {"t1", "t2"}
  Student = {"u"}
  Slot = {"s1", "s2"}
  Room = {"r1", "r2"}
  MaxDuration = 2
  Catalogues <- MCCatalogues
  None = "none"
  Unscheduled = "x"
INVARIANT MergedConflictFree
CHECK_DEADLOCK FALSE
