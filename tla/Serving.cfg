SPECIFICATION Spec
CONSTANTS
  Loader = {"l1", "l2"}
  Chunks = 2
  MaxChanges = 1
  MaxClock = 1
  MaxRedisReconnects = 2
  MaxProgress = 2
  Request = {"r1", "r2"}
  Change = {"c1", "c2"}
  MaxVersion = 3
  ListKinds = {TRUE, FALSE}
  RedisFails = TRUE
  Caller = {"r1", "r2", "r3"}
  LockRetries = 2
  MaxExpiries = 1
  Process = {"p1", "p2"}
  StatsTtl = 3
  ReviewRequest = {"r1"}
  MaxDecisions = 2
  Client = {"a"}
  PassedRequest = {"p1", "p2", "p3", "p4"}
  RequestsPerMinute = 3
  Minute = 4
INVARIANTS
  ListIncludesEarlierChanges
  OneHolderPerLock
  StatsAgeBounded
  WindowNeverExceeded
PROPERTIES
  EventuallyFresh
  StreamEnds
  ReviewSettles
CHECK_DEADLOCK FALSE
