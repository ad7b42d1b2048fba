SPECIFICATION Spec
CONSTANTS
  OfferingRows <- MCOfferingRows
  DayConfigs <- MCDayConfigs
  DefaultConfig <- MCDefaultConfig
  SectionLimit = 3
  NoFaculty = "none"
  Fetcher = {"f1", "f2"}
  Address = {1, 2, 3, 4}
  MinConn = 1
  MaxConn = 3
  Tries = 1
  ExistingTries = 1
  WakeTries = 1
  MaxSleeps = 1
  NoAddress = 0
  ClusterInputs <- MCClusterInputs
  EdgeThresholds = {1, 10}
  MaxGraphWorkers = 3
  TargetSize = 3
  MinSize = 2
  MergeSize = 3
  ChunkSize = 3
  MaxSize = 4
  RoomKinds <- MCRoomKinds
  MaxRoomList = 4
  ClassSizes = {0, 70}
  NeededFeatures = {{}, {"tv"}}
  FewRooms = 2
  MaxRoomsPerCourse = 3
  Offering = {"o1", "o2", "o3"}
  Pupil = {"x", "y"}
  Staff = {"p", "q"}
  EnrollmentRows = 3
  StaffLists <- MCStaffLists
  NoStaff = "none"
  Course = {"A", "B", "C"}
  Department = {"cs", "ph"}
  Teacher = {"t1", "t2"}
  Student = {"u"}
  Slot = {"s1", "s2"}
  Room = {"r1", "r2"}
  MaxDuration = 2
  Catalogues <- MCCatalogues
  None = "none"
  Unscheduled = "x"
  QKey = {"a", "b", "c"}
  Semester = {"odd", "even"}
  MaxTable = 2
  MaxCount = 1
  GaCourse <- MCGaCourse
  GaSlot <- MCGaSlot
  GaRoom <- MCGaRoom
  GaInitial <- MCGaInitial
  GaWeights <- MCGaWeights
  GaPopulation = 3
  GaGenerations = 2
  GaCheckEvery = 1
  GaUnscheduled = "x"
  StoredEntries <- MCStoredEntries
  MaxEntries = 4
  ReportLimit = 1
INVARIANTS
  JobDataSound
  AnsweringPoolKept
  NoConnectionLost
  ClusteringSound
  RoomDomainSound
  OverlapGraphSound
  CrossPhaseExclusion
  RegistryExact
  MissingOnlyWhenBlocked
  QTableBounded
  SessionsSurviveSearch
  SearchNeverWorsens
  VariantPayloadSound
  FacultyClashesReported
CHECK_DEADLOCK FALSE
