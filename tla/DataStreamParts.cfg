SPECIFICATION PartsSpec
CONSTANTS
  ua = ua
  ub = ub
  uc = uc
  d1 = d1
  d2 = d2
  c1 = c1
  c2 = c2
  UploadIds = {ua, ub, uc}
  DeviceOf <- Devices
  CollectorOf <- Collectors
  FileSize <- Sizes
  MaxActive = 2
  MaxDevice = 1
  MaxCollector = 1
  MaxReserved = 4
  SessionTtl = 3
  TerminalTtl = 2
  ChunkCount = 1
  MaxFinishes = 1
  MaxDelay = 1
  Tardy = {uc}
  Rows <- FiveRows
  Lists <- ListRequests
  Details <- DetailRequests
  Base = 4
  Width = 2
  DefaultPageSize = 2
  MaxPageSize = 2
  MaxTimeRange = 3
  MaxWalks = 2
  None = None
  a = a
  b = b
  empty = empty
  Contents = {a, b, empty}
  Size <- SizeOf
  Chunks = {1, 2}
  Uploads = {u1, u2, u3}
  StableScans = 1
  SpoolMax = 2
  MaxWrites = 2
  MaxFaults = 1
  MaxLate = 1
INVARIANTS
  CountedInAll
  LimitHolds
  Descending
  CInv
  DoneIsArchived
  DoneIsSealedVersion
  ArchivedOncePerSession
PROPERTIES
  RetryIsAdmitted
  ImplementsPagedWalk
  WalkEnds
  TasksSettle
CHECK_DEADLOCK FALSE
