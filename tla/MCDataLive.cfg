SPECIFICATION DataFairSpec
CONSTANTS
  NULL = NULL
  ABSENT = ABSENT
  Parts = {"circuit", "session"}
  Calls = {c1, c2, c3}
  Enabled = TRUE
  Threshold = 2
  Reset = 2
  CallTimeout = 2
  SessionTasks = {"r1", "r2", "c1"}
  SessionOps = 2
  SessionRequests = {"r1", "r2"}
  SessionPool = 1
  SessionListeners = 1
  SessionDepth = 2
  MongoEntities = {"user", "item", "note", "mark", "badge"}
  MongoRefs <- ChainOfRefs
  MongoChildren <- ChainOfChildren
  MongoInitial <- FewDocs
  MongoTasks = {"a", "b"}
  MongoModes <- SaversOrDeleter
  MongoIds = 2
  WatchedTasks = {"a", "b"}
  WatchedIds = {1, 2}
  WatchedValues = {0, 1}
  WatchedOnDelete <- TwoKinds
  WatchedHeard = {"user", "item", "note"}
  WatchedHookFails = {"before", "after"}
  WatchedInitial <- FewRows
  Starting = {"old", "new", "new2"}
  StartEntities <- Versions
  StartMode <- OldCreates
  StartDrops = {"new"}
  StartInitial <- Databases
  StartRetries = 2
  MemoryOps = 2
  MongoCalls = 2
  WatchedOps = 2
  BuilderCalls = 3
  WhereParts = 2
PROPERTY DataLives
CHECK_DEADLOCK FALSE
