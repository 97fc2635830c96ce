SPECIFICATION CoreSpec
CONSTANTS
  NULL = NULL
  Parts = {"events", "jobs", "bus", "pool", "gateway"}
  OnConnect = 2
  OnDisconnect = 1
  MarksWhileClosing = FALSE
  MaxChanges = 4
  MaxAborts = 1
  JobItems = {"a", "b", "x"}
  JobWorkers = {"w1"}
  JobsQueued = 2
  JobRetries = 1
  BusCalls = 1
  PoolCalls = 3
  MaxClients = 1
  BusListeners = {"s", "w", "d"}
  BusStatic = {"s", "w"}
  BusPattern <- ThePatterns
  BusEvents <- TheEvents
  BusPending = 1
  PoolSize = 2
  Providers = {"Ctl", "Svc", "Other", "Uow", "Who", "A", "B", "Bad", "Deep"}
  OfRequest = {"Uow", "Who", "Deep"}
  Requires <- TheProviders
  CheckedBy <- TheGuards
  Resolved = {"Ctl", "Other", "A", "Bad", "Deep"}
  HookedUp = {"Uow", "Deep", "Who"}
  HookFailing = {}
  Requests = {"a", "b"}
  MaxResolves = 3
  LifeSources = {"consumers", "channels", "kafka_consumers", "jobs", "scheduler"}
  LifeFails = {"database", "events"}
  LifeEvents = 1
  WsWorkers = {"w1", "w2"}
  WsConns = {"c1", "c2"}
  WsRooms = {"r"}
  WsHome <- TheHome
  WsUser <- TheUser
  PerUser = 1
  MaxRooms = 1
  WsQueue = 1
  Overflow = "close"
  OddData = FALSE
  WsFrames <- TheFrames
  WsEmits = 0
PROPERTIES CoreLives
CHECK_DEADLOCK FALSE
