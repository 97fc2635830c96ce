SPECIFICATION CoreSafeSpec
CONSTANTS
  NULL = NULL
  Parts = {"events", "jobs", "bus", "pool", "container", "lifespan", "gateway", "cron"}
  OnConnect = 2
  OnDisconnect = 1
  MarksWhileClosing = FALSE
  MaxChanges = 6
  MaxAborts = 2
  JobItems = {"a", "b", "c", "x"}
  JobWorkers = {"w1", "w2"}
  JobsQueued = 2
  JobRetries = 1
  BusCalls = 2
  PoolCalls = 4
  MaxClients = 2
  BusListeners = {"s", "w", "d"}
  BusStatic = {"s", "w"}
  BusPattern <- ThePatterns
  BusEvents <- TheEvents
  BusPending = 1
  PoolSize = 2
  Providers = {"Ctl", "Svc", "Other", "Uow", "Who", "A", "B", "Bad", "Deep"}
  OfRequest = {"Uow", "Who", "Deep"}
  Requires <- TheProviders
  CheckedBy <- TheGuards
  Resolved = {"Ctl", "Other", "A", "Bad", "Deep"}
  HookedUp = {"Uow", "Deep", "Who"}
  HookFailing = {}
  Requests = {"a", "b"}
  MaxResolves = 3
  LifeSources = {"consumers", "channels", "kafka_consumers", "jobs", "scheduler"}
  LifeFails = {"database", "events"}
  LifeEvents = 1
  WsWorkers = {"w1", "w2"}
  WsConns = {"c1", "c2"}
  WsRooms = {"r"}
  WsHome <- TheHome
  WsUser <- TheUser
  PerUser = 1
  MaxRooms = 1
  WsQueue = 1
  Overflow = "close"
  OddData = FALSE
  WsFrames <- TheFrames
  WsEmits = 1
INVARIANTS InOrder BusSafe  Wired   CronRight
PROPERTIES TakesTurns JobsSafe
CHECK_DEADLOCK FALSE
