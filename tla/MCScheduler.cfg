SPECIFICATION SchedulersSpec
CONSTANTS
  Procs = {p1, p2}
  Names = {beat, warm}
  None = None
  RedisJobs = {beat}
  RedisTTL = 4
  Kind = "file"
  TTL = 1
  Single = {beat, warm}
  OneShot = {warm}
  Capped = {beat}
  Threaded = {warm}
  RenewEvery = 1
  MaxLate = 0
  Drain = 0
  MaxStall = 0
  MaxStarts = 2
  MaxErrors = 0
  MaxGhosts = 1
INVARIANTS OneRunner NoOverlap
PROPERTIES KeepsPromise Lives RedisKeepsPromise
CHECK_DEADLOCK FALSE
