SPECIFICATION FairSpec
CONSTANTS
  Procs = {p1, p2}
  Names = {beat}
  None = None
  Kind = "redis"
  TTL = 6
  Single = {beat}
  OneShot = {}
  Capped = {}
  Threaded = {}
  RenewEvery = 2
  MaxLate = 0
  Drain = 3
  MaxStall = 0
  MaxStarts = 1
  MaxErrors = 1
  MaxGhosts = 1
PROPERTIES Takeover
CHECK_DEADLOCK FALSE
