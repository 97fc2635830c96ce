SPECIFICATION Spec
CONSTANTS
  Procs = {p1, p2}
  Names = {cam}
  None = None
  Kind = "redis"
  TTL = 2
  MaxTasks = 3
  Single = {cam}
  Restart = {cam}
  Threaded = {}
  MaxInstances = 2
  MaxCrashes = 1
  MaxErrors = 0
  Patience = 2
INVARIANTS OneProcess
CHECK_DEADLOCK FALSE
