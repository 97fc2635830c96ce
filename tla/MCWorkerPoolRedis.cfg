SPECIFICATION Spec
CONSTANTS
  Procs = {p1, p2}
  Names = {cam, mic}
  None = None
  Kind = "redis"
  TTL = 2
  MaxTasks = 3
  Single = {cam}
  Restart = {cam}
  Threaded = {mic}
  MaxInstances = 1
  MaxCrashes = 1
  MaxErrors = 1
  Patience = 1
INVARIANT Exclusive
CHECK_DEADLOCK FALSE
