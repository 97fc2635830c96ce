SPECIFICATION FairSpec
CONSTANTS
  Procs = {p1, p2}
  Names = {cam}
  None = None
  Kind = "file"
  TTL = 1
  MaxTasks = 3
  Single = {cam}
  Restart = {cam}
  Threaded = {}
  MaxInstances = 2
  MaxCrashes = 1
  MaxErrors = 0
  Patience = 0
INVARIANT Stoppable
PROPERTY Lives
CHECK_DEADLOCK FALSE
