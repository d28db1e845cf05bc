SPECIFICATION DispatchSpec
CONSTANTS
  t1 = t1
  t2 = t2
  Startup = Startup
  None = None
  Tasks <- MCTasks
  Retentions <- MCRetentions
  RedisBackend = FALSE
  StoreSuspends = FALSE
  StaleTimeout = 2
  MaxJobs = 2
  MaxTime = 2
  MaxCrashes = 1
  MaxFaults = 1
  MaxQueueFaults = 0
SYMMETRY TaskSymmetry
INVARIANTS
  DispatchTypeOK
  NoOrphan
  HoldersMatch
PROPERTIES
  ReleasedWhenSettled
  ImplementsJobs
