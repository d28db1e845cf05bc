SPECIFICATION DispatchSpec
CONSTANTS
  t1 = t1
  t2 = t2
  Startup = Startup
  None = None
  Tasks <- MCTasks
  Retentions <- MCRetentions
  RedisBackend = TRUE
  StoreSuspends = FALSE
  StaleTimeout = 2
  MaxJobs = 2
  MaxTime = 2
  MaxCrashes = 1
  MaxFaults = 0
  MaxQueueFaults = 1
SYMMETRY TaskSymmetry
INVARIANTS
  OneHolder
PROPERTIES
  ImplementsJobs
