SPECIFICATION FairDispatchSpec
CONSTANTS
  t1 = t1
  t2 = t2
  Startup = Startup
  None = None
  Tasks <- MCTasks
  Retentions <- MCRetentions
  RedisBackend = TRUE
  StoreSuspends = FALSE
  StaleTimeout = 1
  MaxJobs = 2
  MaxTime = 1
  MaxCrashes = 1
  MaxFaults = 0
  MaxQueueFaults = 0
PROPERTIES
  EveryJobEnds
