SPECIFICATION Spec
CONSTANTS
  t1 = t1
  t2 = t2
  Startup = Startup
  None = None
  Tasks <- MCTasks
  Retentions <- MCRetentions
  StoreSuspends = FALSE
  StaleTimeout = 2
  MaxJobs = 2
  MaxTime = 2
  MaxCrashes = 1
  MaxFaults = 1
SYMMETRY TaskSymmetry
INVARIANTS
  TypeOK
  NoActiveJobForgotten
PROPERTIES
  HistoryGrows
  OnlyFaultsStrand
