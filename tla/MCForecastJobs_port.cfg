SPECIFICATION Spec
CONSTANTS
  t1 = t1
  t2 = t2
  Startup = Startup
  None = None
  Tasks <- MCTasks
  Retentions <- MCShortRetentions
  StoreSuspends = TRUE
  StaleTimeout = 1
  MaxJobs = 2
  MaxTime = 1
  MaxCrashes = 1
  MaxFaults = 0
SYMMETRY TaskSymmetry
INVARIANTS
  DocumentsConsistent
  OneRunner
  RetryOfTerminal
PROPERTIES
  TerminalIsFinal
  RunLeavesTerminal
  ImplementsLifecycle
