SPECIFICATION Spec
CONSTANTS
  t1 = t1
  t2 = t2
  j1 = j1
  j2 = j2
  j3 = j3
  None = None
  Trackers <- MCTrackers
  Jobs <- MCJobs
  MaxJobPollAttempts = 1
  MaxCancels = 1
INVARIANT
  TrackingOK
PROPERTIES
  NewestWins
  TrackersEnd
