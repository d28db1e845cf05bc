SPECIFICATION Spec
CONSTANTS
  c1 = c1
  c2 = c2
  i1 = i1
  i2 = i2
  good = good
  bad = bad
  point = point
  other = other
  None = None
  Torn = Torn
  Calls <- MCCalls
  Ids <- MCIds
  Bodies <- MCBodies
  Decodable <- MCDecodable
  Keys <- MCKeys
  Requests <- MCRequests
  PointKey = point
  MaxPollAttempts = 2
  MaxStarts = 3
  MaxCrashes = 1
SYMMETRY Symmetry
INVARIANTS
  ProviderTypeOK
  RequestsAccounted
  HitWasReceived
PROPERTIES
  SavedIsServed
  AnswersBringEnd
