SPECIFICATION Spec
CONSTANTS
  alice = alice
  bob = bob
  key = key
  wrong = wrong
  proxy = proxy
  home = home
  office = office
  forecasts = forecasts
  status = status
  None = None
  Requests <- MCRequests
  Clients <- MCClients
  Routes <- MCRoutes
  Limited <- MCLimited
  ApiKeys <- MCApiKeys
  Capacity = 2
  WindowSeconds = 2
  TicksPerSecond = 2
  MaxNow = 7
INVARIANTS
  AccessTypeOK
  SpanBounded
  RefusedWhenFull
PROPERTIES
  RetryAfterHolds
