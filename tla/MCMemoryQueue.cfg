SPECIFICATION Spec
CONSTANTS
  c1 = c1
  c2 = c2
  k1 = k1
  k2 = k2
  k3 = k3
  Nobody = Nobody
  Clients <- MCClients
  Keys <- MCKeys
  Ranks <- MCRanks
  MaxSequence = 5
SYMMETRY Symmetry
INVARIANTS
  HeapMatchesQueued
PROPERTIES
  ImplementsPort
