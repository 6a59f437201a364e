SPECIFICATION FairSpecWithStarters
CONSTANTS
  p1 = p1
  p2 = p2
  w1 = w1
  w2 = w2
  NoPod = NoPod
  Pods = {p1}
  LocalPods = {p1}
  Workers = {w1}
  NameOf <- UniqueNames
  Requests <- MixedContainer
  PoolConfig <- MCPoolConfig
  HTMap <- MCHTMap
  NumCPU = 6
  Inherited <- MCInherited
  PatchAllowed = FALSE
  MaxRetryCount = 2
  MaxRestarts = 2
  MaxFaults = 0
  MaxCrashes = 1
  MaxPolls = 2
  MaxExits = 1
INVARIANTS
  AffinityKept
  StarterInv
PROPERTIES
  ApplicationStarts
  ServiceReturns
