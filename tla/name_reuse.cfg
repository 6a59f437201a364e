SPECIFICATION Spec
CONSTANTS
  p1 = p1
  p2 = p2
  w1 = w1
  w2 = w2
  NoPod = NoPod
  Pods = {p1, p2}
  LocalPods = {p1, p2}
  Workers = {w1}
  NameOf <- SameName
  Requests <- OneContainer
  PoolConfig <- MCPoolConfig
  HTMap <- MCHTMap
  NumCPU = 6
  Inherited <- MCInherited
  PatchAllowed = TRUE
  MaxRetryCount = 2
  MaxRestarts = 0
  MaxFaults = 0
  MaxCrashes = 0
PROPERTIES
  AnnotatesOwnPod
