SPECIFICATION Spec
CONSTANTS
  p1 = p1
  p2 = p2
  w1 = w1
  w2 = w2
  NoPod = NoPod
  Pods = {p1}
  LocalPods = {p1}
  Workers = {w1}
  NameOf <- UniqueNames
  Requests <- TwoContainers
  PoolConfig <- MCPoolConfig
  HTMap <- MCHTMap
  NumCPU = 6
  Inherited <- MCInherited
  PatchAllowed = TRUE
  MaxRetryCount = 2
  MaxRestarts = 1
  MaxFaults = 1
  MaxCrashes = 1
INVARIANTS
  AnnotationInv
  PinnedBeforeAnnotation
PROPERTIES
  ImplementsPromise
