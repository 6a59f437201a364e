SPECIFICATION Spec
CONSTANTS
  Submitted <- MixedPod
  Quotas = {"all", "shared"}
  Confs <- MCConfs
  Nodes <- MCNodes
  HTMap <- MCHTMap
  NUMANodeOf <- MCNUMANodeOf
  Sidecars <- MCSidecars
  MaxCalls = 3
INVARIANT NoQuotaForExclusive
CHECK_DEADLOCK FALSE
