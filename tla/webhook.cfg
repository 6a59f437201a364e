SPECIFICATION Spec
CONSTANTS
  Submitted <- MCSubmitted
  Quotas = {"all", "shared"}
  Confs <- MCConfs
  Nodes <- MCNodes
  HTMap <- MCHTMap
  NUMANodeOf <- MCNUMANodeOf
  Sidecars <- MCSidecars
  MaxCalls = 3
INVARIANTS
  AdmissionInv
  PatchesApply
  StarterReady
  UpdateChangesNothing
  WaitsForItsCpuset
  QuotaCovers
  StarterPinsAll
CHECK_DEADLOCK FALSE
