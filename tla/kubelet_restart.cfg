SPECIFICATION Spec
CONSTANTS
  Configs <- MCConfigs
  MatchedSockets <- MCMatchedSockets
  MaxKubeletRestarts = 1
  MaxFaults = 0
  MaxCrashes = 0
INVARIANTS
  FailedRestartPanics
