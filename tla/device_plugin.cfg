SPECIFICATION Spec
CONSTANTS
  Configs <- MCConfigs
  MatchedSockets <- MCMatchedSockets
  MaxKubeletRestarts = 2
  MaxFaults = 1
  MaxCrashes = 1
INVARIANTS
  PluginInv
  AddressFree
  CompletePass
