SPECIFICATION Spec
CONSTANT Inputs <- SoundInputs
INVARIANTS
  ExactlyEntitled
  EnvironmentAgrees
  ReturnsDetermined
  LoopInv
CHECK_DEADLOCK FALSE
