SPECIFICATION Spec
CONSTANTS
  N = 2
  Overlay = {}
  Recreated = {0}
  Kinds = {"eos"}
  StartFails = FALSE
  MaxBus = 2
INVARIANTS LoopWaitsForAll
CHECK_DEADLOCK FALSE
