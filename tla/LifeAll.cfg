\* Two instances, one with a window, one recreated; every message, any failure.
SPECIFICATION FairSpec
CONSTANTS
  N = 2
  Overlay = {0}
  Recreated = {1}
  Kinds = {"eos", "fatal", "exceeded"}
  StartFails = TRUE
  MaxBus = 1
INVARIANTS LoopWaitsForOthers FailedStartIsReported
PROPERTIES  AllDoneEnds InterruptEndsLoop
CHECK_DEADLOCK FALSE
