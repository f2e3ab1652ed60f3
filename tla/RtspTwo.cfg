\* Two cameras that share the reset spacing, the mux probe and the decision to stop.
SPECIFICATION Spec
CONSTANTS
  cam1 = cam1
  cam2 = cam2
  Sources = {cam1, cam2}
  Interval <- BothInterval
  Attempts <- OneAndNone
  ResetInterval = 3
  MinSpacing = 1
  MaxAge = 3
  MaxBus = 3
  MaxQueued = 1
  ErrorKinds = {}
  Pausing = TRUE
  PlayingNeedsServer = TRUE
  Prompt = TRUE
INVARIANTS QuitOnlyWhenRetriesSpent
PROPERTIES NoResetOfLiveStream ImplementsRetryPolicy
CHECK_DEADLOCK FALSE
