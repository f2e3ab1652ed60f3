\* A stopped source and the watches that outlive its watchdog.
SPECIFICATION Spec
CONSTANTS
  cam1 = cam1
  cam2 = cam2
  Sources = {cam1}
  Interval <- OneInterval
  Attempts <- OneAttempt
  ResetInterval = 3
  MinSpacing = 1
  MaxAge = 3
  MaxBus = 3
  MaxQueued = 1
  ErrorKinds = {}
  Pausing = FALSE
  PlayingNeedsServer = TRUE
  Prompt = TRUE
INVARIANTS StoppedSourceStaysDown
CHECK_DEADLOCK FALSE
