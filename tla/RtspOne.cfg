\* One camera, every kind of failure, no assumption on main loop latency: safety, and the end of a lost camera.
SPECIFICATION FairSpec
CONSTANTS
  cam1 = cam1
  cam2 = cam2
  Sources = {cam1}
  Interval <- OneInterval
  Attempts <- OneAttempt
  ResetInterval = 3
  MinSpacing = 1
  MaxAge = 3
  MaxBus = 3
  MaxQueued = 2
  ErrorKinds = {"error", "error500", "fatal"}
  Pausing = TRUE
  PlayingNeedsServer = TRUE
  Prompt = FALSE
INVARIANTS TypeOK RetryBudget OneAsyncWatch
PROPERTIES AllLostEndsApplication
CHECK_DEADLOCK FALSE
