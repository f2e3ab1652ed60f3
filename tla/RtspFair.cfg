\* Two cameras, one retried for ever, under fairness: neither starves the other of its retries.
SPECIFICATION FairSpec
CONSTANTS
  cam1 = cam1
  cam2 = cam2
  Sources = {cam1, cam2}
  Interval <- LongInterval
  Attempts <- NoLimitAndOne
  ResetInterval = 3
  MinSpacing = 1
  MaxAge = 3
  MaxBus = 2
  MaxQueued = 1
  ErrorKinds = {}
  Pausing = FALSE
  PlayingNeedsServer = TRUE
  Prompt = TRUE
PROPERTIES LostSourceIsStopped LostSourceIsReset
CHECK_DEADLOCK FALSE
