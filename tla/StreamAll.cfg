\* A looped file through both bins, with recreations; all trees of 3 engines.
SPECIFICATION FairSpec
CONSTANTS
  LoopOptions = {TRUE, FALSE}
  FrameCount = 2
  SegmentStop = 2
  Units = {1, 2}
  PreConfigs <- OnePrimary
  Engines = {1, 2, 3}
  PrimaryId = 1
  Configs <- AllConfigs
  RunConfigs <- RunTrees
  QueueSize = 1
  MaxFrames = 3
  MaxBuilds = 2
  RecreateWithoutLoop = FALSE
INVARIANTS TreeIsReachable FrameTimesGoForward
PROPERTIES ImplementsStages EveryFrameLeaves LoopGoesOn
CHECK_DEADLOCK FALSE
