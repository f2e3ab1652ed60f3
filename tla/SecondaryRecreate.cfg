\* A live source (no loop), one engine; the pipeline is created twice.
SPECIFICATION Spec
CONSTANTS
  LoopOptions = {FALSE}
  FrameCount = 1
  SegmentStop = 1
  Units = {1}
  PreConfigs <- OnePrimary
  Engines = {1}
  PrimaryId = 1
  Configs <- OneRoot
  RunConfigs <- OneRoot
  QueueSize = 1
  MaxFrames = 2
  MaxBuilds = 2
  RecreateWithoutLoop = TRUE
PROPERTIES FrameWaitsForEveryEngine
CHECK_DEADLOCK FALSE
