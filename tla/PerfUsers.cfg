\* The keyboard and the X thread pause, resume; the pipeline is recreated.
SPECIFICATION Spec
CONSTANTS
  Sources = {s1}
  Users = {kb, x}
  Keyboard = kb
  Epoch = 10
  FramesPerBatch = 2
  SampleInterval = 2
  MaxTime = 14
  MaxCalls = 4
INVARIANTS FiniteRate OnlyTimelyFramesSampled PlayingIsMeasured
CHECK_DEADLOCK FALSE
