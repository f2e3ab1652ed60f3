\* Keyboard, mouse and bus on one display, to the end of the application.
SPECIFICATION FairSpec
CONSTANTS
  MaxSources = 2
  Rows <- OneRow
  Columns <- TwoColumns
  Digits = {0, 1}
  TiledText = FALSE
  SecondSources = 1
  Scenarios <- AllScenarios
INVARIANTS DisplayAgrees EndNotMissed
PROPERTIES TeardownEnds
CHECK_DEADLOCK FALSE
