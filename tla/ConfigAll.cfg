\* Every family of configuration files, and two pipelines for some of them.
SPECIFICATION BuildSpec
CONSTANTS
  MaxSources = 4
  MaxGies = 2
  MaxPreprocess = 2
  MaxSinks = 2
  GuintRange = 20
  Bad = Bad
  Families <- AllFamilies
INVARIANTS BuildTypeOK SourcesAsDescribed GpuPrecedence OneSourcePerNumber
INVARIANTS ListedSourcesFillBatch RefusedForCause
INVARIANTS OneChain EverySinkIsFed ServedIsFed BuildFailsForCause
CHECK_DEADLOCK FALSE
