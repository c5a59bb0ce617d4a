SPECIFICATION TestSpec
CONSTANTS
  nProcs = 2
  Vars = {x}
  IterLimits = {0}
  NoJob = NoJob
  Garbage = Garbage
INVARIANT CexIsRight
CHECK_DEADLOCK FALSE
