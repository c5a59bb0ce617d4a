SPECIFICATION TestSpec
CONSTANTS
  nProcs = 2
  Vars = {x}
  IterLimits = {0}
  NoJob = NoJob
  Garbage = Garbage
INVARIANT UnsatIsRight
CHECK_DEADLOCK FALSE
