SPECIFICATION Spec
CONSTANTS
  nProcs = 2
  nGias = 2
  NoJob = NoJob
  Garbage = Garbage
INVARIANTS WorkerAssert
CHECK_DEADLOCK FALSE
