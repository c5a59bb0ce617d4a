SPECIFICATION FairSpec
CONSTANTS
  nProcs = 3
  nGias = 4
  NoJob = NoJob
  Garbage = Garbage
INVARIANTS TypeOK AllSwept SafeWhileManaged StopAssert
PROPERTIES IsJobPool Returns
CHECK_DEADLOCK FALSE
