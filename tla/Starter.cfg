SPECIFICATION FairSpec
CONSTANTS
  NLines = 4
  CoreRequests = {1, 2, 3, 4}
  MinCores = 2
INVARIANTS TypeOK CoreBound CounterExact AllOrNothing
PROPERTIES KeepsPromise CallReturns
