SPECIFICATION FairSpec
CONSTANTS
  nProcs = 3
  nAigs = 4
  Cost <- MCCost
  nGias = 3
  Rands = {r1, r2, r3}
  nSolvers = 2
  nFramesMax = 3
  nFramesAdd = 2
  nPos = 2
  TimeOuts = {TRUE, FALSE}
  ConfLimits = {TRUE, FALSE}
  Vars = {x, y}
  IterLimits = {0, 1}
  NOutputs = 2
  nGlaFrames = 2
  NRestarts = 1
  nFramesNoChangeLim = 1
  Skips = {TRUE, FALSE}
  NLines = 3
  CoreRequests = {0, 2, 3}
  MinCores = 1
  MAX_COMM_NUM = 2
  NoJob = NoJob
  Garbage = Garbage
INVARIANTS TotalIsRight InPlace PortfolioResult FirstFailure SolversQuiet StopRequestOver
INVARIANTS NoCofactorLost SplitVerdict OneProver OnlyLateProofs FramesRight ReturnsWhenOver
PROPERTY Returns
CHECK_DEADLOCK FALSE
