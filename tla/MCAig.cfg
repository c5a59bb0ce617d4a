SPECIFICATION FairSpec
CONSTANTS
  nPis = 2
  Networks <- MCNetworks
  UpdateLevels = {TRUE, FALSE}
  nReplaces = 2
  nNewNodes = 1
INVARIANTS AigTypeOK AigCheck NoCycle FunctionsKept
PROPERTY Settles
CHECK_DEADLOCK FALSE
