SPECIFICATION Spec
CONSTANTS
  nPis = 2
  Networks <- MCCycle
  UpdateLevels = {FALSE}
  nReplaces = 2
  nNewNodes = 0
INVARIANT NoCycle
CHECK_DEADLOCK FALSE
