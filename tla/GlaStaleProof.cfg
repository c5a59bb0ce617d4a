SPECIFICATION Spec
CONSTANTS
  NOutputs = 2
  nFramesMax = 2
  NRestarts = 0
  nFramesNoChangeLim = 1
  Skips = {FALSE}
INVARIANT ProvedRight
CHECK_DEADLOCK FALSE
