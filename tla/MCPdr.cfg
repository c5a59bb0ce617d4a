SPECIFICATION FairSpec
CONSTANTS
  Flops <- MCFlops
  Inputs = {1, 2}
  nOuts = 2
  Cases <- MCCases
INVARIANTS TypeOK FramesHold ProvedIsTrue CexIsTrace NoInitObligation
PROPERTY Terminates
CHECK_DEADLOCK FALSE
