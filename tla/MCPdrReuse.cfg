SPECIFICATION Spec
CONSTANTS
  Flops <- MCFlops
  Inputs = {1, 2}
  nOuts = 2
  Cases <- MCReuse
INVARIANT CexIsValid
CHECK_DEADLOCK FALSE
