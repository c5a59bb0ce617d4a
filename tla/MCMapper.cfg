SPECIFICATION Spec
CONSTANTS
  Circuits <- MCCircuits
  AreaInv = 1
  nTrials = 1
INVARIANTS RefsCover MeasureLeavesNoTrace ExactStays AreaNeverGrows
CHECK_DEADLOCK FALSE
