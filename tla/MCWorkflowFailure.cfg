SPECIFICATION Spec
CONSTANTS
  a = a
  b = b
  c = c
  Steps <- MCSteps
  Definitions <- MCChain
  MaxLostSaves = 0
  MayCrash = FALSE
PROPERTIES
  FailureTerminates
CHECK_DEADLOCK FALSE
