SPECIFICATION Spec
CONSTANTS
  a = a
  b = b
  c = c
  Steps <- MCSteps
  Definitions <- MCDefinitions
  MaxLostSaves = 3
  MayCrash = TRUE
INVARIANTS
  TypeOK
  DepsBeforeLaunch
  RelaunchBudget
  VerdictSound
PROPERTIES
  Finishes
  ViewSpec
\* A run that has its verdict, or whose node died, takes no more steps.
CHECK_DEADLOCK FALSE
