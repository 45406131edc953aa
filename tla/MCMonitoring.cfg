SPECIFICATION Spec
CONSTANTS
  x = x crashing = crashing failing = failing stressed = stressed e1 = e1
  Agents = {x}
  Window = 3
  Penalties = {0}
  MaxCount = 2
  MaxRecords = 2
  MaxEvents = 2
  Rules = {crashing, stressed}
  Metric <- MCMetric
  Cooldown = 2
  Editors = {e1}
  NoRule = NoRule
INVARIANTS
  TypeOK
  
  
PROPERTIES
  CrashesAreReal
  DeathIsAlerted
CHECK_DEADLOCK FALSE
