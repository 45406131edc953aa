SPECIFICATION Spec
CONSTANTS
  n1 = n1 n2 = n2 a1 = a1 a2 = a2
  Nodes = {n1, n2}
  Adders = {a1, a2}
  Capacity = 1
  Rooms = {1}
  Threshold = 60
  Failures = 2
  Period = 3
  MaxChanges = 0
  MaxCrashes = 1
INVARIANTS
  TypeOK
  RegistrationKept
SYMMETRY Symmetric
CHECK_DEADLOCK FALSE
