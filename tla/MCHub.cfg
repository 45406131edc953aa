SPECIFICATION Spec
CONSTANTS
  n1 = n1 n2 = n2 a1 = a1 a2 = a2
  Nodes = {n1, n2}
  Adders = {}
  Capacity = 2
  Rooms = {1}
  Threshold = 60
  Failures = 2
  Period = 3
  MaxChanges = 2
  MaxCrashes = 1
INVARIANT AlarmBound
PROPERTY RoutingConverges
CHECK_DEADLOCK FALSE
