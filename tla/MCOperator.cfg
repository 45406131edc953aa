SPECIFICATION Spec
CONSTANTS
  MaxReplicas = 2
  MaxAgents = 3
  MaxErrors = 0
  MaxChanges = 1
PROPERTY ReplicasReached
CHECK_DEADLOCK FALSE
