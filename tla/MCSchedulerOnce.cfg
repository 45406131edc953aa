SPECIFICATION Spec
CONSTANTS
  j1 = j1 j2 = j2 f1 = f1 f2 = f2 e1 = e1
  Jobs = {j1, j2}
  NoJob = none
  Schedules <- MCSchedules
  Firers = {f1, f2}
  Editors = {e1}
  SlowTasks = FALSE
  Horizon = 3
  Day = 9
  MaxRequests = 0
  MaxFaults = 0
INVARIANT RunExactlyOnce
