SPECIFICATION Spec
CONSTANTS
  j1 = j1 j2 = j2 f1 = f1 f2 = f2 e1 = e1
  Jobs = {j1, j2}
  NoJob = none
  Schedules <- MCSchedules
  Firers = {f1, f2}
  Editors = {e1}
  SlowTasks = TRUE
  Horizon = 2
  Day = 9
  MaxRequests = 1
  MaxFaults = 1
INVARIANTS
  TypeOK
  OnceUnlessRaced
  LogComplete
PROPERTY DueFires
