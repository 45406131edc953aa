SPECIFICATION Spec
CONSTANTS
  t1 = t1 a1 = a1 a2 = a2 p1 = p1 p2 = p2 p3 = p3 c1 = c1 c2 = c2 x1 = x1 s1 = s1 s2 = s2
  Tenants = {t1}
  Agents = {a1, a2}
  Pids = {p1, p2, p3}
  Stamps = {s1, s2}
  Api = {c1}
  Cli = {}
  Recovery = rec
  NoPid = none
  NoSlot = noslot
  Blocked <- MCBlocked
  MaxInstances <- MCMaxInstances
  MaxAgents = 2
  ReusePids = FALSE
  MaxRequests = 2
  MaxCrashes = 1
  MaxFailures = 0
INVARIANT NoOrphans
CHECK_DEADLOCK FALSE
