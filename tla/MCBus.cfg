SPECIFICATION Spec
CONSTANTS
  m1 = m1 m2 = m2 m3 = m3 p1 = p1 p2 = p2 c1 = c1
  Messages = {m1, m2, m3}
  Mortal = {m1}
  NoMessage = none
  Publishers = {p1, p2}
  Consumers = {c1}
  Limit = 2
  MaxClears = 1
  MaxFaults = 1
INVARIANTS
  TypeOK
  NothingSkipped
  DamageBound
PROPERTY Delivered
\* Once everything is published and polled, nothing needs to happen.
CHECK_DEADLOCK FALSE
