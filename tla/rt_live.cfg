CONSTANTS
  a = a
  b = b
  c = c
  ab = ab
  ab2 = ab2
  bc = bc
  ac = ac
  Routers = {a, b, c}
  Links = {ab, bc, ac}
  Ends <- RingEnds
  Rtt <- RingRtt
  COST_MOD = 16
  FAULTS = 0
  ALARM_CAP = 2
  DATA_CAP = 1
  Garbage = {0}
SPECIFICATION FairSpec
INVARIANTS RoutesBacked
PROPERTIES Converges DataLeaves
