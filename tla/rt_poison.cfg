CONSTANTS
  a = a
  b = b
  c = c
  ab = ab
  ab2 = ab2
  bc = bc
  ac = ac
  Routers = {a, b, c}
  Links = {ab, bc}
  Ends <- LineEnds
  Rtt <- LineRtt
  COST_MOD = 16
  FAULTS = 1
  ALARM_CAP = 1
  DATA_CAP = 0
  Garbage = {0}
SPECIFICATION Spec
INVARIANTS NoMutualRoutes
