CONSTANTS
  a = a
  b = b
  c = c
  ab = ab
  ab2 = ab2
  bc = bc
  ac = ac
  Routers = {a, b, c}
  Links = {ab, ab2, bc}
  Ends <- TwinEnds
  Rtt <- TwinRtt
  COST_MOD = 16
  FAULTS = 1
  ALARM_CAP = 0
  DATA_CAP = 0
  Garbage = {0, 20}
SPECIFICATION Spec
INVARIANTS TypeOK TablesAgree NextHopKnown NoRouteToSelf OnePortEach
PROPERTIES ChangesAnnounced
