CONSTANTS
  x1 = x1
  x2 = x2
  x3 = x3
  Nodes = {x1, x2, x3}
  WINDOW_LEN = 2
  SEQ_LEN = 3
  WORD = 16
  MILLION = 5
  START = 18
  END = 22
  PACKETS = 4
  NET_CAP = 2
  Damage <- SomeDamage
SPECIFICATION Spec
INVARIANTS TypeOK AckIntact QueueKept
PROPERTIES InOrder Implements
