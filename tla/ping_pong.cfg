CONSTANTS
  c1 = c1
  c2 = c2
  Clients = {c1, c2}
  SIZE = 3
  COUNT = 2
  ROOM = 2
  Narrow = {{}, {c2}}
  SPLIT_HEADER = TRUE
  CLIENT_CRASH = TRUE
  Modes = {0, 1}
  MSG_MAX = 3
  FREED_FAULTS = TRUE
  CALLS_FAIL = TRUE
  Requests <- SomeRequests
  SPLIT_REQUEST = TRUE
  Disks <- SomeFile
  FILE_CHANGES = 1
SPECIFICATION FairSpec
INVARIANTS TypeOK EchoIntact OneMessage ListKept WebAnswers
PROPERTIES EveryClientFinishes ServerTidies
