CONSTANTS
  c1 = c1
  Clients = {c1}
  SIZE = 3
  COUNT = 1
  ROOM = 2
  Narrow = {{c1}}
  SPLIT_HEADER = FALSE
  CLIENT_CRASH = FALSE
  Modes = {0}
  MSG_MAX = 3
  FREED_FAULTS = FALSE
  CALLS_FAIL = FALSE
  Requests <- GetFile
  SPLIT_REQUEST = FALSE
  Disks <- Page
  FILE_CHANGES = 0
SPECIFICATION Spec
INVARIANT EchoInOrder
