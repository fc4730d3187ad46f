CONSTANTS
  c1 = c1
  c2 = c2
  Clients = {c1, c2}
  SIZE = 2
  COUNT = 1
  ROOM = 2
  Narrow = {{}}
  SPLIT_HEADER = FALSE
  CLIENT_CRASH = FALSE
  Modes = {0}
  MSG_MAX = 2
  FREED_FAULTS = TRUE
  CALLS_FAIL = FALSE
  Requests <- GetFile
  SPLIT_REQUEST = FALSE
  Disks <- Page
  FILE_CHANGES = 0
SPECIFICATION Spec
INVARIANT ServerSurvives
