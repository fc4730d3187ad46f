CONSTANTS
  Files <- SomeFiles
  TIME_MOD = 1000
  Boot = {0}
  LOSS_CAP = 2
SPECIFICATION FairSpec
INVARIANTS TypeOK PoppedIsDispatched OneAlarmEach PortsFollowLinks PortsFound
PROPERTIES ExpiryNeedsLoss RunEnds
