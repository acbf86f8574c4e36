SPECIFICATION FairSpec
CONSTANTS
  d1 = d1
  d2 = d2
  Free = Free
  Changes = {1, 2}
  Devices = {d1, d2}
  Users = {u1}
  Plans <- OverlapPlans
  Cancellable = {2}
  Deletable = {d2}
  Windowed = {}
  ListLimit = 200
  MaxCrashes = 1
  DbFaults = FALSE
INVARIANTS
  TypeOK
  DeviceExclusive
  EndIsHonest
  RunningIsExecuted
PROPERTIES
  Lifecycle
  RunNowIsStarted
  RunningEnds
CHECK_DEADLOCK FALSE
