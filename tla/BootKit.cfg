SPECIFICATION BootSpec
CONSTANTS
  Requests = {r1, r2}
  DrainWaitTime = 1
  StopTimeoutTime = 3
  SchedulingDelay = 1
  Others = {"admin"}
  Fragile = {"admin"}
INVARIANTS
  DrainReachesAll
  NoSilentCut
  StartedAreStopped
  ServesWhenReady
PROPERTIES
  FailureEndsProcess
  ImplementsDrain
CHECK_DEADLOCK FALSE
