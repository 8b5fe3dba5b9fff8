SPECIFICATION Spec
CONSTANTS
  c1 = c1
  a1 = a1
  Clients <- OneClient
  Helpers <- OneTask
  Ids = {1, 2}
  Ops = {"start", "stop", "kill"}
  Timeouts = {"none"}
  ChannelCap = 1
  DeleteOnStop = FALSE
  CrashDetection = TRUE
  DetectCleanExit = FALSE
  DockerFails = TRUE
  DiskFills = TRUE
INVARIANTS StateIsTruthful RunningIsWatched AskedStopIsNoCrash
CHECK_DEADLOCK FALSE
