SPECIFICATION FairSpec
CONSTANTS
  c1 = c1
  a1 = a1
  Clients <- OneClient
  Helpers <- OneTask
  Ids = {1, 2}
  Ops = {"start", "restart_with_kill_timeout"}
  Timeouts = {"none"}
  ChannelCap = 1
  DeleteOnStop = TRUE
  CrashDetection = FALSE
  DetectCleanExit = FALSE
  DockerFails = FALSE
  DiskFills = FALSE
PROPERTIES ExitIsNoticed CallsReturn
CHECK_DEADLOCK FALSE
