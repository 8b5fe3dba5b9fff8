SPECIFICATION FairSpec
CONSTANTS
  i1 = i1
  i2 = i2
  NoInstall = NoInstall
  Installs <- TwoInstalls
  Crashes = TRUE
INVARIANTS InstallingIsOwned InstallIsQuiet SuccessIsScript
PROPERTY InstallEnds
CHECK_DEADLOCK FALSE
CONSTRAINT FirstIsFirst
