SPECIFICATION FairSpec
CONSTANTS
  Size <- Size_MC
  SECTOR = 2
  PARTITION = 10
  CHUNK = 2
  MaxReleases = 2
  MaxRestarts = 2
  MaxFaults = 2
  PublishFails = TRUE
  AckLoss = FALSE
  Withdrawn = FALSE
  LateRestart = FALSE
INVARIANTS BootableAlways OwnPartition
PROPERTIES UpgradeCompletes
CHECK_DEADLOCK FALSE
