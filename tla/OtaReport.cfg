SPECIFICATION Spec
CONSTANTS
  Size <- Size_MC
  SECTOR = 2
  PARTITION = 8
  CHUNK = 2
  MaxReleases = 1
  MaxRestarts = 0
  MaxFaults = 1
  PublishFails = TRUE
  AckLoss = FALSE
  Withdrawn = FALSE
  LateRestart = FALSE
INVARIANT ReportedIsBooted
CHECK_DEADLOCK FALSE
