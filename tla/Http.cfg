SPECIFICATION FairSpec
CONSTANTS
  FileLen = 22
  SECTOR = 4
  CHUNK_SIZE = 7
  BufLen = 8
  SEND_BUF_SIZE = 8
  Urls <- Urls_MC
  Lengths <- Lengths_MC
  Codes = {"ok", "denied"}
  Framings = {"length", "chunked", "other", "absent"}
  PieceLen = 1
  MaxFaults = 2
INVARIANTS BodyIntact
PROPERTIES DownloadCompletes
CHECK_DEADLOCK FALSE
