SPECIFICATION FairSpec
CONSTANTS
  RandomIntervals = {1990}
  MAX_RECONNECT_WAIT_INTERVAL = 60000
  MaxDisconnects = 2
  KEEP_ALIVE = 4
  ServerDelay = 3
  MayToggle = TRUE
INVARIANTS SilenceBounded TriesEnough
PROPERTIES LiveServerKept ReconnectsOrGivesUp
