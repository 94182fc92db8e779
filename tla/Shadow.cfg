SPECIFICATION FairSpec
CONSTANTS
  Tasks = {t1}
  Yielder = yielder
  MAX_APPENDING_REQUEST = 1
  MaxRequests = 2
  MaxLosses = 1
  Documents <- Documents_MC
  Properties = {"p1"}
  MaxRegistered = 1
  MaxDeltas = 1
  RegisterOnce = TRUE
  OneBuilder = TRUE
  Garbled = FALSE
INVARIANTS OneCallback DocumentsRead
PROPERTIES RepliesFindTheirOwn EveryRequestAnswered SyncCallsReturn
CHECK_DEADLOCK FALSE
