SPECIFICATION FairSpec
CONSTANTS
  Tasks = {t1, t2}
  Free = Free
  Yielder = Yielder
  MAX_PACKET_ID = 2
  MAX_REPUB_NUM = 2
  MaxCalls = 2
  MaxDisconnects = 1
  SendMayOverrun = FALSE
INVARIANTS NoFreedNode
PROPERTIES KeepsPromise CallReturns EveryPublishHeard
