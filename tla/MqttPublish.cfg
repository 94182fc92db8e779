SPECIFICATION Spec
CONSTANTS
  Tasks = {t1, t2}
  Free = Free
  Yielder = Yielder
  MAX_PACKET_ID = 3
  MAX_REPUB_NUM = 2
  MaxCalls = 3
  MaxDisconnects = 1
  SendMayOverrun = TRUE
SYMMETRY Symmetry
INVARIANTS UniqueIds BufferIntact SuccessIsTrue IteratorValid
PROPERTIES NoTimeoutAfterSuccess
