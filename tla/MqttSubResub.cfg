SPECIFICATION Spec
CONSTANTS
  a = a
  b = b
  g = g
  h = h
  Tasks = {t1}
  Yielder = Yielder
  Free = Free
  Topics = {a}
  Wildcards = {}
  Handlers = {g, h}
  Subscriptions <- TwoOfOne
  MAX_MESSAGE_HANDLERS = 2
  MaxCalls = 2
  MaxDisconnects = 1
  SendMayOverrun = FALSE
  MayOverlap = FALSE
INVARIANTS InSyncAfterReconnect
