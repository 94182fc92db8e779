SPECIFICATION FairSpec
CONSTANTS
  a = a
  b = b
  g = g
  h = h
  Tasks = {t1}
  Yielder = Yielder
  Free = Free
  Topics = {a, b}
  Wildcards = {}
  Handlers = {g, h}
  Subscriptions <- TwoAndOne
  MAX_MESSAGE_HANDLERS = 3
  MaxCalls = 3
  MaxDisconnects = 1
  SendMayOverrun = FALSE
  MayOverlap = FALSE
INVARIANTS InSync
PROPERTIES EveryRequestAnswered
