SPECIFICATION Spec
CONSTANTS
  a = a
  b = b
  g = g
  h = h
  Tasks = {t1}
  Yielder = Yielder
  Free = Free
  Topics = {a, b}
  Wildcards = {b}
  Handlers = {g}
  Subscriptions <- OneEach
  MAX_MESSAGE_HANDLERS = 2
  MaxCalls = 3
  MaxDisconnects = 0
  SendMayOverrun = FALSE
  MayOverlap = FALSE
PROPERTIES OthersKept
