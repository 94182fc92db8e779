SPECIFICATION Spec
CONSTANTS
  a = a
  b = b
  g = g
  h = h
  Tasks = {t1, t2}
  Yielder = Yielder
  Free = Free
  Topics = {a}
  Wildcards = {}
  Handlers = {g, h}
  Subscriptions <- TwoOfOne
  MAX_MESSAGE_HANDLERS = 2
  MaxCalls = 3
  MaxDisconnects = 1
  SendMayOverrun = TRUE
  MayOverlap = TRUE
SYMMETRY Symmetry
INVARIANTS OneOwner NoLeak NoDuplicates
PROPERTIES AnsweredOnce
