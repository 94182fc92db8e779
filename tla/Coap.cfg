SPECIFICATION FairSpec
CONSTANTS
  Tasks = {t1}
  Yielder = yielder
  max_retry_count = 1
  MAX_MSG_ID = 3
  SEND_BUF_SIZE = 80
  ReplyOptions <- ReplyOptions_MC
  MaxRequests = 2
  MaxCopies = 1
  OneSender = TRUE
  AuthFails = FALSE
INVARIANTS AnswerIsMine
PROPERTIES KeepsPromise EveryRequestHeard
CHECK_DEADLOCK FALSE
