SPECIFICATION Spec
CONSTANTS
  BASE = 4
  MAX_NO_OF_REMAINING_LENGTH_BYTES = 4
  BUF_SIZE = 24
  MAX_TOPIC = 8
  HandlerTables <- Tables_MC
  BrokerPackets <- Broker_MC
  ClientPackets <- Client_MC
  ConnackCodes = {0, 5}
  Stalls = FALSE
  MaxSent = 3
INVARIANTS InStep HeardIsSent BrokerUnderstands
CHECK_DEADLOCK FALSE
