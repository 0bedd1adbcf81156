SPECIFICATION FairSpec
CONSTANTS
  c1 = c1
  c2 = c2
  Clients = {c1, c2}
  MsgLen <- BothShort
  Quitters = {}
  Resetters = {c1}
  LOGGER = LOGGER
  NULL = NULL
  BUFFER_SIZE = 2
  USE_AESD_CHAR_DEVICE = FALSE
  MaxOps = 1
  Faults = {}
  MaxTicks = 0
  MaxSem = 1
CHECK_DEADLOCK FALSE
PROPERTIES
  GracefulShutdown
  ConnectionsFinish
  FailureStopsServer
