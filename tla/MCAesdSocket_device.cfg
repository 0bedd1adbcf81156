SPECIFICATION Spec
CONSTANTS
  c1 = c1
  c2 = c2
  Clients = {c1, c2}
  MsgLen <- LongAndFull
  Quitters = {}
  Resetters = {c1}
  LOGGER = LOGGER
  NULL = NULL
  BUFFER_SIZE = 2
  USE_AESD_CHAR_DEVICE = TRUE
  MaxOps = 1
  Faults = {"accept", "pthread_create", "write", "read", "sigpipe"}
  MaxTicks = 0
  MaxSem = 1
CHECK_DEADLOCK FALSE
INVARIANTS
  NodesOwned
  QuietShutdown
  MessageIntact
  EchoOrEvicted
  LostOnlyOnAbort
