SPECIFICATION Spec
CONSTANTS
  c1 = c1
  c2 = c2
  Clients = {c1, c2}
  MsgLen <- ShortAndLong
  Quitters = {c2}
  Resetters = {}
  LOGGER = LOGGER
  NULL = NULL
  BUFFER_SIZE = 2
  USE_AESD_CHAR_DEVICE = FALSE
  MaxOps = 1
  Faults = {}
  MaxTicks = 1
  MaxSem = 1
CHECK_DEADLOCK FALSE
INVARIANTS
  TypeOK
  MutexInv
  EchoIsSnapshot
  MessageIntact
