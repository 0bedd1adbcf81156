SPECIFICATION FairSpec
CONSTANTS
  PARENT = PARENT
  CHILD = CHILD
  USE_AESD_CHAR_DEVICE = FALSE
  Faults = {"socket", "setsockopt", "getaddrinfo", "bind", "listen", "fork",
            "setsid", "chdir", "signal", "sem_init", "timer_create",
            "timer_settime", "pthread_create", "pthread_mutex_init"}
  MaxSem = 2
  MaxFd = 7
CHECK_DEADLOCK FALSE
INVARIANTS
  TypeOK
  ServingIsSetUp
  LoggerLocksInitialised
PROPERTY EarlySignalEnds
