SPECIFICATION Spec
CONSTANTS
  NSEC = 4
  Timeouts <- MCTimeouts
  MaxNap = 5
  MaxSec = 4
INVARIANTS
  TypeOK
  DeadlineKept
CHECK_DEADLOCK FALSE
