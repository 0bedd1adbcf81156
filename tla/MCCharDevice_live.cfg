SPECIFICATION FairSpec
CONSTANTS
  MaxOps = 1
  SizeMod = 32
  NULL = NULL
  Procs = {u1, u2}
  Blocks = {b1, b2, b3}
  Payloads <- MCPayloads
  Counts = {9}
  Faults = {"kmalloc", "krealloc"}
  MaxPartial = 1
  MaxPos = 2
  EOL <- MCEOL
  ZERO_SIZE_PTR = ZERO_SIZE_PTR
  FREE = FREE
  UNINIT = UNINIT
  ZERO = ZERO
INVARIANT MemorySafe
PROPERTY CallsReturn
