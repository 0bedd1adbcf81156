SPECIFICATION ReadersSpec
CONSTANTS
  MaxOps = 2
  SizeMod = 32
  NULL = NULL
  Procs = {u1, u2}
  Blocks = {b1, b2, b3, b4}
  Payloads <- MCPayloads
  Counts = {9}
  Faults = {"kmalloc"}
  MaxPayload = 2
  MaxPartial = 2
  MaxPos = 5
  EOL <- MCEOL
  ZERO_SIZE_PTR = ZERO_SIZE_PTR
  FREE = FREE
  UNINIT = UNINIT
  ZERO = ZERO
SYMMETRY BlockSymmetry
INVARIANTS
  SizeIsStored
  ReadsSeeLines
  ReadsNeverRepeat
PROPERTY ImplementsLineStore
