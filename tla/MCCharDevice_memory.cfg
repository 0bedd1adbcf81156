SPECIFICATION Spec
CONSTANTS
  MaxOps = 2
  SizeMod = 32
  NULL = NULL
  Procs = {u1, u2}
  Blocks = {b1, b2, b3, b4}
  Payloads <- MCPayloadsOdd
  Counts = {1}
  Faults = {"kmalloc", "copy_from_user", "copy_to_user",
            "alloc_chrdev_region", "cdev_add"}
  MaxPartial = 1
  MaxPos = 1
  EOL <- MCEOL
  ZERO_SIZE_PTR = ZERO_SIZE_PTR
  FREE = FREE
  UNINIT = UNINIT
  ZERO = ZERO
SYMMETRY BlockSymmetry
INVARIANTS
  TypeOK
  MutexInv
  MemorySafe
  NoLeak
