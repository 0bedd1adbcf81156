SPECIFICATION Spec
CONSTANTS
  MaxOps = 3
  SizeMod = 16
  MaxSize = 3
  NULL = NULL
  Buffptrs = {p1, p2}
INVARIANTS
  TypeOK
  RingInv
  FindMatchesConcatenation
PROPERTY ImplementsRecentLog
