SPECIFICATION Spec
CONSTANTS
  p1 = p1 p2 = p2 b1 = b1 b2 = b2
  Proc <- MCProc
  Block <- MCBlock
  MAXOPBLOCKS = 3
  LOGBLOCKS = 6
  OPBLOCKS = 2
  MAX_OPS = 3
  MAX_CRASHES = 2
SYMMETRY Symmetry
INVARIANTS NoPanic SyncDurable
PROPERTIES IsAtomic
