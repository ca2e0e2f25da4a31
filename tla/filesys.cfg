SPECIFICATION Spec
CONSTANTS
  p1 = p1
  p2 = p2
  Proc = {p1, p2}
  init = p1
  None = None
  NINODES = 4
  NBLOCKS = 7
  NINODE = 6
  BSIZE = 2
  NDIRECT = 1
  NINDIRECT = 2
  NLINK_MAX = 2
  NFILE = 2
  NOFILE = 2
  Calls <- MCCalls
  FILES <- MCFiles
  MAX_CALLS <- MCMaxCalls
  MAX_CRASH = 1
CHECK_DEADLOCK FALSE
INVARIANTS RefsExact CrashConsistent NoOrphans NoCircle
PROPERTIES IsDirTree
