SPECIFICATION Spec
CONSTANTS
  NPAGES = 24
  NPTE = 2
  MAXVA = 8
  PGSIZE = 4
  NPROC = 2
  USERSTACK = 1
  MAXARG = 3
  WORD = 64
  Programs <- MCPrograms
  Growth <- MCGrowth
  Addresses <- MCAddresses
  ArgLists <- MCArgLists
  MAX_CALLS = 4
  MAX_PIPES = 1
CHECK_DEADLOCK FALSE
INVARIANTS PagesAccounted
PROPERTIES IsAddressSpaces
