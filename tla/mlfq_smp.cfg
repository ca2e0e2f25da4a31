\* Two CPUs, two process slots.
SPECIFICATION Spec
CONSTANTS
  NPROC = 2
  NCPU = 2
  MLFQ_LEVELS = 2
  BOOST_INTERVAL = 2
  mlfq_slice <- MCSlice
  TICK_MOD = 4
  MAX_SEQ = 5
INVARIANTS OneCpuPerProcess SliceRemains ScanPicksBest
PROPERTIES StrictPriority
