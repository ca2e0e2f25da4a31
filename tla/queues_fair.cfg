SPECIFICATION Spec
CONSTANTS
  NPROC = 3
  MLFQ_LEVELS = 2
  BOOST_INTERVAL = 3
  mlfq_slice <- MCSlice
PROPERTIES NoStarvation
