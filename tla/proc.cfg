SPECIFICATION FairSpec
CONSTANTS
  NPROC = 3
  MAX_PID = 3
  KillArgs <- UserPids
  Status <- MCStatus
INVARIANTS WaitNotLost ParentAlive
PROPERTIES OrphansReaped
