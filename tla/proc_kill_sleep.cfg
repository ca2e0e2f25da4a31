SPECIFICATION FairSpec
CONSTANTS
  NPROC = 3
  MAX_PID = 3
  KillArgs <- UserPids
  Status <- MCStatus
PROPERTY VictimExits
