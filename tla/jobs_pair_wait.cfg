SPECIFICATION FairSpec
CONSTANTS
  NPIDS = 2
  MAX_STOPS = 1
  JOBS_MAX = 2
  PENDING_MAX = 12
  NOTIF_MAX = 2
  Pipelines <- Pair
  Redirects <- No
  Timeouts <- No
PROPERTY WaitEnds
CHECK_DEADLOCK FALSE
