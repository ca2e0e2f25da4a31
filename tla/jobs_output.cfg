SPECIFICATION Spec
CONSTANTS
  NPIDS = 2
  MAX_STOPS = 1
  JOBS_MAX = 2
  PENDING_MAX = 12
  NOTIF_MAX = 2
  Pipelines <- Single
  Redirects <- Yes
  Timeouts <- No
INVARIANT FinalizedHasExited
CHECK_DEADLOCK FALSE
