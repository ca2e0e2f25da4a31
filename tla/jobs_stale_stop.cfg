SPECIFICATION Spec
CONSTANTS
  NPIDS = 2
  MAX_STOPS = 2
  JOBS_MAX = 2
  PENDING_MAX = 12
  NOTIF_MAX = 2
  Pipelines <- Pair
  Redirects <- No
  Timeouts <- No
INVARIANT StopIsNew
CHECK_DEADLOCK FALSE
