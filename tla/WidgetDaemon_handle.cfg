\* The daemon may stop for good: its loop returns.
SPECIFICATION Spec
CONSTANTS
  MaxFlows = 2
  MaxAttempts = 1
  MaxDrops = 0
  MaxNotices = 2
  MaxRequests = 2
  AutoConnect = FALSE
  AutoResume = FALSE
  None = None
INVARIANTS
  HandleOfRunningFlow
CHECK_DEADLOCK FALSE
