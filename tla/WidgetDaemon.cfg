\* The daemon may stop for good: its loop returns.
SPECIFICATION MCSpec
CONSTANTS
  MaxFlows = 2
  MaxAttempts = 1
  MaxDrops = 0
  MaxNotices = 1
  MaxRequests = 2
  AutoConnect = FALSE
  AutoResume = FALSE
  None = None
INVARIANTS AuthenticatingIsBacked IntentIsPending
  
CHECK_DEADLOCK FALSE
