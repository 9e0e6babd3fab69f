SPECIFICATION FairSpec
CONSTANTS
  MaxAttempts = 1
  QueueCap = 1
  Sessions = {s1}
  Kinds = {"tunnel", "scriptTun", "nonTunnel"}
  Waiters = {w1}
  None = None
INVARIANTS
  LifecycleInv
PROPERTIES
  WaitersReturn
  ShutdownCompletes
  CancelledLedgerSettles
  StoppedAttemptReleased
