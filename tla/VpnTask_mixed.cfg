SPECIFICATION Spec
CONSTANTS
  MaxAttempts = 2
  QueueCap = 2
  Sessions = {s1}
  Kinds = {"scriptTun", "nonTunnel"}
  Waiters = {}
  None = None
INVARIANTS
  AdmissionHeld
  CompletionMeansDrained
  ServiceLedgerHasOwner
  StopIsSticky
  IdleStateIsFinal
  RestartMatchesState
  RestartNotStopped
PROPERTIES
  NoConnectedAfterStop
  ImplementsOwnership
