SPECIFICATION FairSpec
CONSTANTS
  MaxAttempts = 1
  QueueCap = 2
  Sessions = {s1}
  Kinds = {"nonTunnel"}
  Waiters = {}
  None = None
PROPERTIES
  DisconnectWinsCleanup
