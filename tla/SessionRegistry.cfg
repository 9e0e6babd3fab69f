SPECIFICATION FairSpec
CONSTANTS Sessions = {s1} Conns = {c1, c2} Attempts = {a1, a2} MaxPending = 1 None = None
CHECK_DEADLOCK FALSE
INVARIANTS RegistryInv TokenHasHolder ServedIsAttached NonTunnelFollowsAttachment
PROPERTIES OnlyOwnAttemptsCancelled HandshakeSettles
