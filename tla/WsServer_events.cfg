SPECIFICATION EventsSpec
CONSTANTS Sessions = {s1} Conns = {c1, c2} Attempts = {} MaxPending = 1 None = None QueueCap = 2 MaxRevision = 3 Requests = {"resync"} MaxVpn = 4 PairVpn = 1 MaxBinding = 0 MaxTunnel = 0
SYMMETRY Symmetry
CHECK_DEADLOCK FALSE
INVARIANTS StreamContiguous
PROPERTIES ImplementsRegistry
