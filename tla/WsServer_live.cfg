SPECIFICATION LiveSpec
CONSTANTS Sessions = {s1} Conns = {c1} Attempts = {} MaxPending = 1 None = None QueueCap = 1 MaxRevision = 9 Requests = {"on", "off"} MaxVpn = 1 PairVpn = 1 MaxBinding = 1 MaxTunnel = 1
CHECK_DEADLOCK FALSE
INVARIANTS SamplesAreCurrent DemandFollowsBinding
PROPERTIES DemandEnds ViewSettles
