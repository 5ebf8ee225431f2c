CONSTANTS
    Processes = {"agent", "relay"}
    AgentID = "agent"
    MaxAuthorized = 2
    MaxUint = 7
    MaxFaults = 0
    TTL = 2
    Skew = 1
    AdminLifetimes = {1, 3}
    Checks = {"k1", "k2"}
    MaxTickets = 2
    MaxPause = 1
    Lifetime = 1
    MaxReqs = 1
    Window = 1
    Depth = 1
    Device <- MCDevice
    Old <- MCOld
    Casts <- MCCasts
    MaxRoutes = 1
    MaxTime = 3
    MaxStops = 1
    MaxFrames = 3
SPECIFICATION Spec
INVARIANTS
    AcceptedOnce
    ReplayIsExact
    RevokedTicketsStayOut
    BridgeInOrder
PROPERTIES
    RouteEnds
CHECK_DEADLOCK FALSE
