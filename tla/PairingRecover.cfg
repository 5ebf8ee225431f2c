\* recover --revoke-all while the Agent is running.
CONSTANTS
    d1 = d1
    d2 = d2
    agent = agent
    k1 = k1
    k2 = k2
    Processes = {"agent", "recover"}
    AgentID = agent
    MaxAuthorized = 2
    MaxUint = 3
    MaxFaults = 1
    Connections = {"c1", "c2", "c3"}
    Client <- MCClient
    TTL = 2
    ApprovalTimeout = 1
    MaxInvitations = 2
    MaxTime = 2
    Exclusive = FALSE
    MaxStops = 3
    Casts = {{"c1", "c2"}, {"c1", "c3", "recover"}}
SPECIFICATION PairingSpec
INVARIANTS
    RevokeAllSticks
CHECK_DEADLOCK FALSE
