CONSTANTS
    Processes = {"agent"}
    AgentID = "agent"
    MaxAuthorized = 2
    MaxUint = 15
    MaxFaults = 0
    NonceTTL = 1
    MaxNonces = 1
    h1 = h1
    h2 = h2
    Hosts <- MCHosts
    Credentials <- MCCredentials
    c1 = c1
    c2 = c2
    s1 = s1
    s2 = s2
    r1 = r1
    r2 = r2
    Requests <- MCRequests
    MaxIssued = 2
    Initiators <- MCInitiators
    Responders <- MCResponders
    MaxSealed = 2
    Limits = {1, 2, 3}
    MaxMessages = 2
    MaxOutputs = 1
    Device <- MCDevice
    Newer <- MCNewer
    Old <- MCOld
    Casts <- MCCasts
    MaxTime = 2
    MaxChanges = 2
SPECIFICATION Spec
SYMMETRY Alike
INVARIANTS
    AdmittedOnce
    RevokedStaysOut
    SessionsAgree
    CounterUsedOnce
    WithinAgreement
    AckMeansApplied
CHECK_DEADLOCK FALSE
