\* A batch of two files for s1, or any requests for s2, or two sessions s3 and s4
\* that follow one another; the quotas are reached, two file system calls fail,
\* the connection is lost once.
CONSTANTS
    s1 = s1
    s2 = s2
    s3 = s3
    s4 = s4
    Observed = {s1}
    Casts <- MCCasts
    x = x
    y = y
    Sessions = {s1, s2, s3, s4}
    Uploader = s1
    Ids = {x, y}
    Batch <- MCBatch
    Requests <- MCRequests
    MaxFile = 2
    MaxSession = 3
    MaxChunk = 1
    MaxActive = 2
    MaxAggregate = 3
    MaxCancelled = 1
    MaxSelection = 2
    MaxFaults = 2
    MaxCrashes = 1
    MaxDrops = 1
SPECIFICATION Spec
INVARIANTS
    QuotaExact
    PublishedVerified
    NothingLeftBehind
    BatchAllOrNothing
PROPERTIES
    BatchSettles
CHECK_DEADLOCK FALSE
