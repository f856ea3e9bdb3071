SPECIFICATION FairSpec
CONSTANTS
    j1 = j1
    w1 = w1
    w2 = w2
    None = None
    Jobs = {j1}
    Workers = {w1, w2}
    MaxAttempts <- MCMaxAttempts
    Priority <- MCPriority
    Deadline <- MCDeadline
    Key <- MCKey
    LeaseLen = 1
    Delays = {0, 1}
    Skew = 0
    Handled <- FirstHandles
    HasTimeout = {j1}
    BaseDelay = 1
    MaxDelay = 1
    MaxFaults = 2
    MaxCancels = 1
INVARIANTS
    ReportTruthful
    GracefulStopReleases
PROPERTIES
    UsesQueue
    EveryJobEnds
