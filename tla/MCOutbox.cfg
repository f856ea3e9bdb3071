SPECIFICATION FairSpec
CONSTANTS
    e1 = e1
    e2 = e2
    e3 = e3
    p1 = p1
    p2 = p2
    key = key
    None = None
    Records = {e1, e2}
    Stream <- OneStream
    Key <- NoKey
    Publishers = {p1, p2}
    RunsLoop = {p1, p2}
    BatchSize = 2
    MaxAttempts = 2
    MaxCrashes = 1
    MaxLate = 1
INVARIANTS
    ClaimsExclusive
    FinalizedTruthfully
    DeadLettersNotified
PROPERTIES
    EveryRecordEnds
