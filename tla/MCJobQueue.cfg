SPECIFICATION Spec
CONSTANTS
    j1 = j1
    j2 = j2
    w1 = w1
    w2 = w2
    key = key
    None = None
    Jobs = {j1, j2}
    Workers = {w1, w2}
    MaxAttempts <- TwoMaxAttempts
    Priority <- TwoPriority
    Deadline <- TwoDeadline
    Key <- TwoKey
    LeaseLen = 2
    Delays = {0, 2}
    Skew = 1
SYMMETRY WorkerSymmetry
INVARIANTS
    LedgerAgrees
    OneEventPerOutcome
    ResultOfLastAttempt
    IdempotentSubmission
PROPERTIES
    TerminalFrozen
    LiveClaimRespected
    KeepsPromise
