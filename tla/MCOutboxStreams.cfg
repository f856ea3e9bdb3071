SPECIFICATION Spec
CONSTANTS
    e1 = e1
    e2 = e2
    e3 = e3
    p1 = p1
    p2 = p2
    key = key
    None = None
    Records = {e1, e2, e3}
    Stream <- TwoStreams
    Key <- SharedKey
    Publishers = {p1, p2}
    RunsLoop = {p1, p2}
    BatchSize = 1
    MaxAttempts = 2
    MaxCrashes = 1
    MaxLate = 1
SYMMETRY PublisherSymmetry
INVARIANTS
    StreamsGapless
    OneRecordPerKey
    NeverOvertaken
