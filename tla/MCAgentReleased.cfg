SPECIFICATION Spec
CONSTANTS
    t1 = t1
    a1 = a1  a2 = a2
    k1 = k1
    r1 = r1  r2 = r2
    d1 = d1  d2 = d2
    x1 = x1
    w1 = w1
    s1 = s1  s2 = s2  s3 = s3  s4 = s4
    na = na  nb = nb
    g1 = g1  g2 = g2  g3 = g3
    c1 = c1  c2 = c2
    None = None
    Parts = {"runs"}
    Tasks = {t1}
    Approvals = {a1, a2}
    Checkpoints = {k1}
    MaxAttempts <- TwoAttempts
    MaxTaskVersion = 4
    Runs = {r1, r2}
    Delegations = {d1, d2}
    Targets = {"READY", "RUNNING", "COMPLETED"}
    Limits <- TwoChildren
    Deltas = {1}
    MaxRunVersion <- RunVersions
    Sessions = {x1}
    Workflows = {w1}
    Steps = {s1, s2, s3, s4}
    Nodes <- Chain
    Rooted <- ChainRoot
    MaxRowVersion <- RowVersions
    Names = {g1, g2, g3}
    MaxEdges = 4
    Calls = {c1, c2}
SYMMETRY RuntimeSymmetry
CHECK_DEADLOCK FALSE
INVARIANT ParentReleased
