SPECIFICATION ProcessSpec
CONSTANTS
    m1 = m1
    m2 = m2
    m3 = m3
    m4 = m4
    s1 = s1
    s2 = s2
    None = None
    Parts = {"hub", "bus", "limiter", "loader"}
    Calls = {m1, m2, m3, m4}
    Subscribers = {s1, s2}
    MayLeave = {s1}
    ReplayCapacity = 3
    Capacity = 2
    EventTypes = {t1}
    Handlers = {h1, h2}
    Handles = {i1, i2, i3}
    Dispatches = {d1}
    Versions = {1, 2}
    Clients = {c1, c2, c3}
    Limit = 2
    Window = 3
    MaxTrackedKeys = 2
    Second = 2
    ModuleIds = {1, 2}
    Keys = {m1, m2}
    Manifests <- SmallManifests
    MaxManifests = 2
CHECK_DEADLOCK FALSE
INVARIANTS
    CompleteStream
    EventsServed
    LimitKept
    LoadedWhole
PROPERTIES
    PublishReturns
