SPECIFICATION Spec
CONSTANTS
    p1 = p1
    h1 = h1
    e1 = e1  e2 = e2
    m1 = m1  m2 = m2
    ad1 = ad1  ad2 = ad2
    cr1 = cr1  cr2 = cr2  cr3 = cr3
    ca1 = ca1  ca2 = ca2
    sc1 = sc1
    lk1 = lk1  lk2 = lk2
    ru1 = ru1
    rq1 = rq1  rq2 = rq2
    None = None
    Parts = {"credentials", "catalog", "routes", "requests"}
    FailureThreshold = 1
    HalfOpenTimeout = 1
    CooldownCeiling = 2
    Admins = {ad1, ad2}
    Providers = {p1}
    Endpoints = {e1, e2}
    Hosts = {h1}
    Owner <- OwnerOf
    Credentials = {cr1, cr2, cr3}
    RawIds <- ThreeIds
    MaxSecretVersion = 2
    Callers = {ca1, ca2}
    Scopes = {sc1}
    Locks = {lk1, lk2}
    Rules = {ru1}
    Contents <- TwoContents
    Contexts <- TwoContexts
    Disabled = {}
    MaxRuleVersion = 2
    Requests = {rq1, rq2}
    Streamed = {rq2}
    Models = {m1, m2}
    Routed = {m1}
    Bindings <- ThreeBindings
    Fallback <- FallbackOf
    Outcomes = {"ok", "timeout", "invalid_request"}
    RetryAfter = {1}
    Reports = {FALSE}
    MaxAttempts = 2
    MaxTime = 2
CHECK_DEADLOCK FALSE
INVARIANTS
    RegistrySound
    RoutesPinned
    AnsweredOnce
    ReceiptsTruthful
PROPERTIES
    EveryRequestEnds
