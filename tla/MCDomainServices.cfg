SPECIFICATION Spec
CONSTANTS
    None = None
    Parts = {"catalog", "world", "episodes", "boards", "projects", "assets", "media", "edls",
             "plans", "takes", "sessions", "evaluation", "verification",
             "workspaces", "members", "quotas", "locks", "automation", "memory"}
    Calls = {c1, c2}
    Unstated = {None}
    MaxVersion <- Bounds
    Projects = {pj1}
    Roots = {rt1}
    Hashes = {h1}
    Texts = {x1, x2}
    Series = {se1}
    Episodes = {ep1}
    Artifacts = {ar1}
    Characters = {ch1}
    Locations = {lo1}
    Props = {pp1}
    Storyboards = {sb1}
    Panels = {y1, y2}
    MaxPanels = 2
    Targets = {"IDEA_REVIEW", "STORY_BIBLE_REVIEW", "OUTLINE_REVIEW", "SCREENPLAY_REVIEW", "LOCKED"}
    Assets = {as1}
    AssetRevisions = {y1, y2}
    Tracks = {tr1}
    MixPlans = {mx1}
    CodeVideos = {cv1}
    RenderJobs = {rj1}
    Edls = {ed1}
    Scenes = {sn1}
    Actions = {ac1}
    Leaks = {ac1}
    Sessions = {ds1}
    MaxPlans = 1
    MaxTakes = 1
    MaxEvents = 2
    PlanTargets = {"PREPARED", "VALIDATED", "FROZEN"}
    Datasets = {da1}
    Cases = {y1, y2}
    EvalRuns = {er1}
    Metrics = {x1, x2}
    Reports = {vr1}
    Gates = {y1, y2}
    Comparisons = {bc1}
    Scores = {60, 70}
    Thresholds = {70}
    Workspaces = {ws1}
    Slugs = {y1, y2}
    Snapshots = {ss1}
    Users = {x1, x2}
    BoundProjects = {y1, y2}
    Resources = {re1}
    Limits = {1, 2}
    ToolCalls = {c1}
    Processes = {x1, x2}
    Tools = {y1}
    Names = {nm1}
    ToolRuns = {xr1}
    Definitions <- DangerousTool
    Memories = {m1, m2}
    Named = {m1}
    MemoryKeys = {mk1}
    MemoryValues = {y1, y2}
    Scopes = {"policy"}
    Owners = {}
    Ttls = {FALSE}
    Claims = {"validated"}
SYMMETRY Symmetry
CHECK_DEADLOCK FALSE
INVARIANTS
    RowsLinked
    RunsTruthful
PROPERTIES
    LifecyclesKept
    CompletedEarned
    ContentVersioned
