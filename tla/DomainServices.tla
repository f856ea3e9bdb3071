--------------------------- MODULE DomainServices ---------------------------
(***************************************************************************)
(* The domain modules of the backend, which run their commands the way     *)
(* Transactions describes: studio, production, live_record, quality,       *)
(* workspace, automation and memory.                                       *)
(*                                                                         *)
(* No command of one of them touches the tables of another: a behaviour    *)
(* exercises the requests of one part, any of them.  The parts of one      *)
(* module share its tables; each has the requests that make what it needs. *)
(***************************************************************************)
EXTENDS Integers

CONSTANTS
    Parts,                                                 \* the parts to exercise
    Calls, None, Unstated, MaxVersion,
    Projects, Roots, Hashes, Texts,
    Series, Episodes, Artifacts, Characters, Locations, Props, Storyboards, Panels, MaxPanels,
    Targets,
    Assets, AssetRevisions, Tracks, MixPlans, CodeVideos, RenderJobs, Edls,
    Scenes, Actions, Leaks, Sessions, MaxPlans, MaxTakes, MaxEvents, PlanTargets,
    Datasets, Cases, EvalRuns, Metrics, Reports, Gates, Comparisons, Scores, Thresholds,
    Workspaces, Slugs, Snapshots, Users, BoundProjects, Resources, Limits,
    ToolCalls, Processes, Tools, Names, ToolRuns, Definitions,
    Memories, Named, MemoryKeys, MemoryValues, Scopes, Owners, Ttls, Claims

VARIABLES
    part,                          \* the part exercised
    row, call, told,               \* see Transactions
    registry, mirror, exec         \* see Automation

S == INSTANCE Studio
P == INSTANCE Production
L == INSTANCE LiveRecord
Q == INSTANCE Quality
W == INSTANCE Workspace
A == INSTANCE Automation WITH Calls <- ToolCalls
M == INSTANCE Memory

StudioParts == {"catalog", "world", "episodes", "boards"}
ProductionParts == {"projects", "assets", "media", "edls"}
LiveRecordParts == {"plans", "takes", "sessions"}
QualityParts == {"evaluation", "verification"}
WorkspaceParts == {"workspaces", "members", "quotas", "locks"}

ASSUME DomainAssumption ==
    /\ Parts \subseteq UNION {StudioParts, ProductionParts, LiveRecordParts, QualityParts,
                              WorkspaceParts, {"automation", "memory"}}
    /\ Unstated \subseteq {None}
    /\ Named \subseteq Memories
    /\ Scopes \subseteq M!MemoryScope /\ Claims \subseteq M!ValidationStatus
    /\ Definitions \subseteq A!ToolDefinition
    /\ Targets \subseteq S!EpisodeState
    /\ PlanTargets \subseteq DOMAIN L!PlanTransitions

\* None is no row, no execution, no version and nothing that is told, and names no row.
ASSUME NoneAssumption ==
    /\ None \notin Nat /\ None \notin BOOLEAN
    /\ None \notin Projects /\ None \notin P!Revisions /\ None \notin L!Plans
    /\ None \notin {"created", "updated", "deleted", "superseded", "omitted"}
    /\ None \notin S!Project /\ None \notin S!SeriesRow /\ None \notin S!Episode
    /\ None \notin S!Revision
    /\ None \notin P!VideoProject /\ None \notin P!ProductionRevision
    /\ None \notin P!ProductionAsset /\ None \notin P!AssetRevision
    /\ None \notin P!EditDecisionList
    /\ None \notin L!LiveExecutionPlan /\ None \notin L!RecordingTake
    /\ None \notin L!RecordingSegment /\ None \notin L!RecordingEvent
    /\ None \notin L!DirectorSession /\ None \notin (SUBSET Scenes) \X L!ActionLists
    /\ None \notin A!ToolRunRow /\ None \notin A!Execution

Separate(tables) ==
    \A i, j \in DOMAIN tables : i # j => tables[i] \intersect tables[j] = {}

\* Identifiers of different tables of a module differ.
ASSUME IdsAssumption ==
    /\ Separate(<<Projects, Series, Episodes, S!Revisions,
                  UNION {Artifacts, Characters, Locations, Props, Storyboards}>>)
    /\ Separate(<<Projects, P!Revisions, Assets, AssetRevisions, Edls,
                  UNION {Tracks, MixPlans, CodeVideos, RenderJobs}>>)
    /\ Separate(<<L!Plans, L!Takes, L!Segments, L!Events, Sessions>>)
    /\ Separate(<<Tools, ToolRuns>>)

ASSUME BoundsAssumption == MaxEvents \in Nat

processVars == <<registry, mirror, exec>>
vars == <<part, row, call, told, processVars>>

Init ==
    /\ part \in Parts
    /\ \/ part \in StudioParts /\ S!StudioInit
       \/ part \in ProductionParts /\ P!ProductionInit
       \/ part \in LiveRecordParts /\ L!LiveRecordInit
       \/ part \in QualityParts /\ Q!QualityInit
       \/ part \in WorkspaceParts /\ W!WorkspaceInit
       \/ part = "memory" /\ M!MemoryInit
       \/ part = "automation" /\ A!AutomationInit
    /\ part # "automation" => registry = None /\ mirror = None /\ exec = None

Tables ==
    \/ part = "catalog" /\ S!StudioCatalogNext
    \/ part = "world" /\ S!StudioWorldNext
    \/ part = "episodes" /\ S!StudioEpisodesNext
    \/ part = "boards" /\ S!StudioBoardsNext
    \/ part = "projects" /\ P!ProductionProjectsNext
    \/ part = "assets" /\ P!ProductionAssetsNext
    \/ part = "media" /\ P!ProductionMediaNext
    \/ part = "edls" /\ P!ProductionEdlsNext
    \/ part = "plans" /\ L!LiveRecordPlansNext
    \/ part = "takes" /\ L!LiveRecordTakesNext
    \/ part = "sessions" /\ L!LiveRecordSessionsNext
    \/ part = "evaluation" /\ Q!QualityRunsNext
    \/ part = "verification" /\ Q!QualityReportsNext
    \/ part = "workspaces" /\ W!WorkspaceLifecycleNext
    \/ part = "members" /\ W!WorkspaceMembersNext
    \/ part = "quotas" /\ W!WorkspaceQuotasNext
    \/ part = "locks" /\ W!WorkspaceLocksNext
    \/ part = "memory" /\ M!MemoryNext

Next ==
    \/ Tables /\ UNCHANGED <<part, processVars>>
    \/ part = "automation" /\ A!AutomationNext /\ UNCHANGED part

Spec == Init /\ [][Next]_vars

-----------------------------------------------------------------------------
(* Properties *)

\* The rows of every table are of its type, and so is what a process holds in memory.
TypeOK ==
    /\ part \in StudioParts => S!StudioTypeOK
    /\ part \in ProductionParts => P!ProductionTypeOK
    /\ part \in LiveRecordParts => L!LiveRecordTypeOK
    /\ part \in QualityParts => Q!QualityTypeOK
    /\ part \in WorkspaceParts => W!WorkspaceTypeOK
    /\ part = "memory" => M!MemoryTypeOK
    /\ part = "automation" => A!AutomationTypeOK

\* However commands race, a row that names another one names one that is there and
\* belongs to it: a project its series and its current revision, a series its episodes,
\* an episode its revision, an asset its active revision, a take its plan.  And the
\* events of a take are numbered from zero without a gap, however appends race, and the
\* outbox has told of the last of them.
RowsLinked ==
    /\ part \in StudioParts => S!StudioLinked
    /\ part \in ProductionParts => P!ProductionLinked
    /\ part \in LiveRecordParts => L!LiveRecordLinked /\ L!EventsGapless

\* An episode moves along EpisodeStateMachine.TRANSITIONS from the state it really is
\* in, though commands are checked against the state they have read, until it is updated
\* for a request that leaves expected_version out; and a locked revision, of an episode
\* or of a video project, stays as it is, whoever locks it or derives from it again,
\* with a version or without.
LifecyclesKept ==
    [][/\ part \in StudioParts => S!EpisodeMoves /\ S!LockedKept
       /\ part \in ProductionParts => P!LockedKept]_vars

\* However commands on it race, an evaluation run is announced as completed only with
\* metrics stored, each of which has evidence and reaches its threshold.
CompletedEarned == [][(part \in QualityParts) => Q!CompletionEarned]_vars

\* Whatever fails on the way, the record of a run of a tool tells the truth about it.
RunsTruthful == part = "automation" => A!RunsTruthful

\* Of two locks granted on a resource of a workspace one after the other, the later one
\* has the larger fencing token, as docs/migration/PHASE_WORKSPACE.md says.  It does not
\* hold.
FencingTokensMonotonic == [][(part \in WorkspaceParts) => W!TokensGrow]_vars

\* The content of a memory whose identifier the service made up never changes under an
\* unchanged version, whatever is saved and deleted under identifiers that callers choose.
ContentVersioned == [][part = "memory" => M!ContentStep]_vars
=============================================================================
