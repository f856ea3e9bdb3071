----------------------------- MODULE Production -----------------------------
(***************************************************************************)
(* Video production: projects and their revisions, assets, audio, code     *)
(* videos, render jobs and edit decision lists.  ProductionService         *)
(* (modules/production/application/services.py) over SqlProductionStore    *)
(* (infrastructure/repository.py).                                         *)
(*                                                                         *)
(* Where a table has a version, the service compares it with the row it    *)
(* has read; only projects and revisions are also updated conditionally.   *)
(***************************************************************************)
EXTENDS Transactions

CONSTANTS
    Projects, Assets, AssetRevisions, Tracks, MixPlans, CodeVideos, RenderJobs, Edls,
    Roots,       \* revisions made by create_revision
    Hashes,      \* content hashes
    Texts        \* titles, descriptions, metadata

\* RevisionService.derive_revision names a revision after its parent and its content.
Revisions == Roots \union (Roots \X Hashes)

ProductionIds == Projects \union Revisions \union Assets \union AssetRevisions \union Tracks
                    \union MixPlans \union CodeVideos \union RenderJobs \union Edls

ProductionInit ==
    /\ row = [id \in ProductionIds |-> None]
    /\ call = [c \in Calls |-> None]
    /\ told = [id \in ProductionIds |-> None]

Maybe(set) == set \union {None}

-----------------------------------------------------------------------------
(* Lifecycles *)

ProjectStatus == {"DRAFT", "PLANNING", "PRODUCTION", "REVIEW", "COMPLETED", "ARCHIVED"}

\* _ALLOWED_TRANSITIONS
AssetTransitions ==
    [DISCOVERED |-> {"DOWNLOADED"}, DOWNLOADED |-> {"VALIDATED"},
     VALIDATED |-> {"LICENSE_UNKNOWN", "QUARANTINED", "APPROVED", "REJECTED"},
     LICENSE_UNKNOWN |-> {"QUARANTINED", "APPROVED", "REJECTED"},
     QUARANTINED |-> {"APPROVED", "REJECTED"}, APPROVED |-> {"BOUND_TO_PROJECT"},
     REJECTED |-> {"APPROVED"}, BOUND_TO_PROJECT |-> {}]

\* AssetStateMachine.can_transition: what was rejected or quarantined is approved
\* on a new review only.
CanTransition(from, to, reviewed) ==
    /\ to \in AssetTransitions[from]
    /\ from \in {"REJECTED", "QUARANTINED"} /\ to = "APPROVED" => reviewed

CodeVideoTransitions ==
    [DRAFT |-> {"BUILDING", "FAILED", "CANCELLED"}, BUILDING |-> {"VERIFIED", "FAILED", "CANCELLED"},
     VERIFIED |-> {"RENDERING", "FAILED", "CANCELLED"},
     RENDERING |-> {"COMPLETED", "FAILED", "CANCELLED"},
     COMPLETED |-> {}, FAILED |-> {"DRAFT"}, CANCELLED |-> {"DRAFT"}]

RenderTransitions ==
    [QUEUED |-> {"RENDERING", "CANCELLED"}, RENDERING |-> {"COMPLETED", "FAILED", "CANCELLED"},
     COMPLETED |-> {}, FAILED |-> {"QUEUED"}, CANCELLED |-> {"QUEUED"}]

-----------------------------------------------------------------------------
(* Rows *)

VideoProject == [title : Texts, status : ProjectStatus, meta : Texts,
                 current : Maybe(Revisions), version : Nat]

ProductionRevision == [project : Projects, parent : Maybe(Revisions), hash : Hashes,
                       locked : BOOLEAN, intent : {"NONE", "ALL", None}, version : Nat]

ProductionAsset == [project : Maybe(Projects), state : DOMAIN AssetTransitions,
                    active : Maybe(AssetRevisions), version : Nat]

AssetRevision == [asset : Assets, hash : Hashes, version : {0}]

AudioTrack == [project : Projects, version : {0}]

AudioMixPlan == [project : Projects, tracks : SUBSET Tracks, version : {0}]

CodeVideoProject == [status : DOMAIN CodeVideoTransitions, version : Nat]

RenderJob == [project : Projects, status : DOMAIN RenderTransitions, output : Maybe(Hashes),
              version : Nat]

EditDecisionList == [project : Projects, revision : Revisions, status : {"DRAFT", "PUBLISHED"},
                     version : {0}]

-----------------------------------------------------------------------------
(* The store *)

InsertProject(p, text) ==
    Insert(p, [title |-> text, status |-> "DRAFT", meta |-> text, current |-> None, version |-> 0])

\* Every column is optional, and so is the condition on the version.
UpdateProject(p, set, expected) == Update(p, Given(set), expected)

InsertRevision(r, p, parent, hash, intent) ==
    Insert(r, [project |-> p, parent |-> parent, hash |-> hash, locked |-> FALSE,
               intent |-> intent, version |-> 0])

UpdateRevision(r, set, expected) == Update(r, set, expected)

InsertAsset(a, p) ==
    Insert(a, [project |-> p, state |-> "DISCOVERED", active |-> None, version |-> 0])

\* update_asset and its like are conditional on an "expected_version" among the
\* values, which the service never passes.
UpdateAsset(a, set) == Update(a, set, None)

InsertAssetRevision(n, a, hash) == Insert(n, [asset |-> a, hash |-> hash, version |-> 0])

InsertAudioTrack(t, p) == Insert(t, [project |-> p, version |-> 0])

InsertMixPlan(x, p, tracks) == Insert(x, [project |-> p, tracks |-> tracks, version |-> 0])

InsertCodeVideo(v) == Insert(v, [status |-> "DRAFT", version |-> 0])

UpdateCodeVideo(v, set) == Update(v, set, None)

InsertRenderJob(j, p) ==
    Insert(j, [project |-> p, status |-> "QUEUED", output |-> None, version |-> 0])

UpdateRenderJob(j, set) == Update(j, set, None)

InsertEdl(d, p, r) ==
    Insert(d, [project |-> p, revision |-> r, status |-> "DRAFT", version |-> 0])

UpdateEdl(d, set) == Update(d, set, None)

\* ProductionEvents: an event of a row, and the state that it names
Says(id, what) == [x \in {id} |-> what]

-----------------------------------------------------------------------------
(* Projects and revisions *)

CreateProject(c, p, text) ==
    /\ ~Present(p)
    /\ Begin(c, {InsertProject(p, text)}, Says(p, "created"))

\* A new title and new metadata in one request fail, unless the status is new too: the
\* version they share is looked up before it is set.
EditProject(c, p, patch, expected) ==
    LET changed == Changed(p, patch)
    IN  /\ expected \in Stated(p)
        /\ DOMAIN changed # {}
        /\ {"title", "meta"} \subseteq DOMAIN changed => "status" \in DOMAIN changed
        /\ Begin(c, {UpdateProject(p, Bumped(p, changed), expected)}, Says(p, "updated"))

\* The project gets its current revision unless it has changed since it was read.
Points(p, r) ==
    [UpdateProject(p, Bumped(p, [current |-> r]), row[p].version) EXCEPT !.must = FALSE]

CreateRevision(c, r, p, parent, hash) ==
    /\ Present(p)
    /\ parent # None => Present(parent)
    /\ Begin(c, {InsertRevision(r, p, parent, hash, None)}
                \union (IF row[p].current = None THEN {Points(p, r)} ELSE {}), Says(r, "created"))

DeriveRevision(c, parent, hash, intent, expected) ==
    LET p == row[parent].project
    IN  /\ expected \in Stated(parent)
        /\ row[parent].locked => intent = "ALL"
        /\ Begin(c, {InsertRevision(<<parent, hash>>, p, parent, hash, intent)}
                    \union (IF Present(p) THEN {Points(p, <<parent, hash>>)} ELSE {}),
                 Says(<<parent, hash>>, "created"))

\* Mutant of MayLock: a revision may be locked again.
MayLockAgain(r, hash) == hash \in {None, row[r].hash}

\* RevisionService.lock_revision
MayLock(r, hash) == ~row[r].locked /\ hash \in {None, row[r].hash}

LockRevision(c, r, hash, expected) ==
    /\ expected \in Stated(r)
    /\ MayLock(r, hash)
    /\ Begin(c, {UpdateRevision(r, Bumped(r, [locked |-> TRUE]), expected)}, Says(r, "locked"))

-----------------------------------------------------------------------------
(* Assets and audio *)

CreateAsset(c, a, p) ==
    /\ p # None => Present(p)
    /\ Begin(c, {InsertAsset(a, p)}, Says(a, "DISCOVERED"))

\* transition_asset: the move is checked from the state that was read.
TransitionAsset(c, a, target, reviewed, expected) ==
    /\ expected \in Stated(a)
    /\ CanTransition(row[a].state, target, reviewed)
    /\ Begin(c, {UpdateAsset(a, Bumped(a, [state |-> target]))}, Says(a, target))

CreateAssetRevision(c, n, a, hash) ==
    /\ Present(a)
    /\ Begin(c, {InsertAssetRevision(n, a, hash), UpdateAsset(a, Bumped(a, [active |-> n]))},
             Says(n, "created"))

CreateAudioTrack(c, t, p) ==
    /\ Present(p)
    /\ Begin(c, {InsertAudioTrack(t, p)}, Says(t, "created"))

\* The tracks are not looked up.
CreateMixPlan(c, x, p, tracks) ==
    /\ Present(p)
    /\ Begin(c, {InsertMixPlan(x, p, tracks)}, Says(x, "created"))

-----------------------------------------------------------------------------
(* Code videos, render jobs, edit decision lists *)

CreateCodeVideo(c, v) ==
    /\ ~Present(v)
    /\ Begin(c, {InsertCodeVideo(v)}, Says(v, "DRAFT"))

TransitionCodeVideo(c, v, target, expected) ==
    /\ expected \in Stated(v)
    /\ target \in CodeVideoTransitions[row[v].status]
    /\ Begin(c, {UpdateCodeVideo(v, Bumped(v, [status |-> target]))}, Says(v, target))

CreateRenderJob(c, j, p) ==
    /\ Present(p)
    /\ Begin(c, {InsertRenderJob(j, p)}, Says(j, "QUEUED"))

TransitionRenderJob(c, j, target, output, expected) ==
    /\ expected \in Stated(j)
    /\ target \in RenderTransitions[row[j].status]
    /\ Begin(c, {UpdateRenderJob(j, Given(Bumped(j, [status |-> target, output |-> output])))},
             Says(j, target))

\* The revision need not be one of the project.
CreateEdl(c, d, p, r) ==
    /\ Present(p) /\ Present(r)
    /\ Begin(c, {InsertEdl(d, p, r)}, Says(d, "DRAFT"))

EditEdl(c, d, status) ==
    /\ Present(d)
    /\ Begin(c, {UpdateEdl(d, [status |-> status])}, Says(d, "updated"))

-----------------------------------------------------------------------------
(* What is asked for through the routes *)

ProjectRequests(c) ==
    \/ \E p \in Projects, text \in Texts : CreateProject(c, p, text)
    \/ \E p \in Projects, t, m \in Maybe(Texts), s \in {"ARCHIVED", None} : \E v \in Stated(p) :
          EditProject(c, p, [title |-> t, meta |-> m, status |-> s], v)

\* An intent of "NONE" is like none.
RevisionRequests(c) ==
    \/ \E p \in Projects, hash \in Hashes, r \in Roots, parent \in Maybe(Revisions) :
          CreateRevision(c, r, p, parent, hash)
    \/ \E parent \in Roots, hash \in Hashes, intent \in {"ALL", None} :
          \E v \in Stated(parent) : DeriveRevision(c, parent, hash, intent, v)
    \/ \E r \in Revisions, hash \in Maybe(Hashes) : \E v \in Stated(r) :
          LockRevision(c, r, hash, v)

AssetRequests(c) ==
    \/ \E a \in Assets, p \in Maybe(Projects) : CreateAsset(c, a, p)
    \/ \E a \in Assets, target \in DOMAIN AssetTransitions, reviewed \in BOOLEAN :
          \E v \in Stated(a) : TransitionAsset(c, a, target, reviewed, v)
    \/ \E n \in AssetRevisions, a \in Assets, hash \in Hashes : CreateAssetRevision(c, n, a, hash)

AudioRequests(c) ==
    \E p \in Projects :
        \/ \E t \in Tracks : CreateAudioTrack(c, t, p)
        \/ \E x \in MixPlans, tracks \in SUBSET Tracks : CreateMixPlan(c, x, p, tracks)

CodeVideoRequests(c) ==
    \E v \in CodeVideos :
        \/ CreateCodeVideo(c, v)
        \/ \E target \in DOMAIN CodeVideoTransitions : \E n \in Stated(v) :
              TransitionCodeVideo(c, v, target, n)

RenderRequests(c) ==
    \E j \in RenderJobs :
        \/ \E p \in Projects : CreateRenderJob(c, j, p)
        \/ \E target \in DOMAIN RenderTransitions, output \in Maybe(Hashes) : \E n \in Stated(j) :
              TransitionRenderJob(c, j, target, output, n)

EdlRequests(c) ==
    \E d \in Edls : \/ \E p \in Projects, r \in Revisions : CreateEdl(c, d, p, r)
                    \/ EditEdl(c, d, "PUBLISHED")

SomeProject(c) == \E p \in Projects, text \in Texts : CreateProject(c, p, text)

\* Each group with what makes the rows it needs.
ProductionProjectsNext == Finish \/ \E c \in Calls : ProjectRequests(c) \/ RevisionRequests(c)

ProductionAssetsNext == Finish \/ \E c \in Calls : SomeProject(c) \/ AssetRequests(c)

ProductionMediaNext ==
    Finish \/ \E c \in Calls : SomeProject(c) \/ AudioRequests(c) \/ RenderRequests(c)

ProductionEdlsNext ==
    \/ Finish
    \/ \E c \in Calls :
          \/ SomeProject(c) \/ EdlRequests(c) \/ CodeVideoRequests(c)
          \/ \E p \in Projects, hash \in Hashes, r \in Roots : CreateRevision(c, r, p, None, hash)

-----------------------------------------------------------------------------
(* Properties *)

ProductionTypeOK ==
    /\ \A p \in Projects : row[p] \in Maybe(VideoProject)
    /\ \A r \in Revisions : row[r] \in Maybe(ProductionRevision)
    /\ \A a \in Assets : row[a] \in Maybe(ProductionAsset)
    /\ \A n \in AssetRevisions : row[n] \in Maybe(AssetRevision)
    /\ \A t \in Tracks : row[t] \in Maybe(AudioTrack)
    /\ \A x \in MixPlans : row[x] \in Maybe(AudioMixPlan)
    /\ \A v \in CodeVideos : row[v] \in Maybe(CodeVideoProject)
    /\ \A j \in RenderJobs : row[j] \in Maybe(RenderJob)
    /\ \A d \in Edls : row[d] \in Maybe(EditDecisionList)

\* However commands race, the current revision of a project and the active one of an
\* asset are there and belong to it, and so is what a revision or an edit decision
\* list is made from.
ProductionLinked ==
    /\ \A p \in Projects : Present(p) /\ row[p].current # None =>
          Present(row[p].current) /\ row[row[p].current].project = p
    /\ \A a \in Assets : Present(a) /\ row[a].active # None =>
          Present(row[a].active) /\ row[row[a].active].asset = a
    /\ \A r \in Revisions : Present(r) =>
          /\ Present(row[r].project)
          /\ row[r].parent # None => Present(row[r].parent)
    /\ \A d \in Edls : Present(d) => Present(row[d].project) /\ Present(row[d].revision)

\* A locked revision stays as it is, whoever locks it or derives from it again, and
\* whether they state a version or not.
LockedKept == \A r \in Revisions : Present(r) /\ row[r].locked => row'[r] = row[r]
=============================================================================
