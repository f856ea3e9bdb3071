------------------------------- MODULE Studio -------------------------------
(***************************************************************************)
(* The creative studio: projects, series, episodes and their revisions,    *)
(* artifacts, characters, the world and storyboards.  StudioService        *)
(* (modules/studio/application/services.py) over SqlStudioStore            *)
(* (infrastructure/repository.py).                                         *)
(*                                                                         *)
(* Titles and metadata are members of Texts; a description is like the     *)
(* metadata.                                                               *)
(***************************************************************************)
EXTENDS Transactions, Sequences, SequencesExt

CONSTANTS
    Projects, Series, Episodes, Artifacts, Characters, Locations, Props, Storyboards,
    Roots,       \* revisions made by create_revision
    Hashes,      \* content hashes
    Texts,
    Panels,      \* ids of panels
    MaxPanels,   \* bound on the panels of a storyboard
    Targets      \* states that transitions are asked for

\* derive_revision names the new revision after its parent and its content.
Revisions == Roots \union (Roots \X Hashes)

StudioIds == Projects \union Series \union Episodes \union Artifacts \union Characters
                \union Locations \union Props \union Storyboards \union Revisions

Boards == SeqOf(Panels, MaxPanels)

EpisodeState == {"DRAFT", "IDEA_REVIEW", "STORY_BIBLE_REVIEW", "OUTLINE_REVIEW",
                 "SCREENPLAY_REVIEW", "REVISING", "LOCKED", "READY_FOR_PRODUCTION",
                 "FAILED", "CANCELLED"}

Ended == {"FAILED", "CANCELLED"}

Reviews == {"IDEA_REVIEW", "STORY_BIBLE_REVIEW", "OUTLINE_REVIEW", "SCREENPLAY_REVIEW"}

\* EpisodeStateMachine.TRANSITIONS
Transitions ==
    [DRAFT |-> {"IDEA_REVIEW"} \union Ended,
     IDEA_REVIEW |-> {"DRAFT", "STORY_BIBLE_REVIEW", "REVISING"} \union Ended,
     STORY_BIBLE_REVIEW |-> {"DRAFT", "OUTLINE_REVIEW", "REVISING"} \union Ended,
     OUTLINE_REVIEW |-> {"DRAFT", "SCREENPLAY_REVIEW", "REVISING"} \union Ended,
     SCREENPLAY_REVIEW |-> {"DRAFT", "LOCKED", "REVISING"} \union Ended,
     REVISING |-> Reviews \union Ended,
     LOCKED |-> {"READY_FOR_PRODUCTION"} \union Ended,
     READY_FOR_PRODUCTION |-> {}, FAILED |-> {}, CANCELLED |-> {}]

\* awaiting_checkpoint: the checkpoint of a review state
Awaited(state) == IF state \in Reviews THEN state ELSE None

StudioInit ==
    /\ row = [id \in StudioIds |-> None]
    /\ call = [c \in Calls |-> None]
    /\ told = [id \in StudioIds |-> None]

-----------------------------------------------------------------------------
(* Rows *)

Project == [title : Texts, meta : Texts, series : SUBSET Series, version : Nat]

SeriesRow == [project : Projects \union {None}, title : Texts, meta : Texts,
              episodes : SUBSET Episodes, version : Nat]

\* asked is no column, but what the requests for the episode were like so far: "omitted"
\* once it was updated for a request that left expected_version out.
Episode == [series : Series, title : Texts, state : EpisodeState,
            current : Revisions \union {None}, awaiting : Reviews \union {None},
            asked : {"stated", "omitted"}, version : Nat]

Revision == [episode : Episodes, parent : Revisions \union {None}, hash : Hashes,
             locked : BOOLEAN, intent : {"NONE", "DOWNSTREAM", None}, version : Nat]

Artifact == [episode : Episodes, hash : Hashes, version : {0}]

Character == [series : Series, text : Texts, version : Nat]

Location == [series : Series, text : Texts, version : {0}]

Prop == [series : Series, text : Texts, version : {0}]

Storyboard == [episode : Episodes, panels : Boards, version : Nat]

-----------------------------------------------------------------------------
(* The store: insert_... and update_... of SqlStudioStore *)

PutProject(p, text) ==
    Insert(p, [title |-> text, meta |-> text, series |-> {}, version |-> 0])

\* The columns of an update that are None are left alone, and without an expected
\* version so is the condition.
SetProject(p, set, expected) == Update(p, Given(set), expected)

PutSeries(s, p, text) ==
    Insert(s, [project |-> p, title |-> text, meta |-> text, episodes |-> {}, version |-> 0])

SetSeries(s, set, expected) == Update(s, Given(set), expected)

PutEpisode(e, s, text) ==
    Insert(e, [series |-> s, title |-> text, state |-> "DRAFT", current |-> None,
               awaiting |-> None, asked |-> "stated", version |-> 0])

SetEpisode(e, set, expected) == Update(e, Given(set), expected)

Asked(set, expected) == IF expected = None THEN Over([asked |-> "omitted"], set) ELSE set

PutRevision(r, e, parent, hash, intent) ==
    Insert(r, [episode |-> e, parent |-> parent, hash |-> hash, locked |-> FALSE,
               intent |-> intent, version |-> 0])

SetRevision(r, set, expected) == Update(r, set, expected)

PutArtifact(a, e, hash) == Insert(a, [episode |-> e, hash |-> hash, version |-> 0])

PutCharacter(k, s, text) == Insert(k, [series |-> s, text |-> text, version |-> 0])

SetCharacter(k, set) == Update(k, set, None)

\* upsert_location: a location keeps the series it was made for.
PutLocation(x, s, text) ==
    IF Present(x) THEN Update(x, [text |-> text], None)
    ELSE Insert(x, [series |-> s, text |-> text, version |-> 0])

\* upsert_prop
PutProp(x, s, text) ==
    IF Present(x) THEN Update(x, [text |-> text], None)
    ELSE Insert(x, [series |-> s, text |-> text, version |-> 0])

PutStoryboard(b, e, panels) == Insert(b, [episode |-> e, panels |-> panels, version |-> 0])

SetStoryboard(b, set, expected) == Update(b, set, expected)

\* A command that does not look at whether its update found the row.
Unchecked(w) == [w EXCEPT !.must = FALSE]

\* StudioEvents: an event of a row, and the state that it names
Says(id, what) == [x \in {id} |-> what]

-----------------------------------------------------------------------------
(* Projects and series *)

CreateProject(c, p, text) ==
    /\ ~Present(p)
    /\ Begin(c, {PutProject(p, text)}, Says(p, "created"))

\* update_project.  A new title takes the metadata that was read along, whatever the
\* patch says.
UpdateProject(c, p, patch, expected) ==
    LET changed == Changed(p, patch)
    IN  /\ expected \in Stated(p)
        /\ DOMAIN changed # {}
        /\ Begin(c, {SetProject(p, Bumped(p, IF "title" \in DOMAIN changed
                                             THEN Over([meta |-> row[p].meta], changed) ELSE changed),
                                expected)}, <<>>)

\* The project gets the series unless it has changed since it was read.
CreateSeries(c, s, p, text) ==
    /\ p # None => Present(p)
    /\ Begin(c, {PutSeries(s, p, text)}
                \union (IF p = None THEN {}
                        ELSE {Unchecked(SetProject(p, Bumped(p, [series |-> row[p].series \union {s}]),
                                                   row[p].version))}),
             Says(s, "created"))

UpdateSeries(c, s, patch, expected) ==
    /\ expected \in Stated(s)
    /\ DOMAIN Changed(s, patch) # {}
    /\ Begin(c, {SetSeries(s, Bumped(s, Changed(s, patch)), expected)}, <<>>)

CreateCharacter(c, k, s, text) ==
    /\ Present(s)
    /\ Begin(c, {PutCharacter(k, s, text)}, <<>>)

\* The version is compared with the row that was read, and not by the UPDATE.
UpdateCharacter(c, k, text, expected) ==
    /\ expected \in Stated(k)
    /\ row[k].text # text
    /\ Begin(c, {SetCharacter(k, Bumped(k, [text |-> text]))}, <<>>)

UpsertLocation(c, x, s, text) ==
    /\ Present(s)
    /\ Begin(c, {PutLocation(x, s, text)}, <<>>)

UpsertProp(c, x, s, text) ==
    /\ Present(s)
    /\ Begin(c, {PutProp(x, s, text)}, <<>>)

-----------------------------------------------------------------------------
(* Episodes and revisions *)

CreateEpisode(c, e, s, text) ==
    /\ Present(s)
    /\ Begin(c, {PutEpisode(e, s, text),
                 Unchecked(SetSeries(s, Bumped(s, [episodes |-> row[s].episodes \union {e}]),
                                     row[s].version))},
             Says(e, "DRAFT"))

UpdateEpisode(c, e, title, expected) ==
    /\ expected \in Stated(e)
    /\ title # row[e].title
    /\ Begin(c, {SetEpisode(e, Bumped(e, Asked([title |-> title], expected)), expected)}, <<>>)

\* Mutant of MayMove: an episode moves to any state.
MayMoveAnywhere(e, target) == row[e].state # target

MayMove(e, target) == target \in Transitions[row[e].state]

\* transition_episode.  A checkpoint that is no longer awaited is not cleared: the
\* repository takes its None for "leave it".
TransitionEpisode(c, e, target, expected) ==
    /\ expected \in Stated(e)
    /\ MayMove(e, target)
    /\ Begin(c, {SetEpisode(e, Bumped(e, Asked([state |-> target, awaiting |-> Awaited(target)],
                                              expected)), expected)},
             Says(e, target))

Points(e, r) == Unchecked(SetEpisode(e, Bumped(e, [current |-> r]), row[e].version))

\* Mutant of ParentKnown: the parent is not looked up.
ParentUnknown(parent) == TRUE

ParentKnown(parent) == parent # None => Present(parent)

\* The first revision becomes the current one.
CreateRevision(c, r, e, parent, hash) ==
    /\ Present(e)
    /\ ParentKnown(parent)
    /\ Begin(c, {PutRevision(r, e, parent, hash, None)}
                \union (IF row[e].current = None THEN {Points(e, r)} ELSE {}), Says(r, "created"))

\* A derived revision becomes the current one of the episode, even of a locked one.
DeriveRevision(c, parent, hash, intent, expected) ==
    LET e == row[parent].episode
    IN  /\ expected \in Stated(parent)
        /\ row[parent].locked => intent = "DOWNSTREAM"
        /\ Begin(c, {PutRevision(<<parent, hash>>, e, parent, hash, intent)}
                    \union (IF Present(e) THEN {Points(e, <<parent, hash>>)} ELSE {}),
                 Says(<<parent, hash>>, "created"))

\* Mutant of Locked: a revision that is locked again gets another version.
LockedAgain(r) == FALSE

Locked(r) == row[r].locked

\* The episode goes along when its state allows it, and when it has not changed.
LockRevision(c, r, expected) ==
    LET e == row[r].episode
    IN  /\ expected \in Stated(r)
        /\ ~Locked(r)
        /\ Begin(c, {SetRevision(r, Bumped(r, [locked |-> TRUE]), expected)}
                    \union (IF Present(e) /\ "LOCKED" \in Transitions[row[e].state]
                            THEN {Unchecked(SetEpisode(e, Bumped(e, [state |-> "LOCKED"]), row[e].version))}
                            ELSE {}), Says(r, "locked"))

CreateArtifact(c, a, e, hash) ==
    /\ Present(e)
    /\ Begin(c, {PutArtifact(a, e, hash)}, Says(a, "created"))

-----------------------------------------------------------------------------
(* Storyboards *)

CreateStoryboard(c, b, e, panels) ==
    /\ Present(e)
    /\ Begin(c, {PutStoryboard(b, e, panels)}, <<>>)

UpdateStoryboard(c, b, panels, expected) ==
    /\ expected \in Stated(b)
    /\ Begin(c, {SetStoryboard(b, Bumped(b, [panels |-> panels]), expected)}, <<>>)

\* The order must name the panels there are; it may name one of them twice.
ReorderStoryboard(c, b, order, expected) ==
    /\ expected \in Stated(b)
    /\ order # <<>> /\ ToSet(order) = ToSet(row[b].panels)
    /\ Begin(c, {SetStoryboard(b, Bumped(b, [panels |-> order]), expected)}, <<>>)

-----------------------------------------------------------------------------
(* What is asked for through the routes *)

Maybe(set) == set \union {None}

CatalogRequests(c) ==
    \/ \E p \in Projects, text \in Texts : CreateProject(c, p, text)
    \/ \E p \in Projects, t, m \in Maybe(Texts) : \E v \in Stated(p) :
          UpdateProject(c, p, [title |-> t, meta |-> m], v)
    \/ \E s \in Series, p \in Maybe(Projects), text \in Texts : CreateSeries(c, s, p, text)
    \/ \E s \in Series, t, m \in Maybe(Texts) : \E v \in Stated(s) :
          UpdateSeries(c, s, [title |-> t, meta |-> m], v)

WorldRequests(c) ==
    \E s \in Series, text \in Texts :
        \/ \E k \in Characters : \/ CreateCharacter(c, k, s, text)
                                 \/ \E v \in Stated(k) : UpdateCharacter(c, k, text, v)
        \/ \E x \in Locations : UpsertLocation(c, x, s, text)
        \/ \E x \in Props : UpsertProp(c, x, s, text)

EpisodeRequests(c) ==
    \/ \E e \in Episodes, s \in Series, text \in Texts : CreateEpisode(c, e, s, text)
    \/ \E e \in Episodes : \E v \in Stated(e) :
          \E target \in Targets : TransitionEpisode(c, e, target, v)

\* An intent of "NONE" is like none.
RevisionRequests(c) ==
    \/ \E r \in Roots, e \in Episodes, parent \in Maybe(Revisions), hash \in Hashes :
          CreateRevision(c, r, e, parent, hash)
    \/ \E parent \in Roots, hash \in Hashes, intent \in {"DOWNSTREAM", None} :
          \E v \in Stated(parent) : DeriveRevision(c, parent, hash, intent, v)
    \/ \E r \in Revisions : \E v \in Stated(r) : LockRevision(c, r, v)

StoryboardRequests(c) ==
    \/ \E e \in Episodes, t \in Texts : \E v \in Stated(e) : UpdateEpisode(c, e, t, v)
    \/ \E a \in Artifacts, e \in Episodes, hash \in Hashes : CreateArtifact(c, a, e, hash)
    \/ \E b \in Storyboards, e \in Episodes, panels \in Boards : CreateStoryboard(c, b, e, panels)
    \/ \E b \in Storyboards, panels \in Boards : \E v \in Stated(b) :
          UpdateStoryboard(c, b, panels, v) \/ ReorderStoryboard(c, b, panels, v)

\* Each group with what makes the rows it needs.
StudioCatalogNext == Finish \/ \E c \in Calls : CatalogRequests(c)

StudioWorldNext ==
    \/ Finish
    \/ \E c \in Calls :
          \/ \E s \in Series, text \in Texts : CreateSeries(c, s, None, text)
          \/ WorldRequests(c)

StudioEpisodesNext ==
    \/ Finish
    \/ \E c \in Calls :
          \/ \E s \in Series, text \in Texts : CreateSeries(c, s, None, text)
          \/ EpisodeRequests(c) \/ RevisionRequests(c)

StudioBoardsNext ==
    \/ Finish
    \/ \E c \in Calls :
          \/ \E s \in Series, text \in Texts : CreateSeries(c, s, None, text)
          \/ \E e \in Episodes, s \in Series, text \in Texts : CreateEpisode(c, e, s, text)
          \/ StoryboardRequests(c)

-----------------------------------------------------------------------------
(* Properties *)

StudioTypeOK ==
    /\ \A p \in Projects : row[p] \in Project \union {None}
    /\ \A s \in Series : row[s] \in SeriesRow \union {None}
    /\ \A e \in Episodes : row[e] \in Episode \union {None}
    /\ \A r \in Revisions : row[r] \in Revision \union {None}
    /\ \A a \in Artifacts : row[a] \in Artifact \union {None}
    /\ \A k \in Characters : row[k] \in Character \union {None}
    /\ \A x \in Locations : row[x] \in Location \union {None}
    /\ \A x \in Props : row[x] \in Prop \union {None}
    /\ \A b \in Storyboards : row[b] \in Storyboard \union {None}

\* However commands race, a row that names another one names one that is there and
\* belongs to it: a project its series, a series its episodes, an episode its
\* current revision, a revision its parent.
StudioLinked ==
    /\ \A p \in Projects : Present(p) =>
          \A s \in row[p].series : Present(s) /\ row[s].project = p
    /\ \A s \in Series : Present(s) =>
          \A e \in row[s].episodes : Present(e) /\ row[e].series = s
    /\ \A e \in Episodes : Present(e) /\ row[e].current # None =>
          Present(row[e].current) /\ row[row[e].current].episode = e
    /\ \A r \in Revisions : Present(r) /\ row[r].parent # None => Present(row[r].parent)

\* An episode moves along EpisodeStateMachine.TRANSITIONS from the state it really is
\* in, though commands are checked against the state they have read, as long as every
\* request for it states the version it has seen.  The default request of the routes
\* states none; it may move the episode from any state to where it could go from the
\* one that was read, give it a version that it has had, and so make others do the same.
EpisodeMoves ==
    \A e \in Episodes :
        Present(e) /\ row'[e].asked = "stated" /\ row'[e].state # row[e].state
            => row'[e].state \in Transitions[row[e].state]

\* A locked revision stays as it is, whoever locks it or derives from it again, and
\* whether they state a version or not.
LockedKept == \A r \in Revisions : Present(r) /\ row[r].locked => row'[r] = row[r]
=============================================================================
