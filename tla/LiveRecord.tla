----------------------------- MODULE LiveRecord -----------------------------
(***************************************************************************)
(* Live recording: execution plans, takes with their segments and events,  *)
(* and director sessions.  LiveRecordService                               *)
(* (modules/live_record/application/services.py) over SqlLiveRecordStore   *)
(* (infrastructure/repository.py).                                         *)
(*                                                                         *)
(* The content of a plan is its scenes and its prepared actions, each of   *)
(* one scene.                                                              *)
(***************************************************************************)
EXTENDS Transactions, FiniteSets, Functions

CONSTANTS
    Episodes,
    Scenes, Actions,   \* ids of scenes and of prepared actions
    Leaks,             \* actions whose payload holds a secret
    Sessions,          \* ids of director sessions
    MaxPlans,          \* bound on the preparation revisions of an episode
    MaxTakes,          \* bound on the takes of an episode
    MaxEvents,         \* bound on the events and on the segments of a take
    PlanTargets        \* states that plans are asked to move to

\* Plans, takes, segments and events have ids made of what they belong to and a number.
Plans == Episodes \X (1..MaxPlans)

Takes == Episodes \X {"take"} \X (1..MaxTakes)

Segments == Takes \X {"segment"} \X (0..MaxEvents - 1)

Events == Takes \X (0..MaxEvents - 1)

LiveRecordIds == Plans \union Takes \union Segments \union Events \union Sessions

LiveRecordInit ==
    /\ row = [id \in LiveRecordIds |-> None]
    /\ call = [c \in Calls |-> None]
    /\ told = [id \in LiveRecordIds |-> None]

Maybe(set) == set \union {None}

-----------------------------------------------------------------------------
(* Lifecycles *)

\* PlanStatusStateMachine
PlanTransitions ==
    [DRAFT |-> {"PREPARED", "INVALID"}, PREPARED |-> {"VALIDATED", "STALE", "INVALID"},
     VALIDATED |-> {"FROZEN", "PREPARED", "STALE", "INVALID"}, FROZEN |-> {"STALE"},
     STALE |-> {}, INVALID |-> {}]

ContentEditable(status) == status \in {"DRAFT", "PREPARED", "VALIDATED"}

\* TakeStatusStateMachine
TakeTransitions ==
    [IDLE |-> {"PREPARING", "FAILED", "BLOCKED"}, PREPARING |-> {"PREFLIGHT", "FAILED", "BLOCKED"},
     PREFLIGHT |-> {"READY", "BLOCKED", "FAILED"}, READY |-> {"RECORDING", "FAILED"},
     RECORDING |-> {"PAUSED", "DIRECTOR_DEGRADED", "FINALIZING", "FAILED"},
     PAUSED |-> {"RECORDING", "FINALIZING", "FAILED"},
     DIRECTOR_DEGRADED |-> {"RECOVERING", "FAILED", "FINALIZING"},
     RECOVERING |-> {"RECORDING", "FAILED", "FINALIZING"},
     FINALIZING |-> {"COMPLETED", "FAILED"}, COMPLETED |-> {}, FAILED |-> {"IDLE"},
     BLOCKED |-> {"IDLE"}]

-----------------------------------------------------------------------------
(* Rows *)

\* Which scene each action is of.  An action is listed once.
ActionLists == UNION {[some -> Scenes] : some \in SUBSET Actions}

\* validate_lineage: the actions are of scenes of the plan.
Lineage(scenes, actions) == Range(actions) \subseteq scenes

\* compute_plan_hash: the hash of different contents differs.
PlanHash(plan) == <<plan.scenes, plan.actions>>

LiveExecutionPlan ==
    [scenes : SUBSET Scenes, actions : ActionLists, status : DOMAIN PlanTransitions,
     hash : Maybe((SUBSET Scenes) \X ActionLists), version : Nat]

RecordingTake ==
    [plan : Plans, hash : Maybe((SUBSET Scenes) \X ActionLists), status : DOMAIN TakeTransitions,
     version : Nat]

RecordingSegment == [playable : BOOLEAN, version : {0}]

RecordingEvent ==
    [type : {"MARKER", "ACTION_SUCCESS", "ACTION_FAILURE", "ACTION_TAMPERED"}, version : {0}]

DirectorSession ==
    [plan : Plans, hash : Maybe((SUBSET Scenes) \X ActionLists), connected : BOOLEAN,
     version : {0}]

-----------------------------------------------------------------------------
(* The store *)

InsertPlan(p, scenes, actions) ==
    Insert(p, [scenes |-> scenes, actions |-> actions, status |-> "DRAFT", hash |-> None,
               version |-> 0])

\* Every column is optional, and so is the condition on the version.
UpdatePlan(p, set, expected) == Update(p, Given(set), expected)

\* next_preparation_revision
NextRevision(e) ==
    LET made == {n \in 1..MaxPlans : Present(<<e, n>>)}
    IN  IF made = {} THEN 1 ELSE 1 + (CHOOSE n \in made : \A k \in made : k <= n)

InsertTake(t, p) ==
    Insert(t, [plan |-> p, hash |-> row[p].hash, status |-> "IDLE", version |-> 0])

UpdateTake(t, set, expected) == Update(t, set, expected)

UpsertSegment(s, playable) ==
    IF Present(s) THEN Update(s, [playable |-> playable], None)
    ELSE Insert(s, [playable |-> playable, version |-> 0])

EventsOf(t) == {n \in 0..MaxEvents - 1 : Present(<<t, n>>)}

\* Mutant of NextSeq: the number of an event is one more than that of the events.
NextSeqFromOne(t) == Cardinality(EventsOf(t)) + 1

\* len(list_events(take_id)): the primary key refuses the second of two that race.
NextSeq(t) == Cardinality(EventsOf(t))

AppendEvent(t, type) == Insert(<<t, NextSeq(t)>>, [type |-> type, version |-> 0])

InsertDirectorSession(d, p) ==
    Insert(d, [plan |-> p, hash |-> row[p].hash, connected |-> FALSE, version |-> 0])

UpdateDirectorSession(d, set) == Update(d, set, None)

\* LiveRecordEventFactory
Says(id, what) == [x \in {id} |-> what]

-----------------------------------------------------------------------------
(* Plans *)

\* create_plan and prepare_recording_package: a plan with the id is returned as it is.
CreatePlan(c, e, n, scenes, actions) ==
    LET p == <<e, IF n = None THEN NextRevision(e) ELSE n>>
    IN  /\ p \in Plans
        /\ ~Present(p)
        /\ Lineage(scenes, actions)
        /\ Begin(c, {InsertPlan(p, scenes, actions)}, Says(p, "DRAFT"))

\* RecordingPreparationBuilder.build_plan: the plan has the scenes of its actions, each
\* with one cue that lists them.
BuildPlan(actions) == [scenes |-> Range(actions), actions |-> actions]

PreparePackage(c, e, actions) ==
    /\ NextRevision(e) <= MaxPlans
    /\ CreatePlan(c, e, None, BuildPlan(actions).scenes, BuildPlan(actions).actions)

\* edit_content: what was validated is prepared again.  The hash stays.
EditContent(p, scenes, actions) ==
    [scenes |-> scenes, actions |-> actions,
     status |-> IF row[p].status = "VALIDATED" THEN "PREPARED" ELSE None]

UpdatePlanContent(c, p, scenes, actions, expected) ==
    /\ expected \in Stated(p)
    /\ ContentEditable(row[p].status)
    /\ Lineage(IF scenes = None THEN row[p].scenes ELSE scenes,
               IF actions = None THEN row[p].actions ELSE actions)
    /\ Begin(c, {UpdatePlan(p, Bumped(p, EditContent(p, scenes, actions)), expected)},
             Says(p, "updated"))

\* mark_validated and freeze hash the content they have read.
HashAt(p, target) == IF target \in {"VALIDATED", "FROZEN"} THEN PlanHash(row[p]) ELSE row[p].hash

\* transition_plan.  The routes for one target state no version.
TransitionPlan(c, p, target, expected) ==
    /\ expected \in Stated(p) \union {None}
    /\ Present(p)
    /\ target \in PlanTransitions[row[p].status]
    /\ target = "VALIDATED" => Lineage(row[p].scenes, row[p].actions)
    /\ Begin(c, {UpdatePlan(p, Bumped(p, [status |-> target, hash |-> HashAt(p, target)]), expected)},
             Says(p, target))

\* scan_live_record_plan: blocked by any action that shows a secret
PrivacyStatus(plan) == IF DOMAIN plan.actions \intersect Leaks = {} THEN "PASS" ELSE "BLOCKED"

\* scan_privacy reads the plan and records what it has found.
ScanPrivacy(c, p) ==
    /\ Present(p)
    /\ Begin(c, {}, Says(p, PrivacyStatus(row[p])))

-----------------------------------------------------------------------------
(* Takes *)

\* assert_usable_for_recording
Recordable(p) == Present(p) /\ row[p].status = "FROZEN"

TakesOf(p) == {t \in Takes : Present(t) /\ row[t].plan = p}

\* create_take counts the takes of the plan, and names the take after the episode: when
\* another plan of the episode has taken the name, its take is returned.
CreateTake(c, p) ==
    LET t == <<p[1], "take", Cardinality(TakesOf(p)) + 1>>
    IN  /\ Recordable(p)
        /\ t \in Takes
        /\ ~Present(t)
        /\ Begin(c, {InsertTake(t, p)}, Says(t, "IDLE"))

TransitionTake(c, t, target, expected) ==
    /\ expected \in Stated(t)
    /\ target \in TakeTransitions[row[t].status]
    /\ Begin(c, {UpdateTake(t, Bumped(t, [status |-> target]), expected)}, Says(t, target))

\* create_segment: an event for a new one only
CreateSegment(c, t, i, playable) ==
    /\ Present(t)
    /\ Begin(c, {UpsertSegment(<<t, "segment", i>>, playable)},
             IF Present(<<t, "segment", i>>) THEN <<>> ELSE Says(<<t, "segment", i>>, "created"))

\* What append_event and record_action_result have in common.
Record(c, t, type) ==
    /\ Present(t)
    /\ NextSeq(t) < MaxEvents
    /\ Begin(c, {AppendEvent(t, type)}, Says(t, NextSeq(t)))

AppendTakeEvent(c, t) == Record(c, t, "MARKER")

\* What was observed of the files against the hashes of the action.
ResultType(status, asPrepared) ==
    IF ~asPrepared THEN "ACTION_TAMPERED"
    ELSE IF status = "SUCCESS" THEN "ACTION_SUCCESS" ELSE "ACTION_FAILURE"

RecordActionResult(c, p, t, a, status, asPrepared) ==
    /\ Recordable(p)
    /\ a \in DOMAIN row[p].actions
    /\ Present(t) /\ row[t].plan = p
    /\ Record(c, t, ResultType(status, asPrepared))

-----------------------------------------------------------------------------
(* Director sessions *)

BootstrapDirectorSession(c, d, p) ==
    /\ Recordable(p)
    /\ Begin(c, {InsertDirectorSession(d, p)}, Says(d, "created"))

RefreshDirectorSession(c, d) ==
    /\ Present(d)
    /\ Recordable(row[d].plan)
    /\ Begin(c, {UpdateDirectorSession(d, [connected |-> TRUE])}, Says(d, "refreshed"))

-----------------------------------------------------------------------------
(* What is asked for through the routes *)

PlanRequests(c) ==
    \/ \E e \in Episodes, n \in Maybe(1..MaxPlans), some \in SUBSET Scenes, list \in ActionLists :
          CreatePlan(c, e, n, some, list)
    \/ \E e \in Episodes, list \in ActionLists : PreparePackage(c, e, list)
    \/ \E p \in Plans, some \in Maybe(SUBSET Scenes), list \in Maybe(ActionLists) :
          \E v \in Stated(p) : UpdatePlanContent(c, p, some, list, v)
    \/ \E p \in Plans, target \in PlanTargets : \E v \in Stated(p) \union {None} :
          TransitionPlan(c, p, target, v)

\* A plan that may be recorded, or not
SomePlans(c) ==
    \/ \E e \in Episodes, list \in [Actions -> Scenes] : PreparePackage(c, e, list)
    \/ \E p \in Plans, target \in PlanTargets : TransitionPlan(c, p, target, None)

TakeRequests(c) ==
    \/ \E p \in Plans : CreateTake(c, p)
    \/ \E t \in Takes : \/ AppendTakeEvent(c, t)
                        \/ \E i \in 0..MaxEvents - 1, playable \in BOOLEAN :
                              CreateSegment(c, t, i, playable)
    \/ \E p \in Plans, t \in Takes, a \in Actions, status \in {"SUCCESS", "FAILED"}, ok \in BOOLEAN :
          RecordActionResult(c, p, t, a, status, ok)

SessionRequests(c) ==
    \/ \E d \in Sessions, p \in Plans : BootstrapDirectorSession(c, d, p)
    \/ \E d \in Sessions : RefreshDirectorSession(c, d)
    \/ \E p \in Plans : ScanPrivacy(c, p)

LiveRecordPlansNext == Finish \/ \E c \in Calls : PlanRequests(c)

LiveRecordTakesNext == Finish \/ \E c \in Calls : SomePlans(c) \/ TakeRequests(c)

LiveRecordSessionsNext ==
    \/ Finish
    \/ \E c \in Calls :
          \/ SomePlans(c) \/ SessionRequests(c)
          \/ \E p \in Plans : CreateTake(c, p)
          \/ \E t \in Takes, target \in DOMAIN TakeTransitions : \E v \in Stated(t) :
                TransitionTake(c, t, target, v)

-----------------------------------------------------------------------------
(* Properties *)

LiveRecordTypeOK ==
    /\ \A p \in Plans : Present(p) => row[p] \in LiveExecutionPlan
    /\ \A t \in Takes : Present(t) => row[t] \in RecordingTake
    /\ \A s \in Segments : Present(s) => row[s] \in RecordingSegment
    /\ \A n \in Events : Present(n) => row[n] \in RecordingEvent
    /\ \A d \in Sessions : Present(d) => row[d] \in DirectorSession

\* Takes and director sessions are of plans that are there and were hashed, segments and
\* events of takes that are there.
LiveRecordLinked ==
    /\ \A t \in Takes : Present(t) => Present(row[t].plan) /\ row[t].hash # None
    /\ \A d \in Sessions : Present(d) => Present(row[d].plan) /\ row[d].hash # None
    /\ \A s \in Segments \union Events : Present(s) => Present(s[1])

\* However appends race, the events of a take are numbered from zero without a gap, and
\* the outbox has told of the last of them.
EventsGapless ==
    \A t \in Takes :
        EventsOf(t) # {} => \E n \in 0..MaxEvents : EventsOf(t) = 0..n /\ told[t] = n
=============================================================================
