---------------------------- MODULE ModuleLoader ----------------------------
(***************************************************************************)
(* How the API process comes up: ModuleLoader.bootstrap                    *)
(* (platform/modules/loader.py) collects the manifests of all sources,     *)
(* validates them as a set, and registers what they contribute with        *)
(* ApiModuleRuntime (apps/api/.../bootstrap/module_runtime.py) and its     *)
(* buses (buses.py), kind by kind.                                         *)
(*                                                                         *)
(* The start is one thread: a step is a stage of it.  It is about what a   *)
(* stage that fails leaves behind.  Contributions are represented by their *)
(* keys: the class of a command or query, the type of a job or an event.   *)
(***************************************************************************)
EXTENDS Naturals, SequencesExt

CONSTANTS
    ModuleIds,     \* the ids, as their ranks in the alphabet
    Keys,
    Manifests,     \* the manifests that may be found
    MaxManifests   \* bound on how many are found at once

\* The passes of register, in their order; the last one is the module's descriptor.
Kinds == <<"commands", "queries", "jobs", "event_handlers", "routers",
           "migrations", "modules">>

VARIABLES
    boot,       \* where the start is
    registered  \* by kind, the keys registered, in order

loaderVars == <<boot, registered>>

\* A manifest repeats a key only by mistake, and nothing in it forbids that.
Manifest ==
    [id : ModuleIds, commands : Seq(Keys), queries : Seq(Keys), jobs : Seq(Keys),
     event_handlers : Seq(Keys), routers : Seq(Keys), migrations : Seq(Keys)]

\* at: the stage.  pass: the pass of register.  loaded: the manifests found, by id.
LoaderInit ==
    /\ boot = [at |-> "start", pass |-> 1, loaded |-> <<>>]
    /\ registered = [k \in ToSet(Kinds) |-> <<>>]

\* What the manifests contribute of a kind, one manifest after the other.
Contributed(loaded, kind) ==
    FlattenSeq([i \in DOMAIN loaded |->
        IF kind = "modules" THEN <<loaded[i].id>> ELSE loaded[i][kind]])

Sorted(loaded) == \A i, j \in DOMAIN loaded : i < j => loaded[i].id <= loaded[j].id

\* discover: the manifests of all sources in the order of their ids, or the error of
\* one of the sources.
Discover ==
    /\ boot.at = "start"
    /\ \/ \E loaded \in SeqOf(Manifests, MaxManifests) :
            Sorted(loaded) /\ boot' = [boot EXCEPT !.at = "discovered", !.loaded = loaded]
       \/ boot' = [boot EXCEPT !.at = "refused"]
    /\ UNCHANGED registered

\* Mutant of SingleOwner: a module may claim a key twice.
OwnerPerModule(loaded, kind) ==
    \A i, j \in DOMAIN loaded : i # j =>
        ToSet(loaded[i][kind]) \intersect ToSet(loaded[j][kind]) = {}

\* _validate_single_owner, for all the manifests.
SingleOwner(loaded, kind) == IsInjective(Contributed(loaded, kind))

\* The ids and the single-owner kinds; event types may have many handlers.
Valid(loaded) ==
    /\ IsInjective(Contributed(loaded, "modules"))
    /\ ToSet(Contributed(loaded, "modules")) \intersect ToSet(registered["modules"]) = {}
    /\ \A kind \in {"commands", "queries", "jobs"} : SingleOwner(loaded, kind)

Validate ==
    /\ boot.at = "discovered"
    /\ boot' = [boot EXCEPT !.at = IF Valid(boot.loaded) THEN "registering" ELSE "refused"]
    /\ UNCHANGED registered

\* The two buses and the module registry refuse a key they have; lists take anything.
Refuses(kind, have, key) ==
    kind \in {"commands", "queries", "modules"} /\ Contains(have, key)

\* One pass of register: up to the first contribution that is refused.
Register ==
    LET kind == Kinds[boot.pass]
        adds == Contributed(boot.loaded, kind)
        before(i) == registered[kind] \o SubSeq(adds, 1, i - 1)
        bad == {i \in DOMAIN adds : Refuses(kind, before(i), adds[i])}
    IN  /\ boot.at = "registering"
        /\ IF bad = {}
           THEN /\ registered' = [registered EXCEPT ![kind] = @ \o adds]
                /\ boot' = IF boot.pass = Len(Kinds) THEN [boot EXCEPT !.at = "up"]
                           ELSE [boot EXCEPT !.pass = @ + 1]
           ELSE /\ registered' = [registered EXCEPT ![kind] =
                        before(CHOOSE i \in bad : \A j \in bad : i <= j)]
                /\ boot' = [boot EXCEPT !.at = "failed"]

LoaderNext == Discover \/ Validate \/ Register

-----------------------------------------------------------------------------
(* Properties *)

LoaderTypeOK ==
    /\ boot.at \in {"start", "discovered", "registering", "refused", "failed", "up"}
    /\ boot.pass \in DOMAIN Kinds
    /\ DOMAIN registered = ToSet(Kinds)

\* Whatever manifests are found, the process comes up with all they contribute and one
\* owner for each command, query and job, or it stops with nothing registered: no set
\* that passes validation is refused half way.
AllOrNothing ==
    /\ boot.at # "failed"
    /\ boot.at = "refused" => \A k \in ToSet(Kinds) : registered[k] = <<>>
    /\ boot.at = "up" =>
        /\ \A k \in ToSet(Kinds) :
            ToSet(registered[k]) = ToSet(Contributed(boot.loaded, k))
        /\ \A k \in {"commands", "queries", "jobs"} : IsInjective(registered[k])
=============================================================================
