----------------------------- MODULE ApiProcess -----------------------------
(***************************************************************************)
(* What an API process keeps in its memory: the realtime hub, the event    *)
(* bus, the windows of the rate limiter, and what the module loader        *)
(* registered at its start (apps/api/.../bootstrap/factory.py).            *)
(*                                                                         *)
(* They share nothing but the event loop: a behaviour exercises one of     *)
(* them, any of them, and leaves the others alone.                         *)
(***************************************************************************)
EXTENDS RealtimeHub

CONSTANTS
    Parts,                                                   \* the parts to exercise
    EventTypes, Handlers, Handles, Dispatches, Versions,     \* EventBus
    Clients, Limit, Window, MaxTrackedKeys, Second,           \* RateLimiter
    ModuleIds, Keys, Manifests, MaxManifests,                \* ModuleLoader
    None

ASSUME ProcessAssumption ==
    /\ Parts \subseteq {"hub", "bus", "limiter", "loader"}
    /\ {Limit, Window, MaxTrackedKeys, Second} \subseteq Nat \ {0}

VARIABLES
    part,                                                    \* the part exercised
    version, hooked, handlers, handle, dispatch,
    windows, admitted, told, answer,
    boot, registered

B == INSTANCE EventBus
R == INSTANCE RateLimiter
L == INSTANCE ModuleLoader

ASSUME ManifestAssumption == ModuleIds \subseteq Nat /\ Manifests \subseteq L!Manifest
ASSUME NullAssumption == None \notin Nat \union R!Told \union B!Handle \union B!Dispatch

busVars == <<version, hooked, handlers, handle, dispatch>>
limiterVars == <<windows, admitted, told, answer>>
loaderVars == <<boot, registered>>
processVars == <<part, vars, busVars, limiterVars, loaderVars>>

\* Whether the bus has a hook matters where the bus is exercised.
ProcessInit ==
    /\ part \in Parts
    /\ Init /\ B!BusInit /\ R!LimiterInit /\ L!LoaderInit
    /\ part # "bus" => ~hooked

\* A step of the hub.
Hub(A) == part = "hub" /\ A /\ UNCHANGED <<part, busVars, limiterVars, loaderVars>>

ProcessNext ==
    \/ Hub(Next)
    \/ part = "bus" /\ B!BusNext /\ UNCHANGED <<part, vars, limiterVars, loaderVars>>
    \/ part = "limiter" /\ R!LimiterNext /\ UNCHANGED <<part, vars, busVars, loaderVars>>
    \/ part = "loader" /\ L!LoaderNext /\ UNCHANGED <<part, vars, busVars, limiterVars>>

\* The fairness of the hub.
ProcessSpec ==
    /\ ProcessInit /\ [][ProcessNext]_processVars
    /\ \A m \in Calls : WF_processVars(Hub(Resume(m)))
    /\ \A s \in Subscribers : WF_processVars(Hub(Take(s)))

-----------------------------------------------------------------------------
(* Properties, besides those of the hub *)

\* Handlers get the events they are subscribed to, whatever happens during a dispatch
\* of the event bus.
EventsServed == B!Served

\* The rate limiter admits no more than it may and denies no more than it says.
LimitKept == R!LimitKept

\* The modules are loaded as a whole or not at all.
LoadedWhole == L!AllOrNothing
=============================================================================
