------------------------------ MODULE EventBus ------------------------------
(***************************************************************************)
(* The in-process event bus of platform/events: InProcessEventBus          *)
(* (dispatcher.py), the handles it returns (subscriptions.py) and the      *)
(* registry of event types it validates against (registry.py).             *)
(*                                                                         *)
(* A dispatch waits for one handler after another; between two of them     *)
(* others subscribe, leave and publish, the handlers themselves included.  *)
(* Everything else runs without a wait and is one step.  A call that       *)
(* raises without an effect is no step.                                    *)
(***************************************************************************)
EXTENDS Naturals, SequencesExt, Filters

CONSTANTS
    EventTypes,
    Handlers,
    Handles,     \* what subscribe returns
    Dispatches,  \* calls of publish
    Versions,    \* versions of an event type
    None

VARIABLES
    version,   \* EventTypeRegistry: the version of each type, or None
    hooked,    \* an on_handler_error hook is configured
    handlers,  \* the handlers of each type
    handle,    \* each handle
    dispatch   \* each call of publish

busVars == <<version, hooked, handlers, handle, dispatch>>

Handle == [type : EventTypes, handler : Handlers, active : BOOLEAN]

\* loyal: the handlers that have been subscribed ever since the call began.
Dispatch ==
    [type : EventTypes, at : {"running", "returned", "raised", "refused", "cancelled"},
     todo : Seq(Handlers), served : Seq(Handlers), failed : SUBSET Handlers,
     loyal : SUBSET Handlers]

BusInit ==
    /\ version = [t \in EventTypes |-> None]
    /\ hooked \in BOOLEAN
    /\ handlers = [t \in EventTypes |-> <<>>]
    /\ handle = [s \in Handles |-> None]
    /\ dispatch = [d \in Dispatches |-> None]

-----------------------------------------------------------------------------
(* EventTypeRegistry *)

\* A type keeps the version it was first registered at.
RegisterType(t, v) ==
    /\ version[t] = None
    /\ version' = [version EXCEPT ![t] = v]
    /\ UNCHANGED <<hooked, handlers, handle, dispatch>>

-----------------------------------------------------------------------------
(* Subscriptions *)

\* Mutant of Subscribed: a handler that is there already is added again.
SubscribedAgain(t, h) == Append(handlers[t], h)

\* A handler is subscribed to a type once.
Subscribed(t, h) == IF Contains(handlers[t], h) THEN handlers[t] ELSE Append(handlers[t], h)

Subscribe(s, t, h) ==
    /\ handle[s] = None
    /\ Subscribed(t, h) # handlers[t]
    /\ handlers' = [handlers EXCEPT ![t] = Subscribed(t, h)]
    /\ handle' = [handle EXCEPT ![s] = [type |-> t, handler |-> h, active |-> TRUE]]
    /\ UNCHANGED <<version, hooked, dispatch>>

\* _detach for each pair of a type and a handler in gone.  Calls under way keep the
\* handlers they began with.
Detach(gone) ==
    /\ handlers' = [t \in EventTypes |->
                        Only(handlers[t], {h \in Handlers : <<t, h>> \notin gone})]
    /\ dispatch' = [d \in Dispatches |->
                        IF dispatch[d] = None THEN None
                        ELSE [dispatch[d] EXCEPT
                                !.loyal = {h \in @ : <<dispatch[d].type, h>> \notin gone}]]

\* InProcessEventBus.unsubscribe, which no handle hears of.
Unsubscribe(t, h) ==
    /\ Contains(handlers[t], h)
    /\ Detach({<<t, h>>})
    /\ UNCHANGED <<version, hooked, handle>>

\* Subscription.unsubscribe, and SubscriptionSet.unsubscribe_all for a set of them:
\* a handle detaches once, whoever has subscribed its handler since.
Cancel(S) ==
    LET live == {s \in S : handle[s] # None /\ handle[s].active}
    IN  /\ live # {}
        /\ handle' = [s \in Handles |->
                        IF s \in live THEN [handle[s] EXCEPT !.active = FALSE] ELSE handle[s]]
        /\ Detach({<<handle[s].type, handle[s].handler>> : s \in live})
        /\ UNCHANGED <<version, hooked>>

-----------------------------------------------------------------------------
(* publish *)

\* A call ends when it has served all its handlers, and raises then if some failed
\* and no hook was told of it.
Settled(call) ==
    [call EXCEPT !.at = IF call.todo # <<>> THEN "running"
                        ELSE IF call.failed = {} THEN "returned" ELSE "raised"]

\* EventTypeRegistry.validate: the type is known, and at this version.  (A bus without a
\* registry is one with every type registered as it is published.)
Accepts(t, v) == version[t] = v

Publish(d, t, v) ==
    LET call == [type |-> t, at |-> "refused", todo |-> handlers[t], served |-> <<>>,
                 failed |-> {}, loyal |-> ToSet(handlers[t])]
    IN  /\ dispatch[d] = None
        /\ dispatch' = [dispatch EXCEPT ![d] = IF Accepts(t, v) THEN Settled(call) ELSE call]
        /\ UNCHANGED <<version, hooked, handlers, handle>>

\* Mutant of Rest: the loop walks the list as it is now, by its index.
LiveRest(call) ==
    LET now == handlers[call.type]
    IN  SubSeq(now, Len(call.served) + 2, Len(now))

\* What is left of the tuple after its next handler.
Rest(call) == Tail(call.todo)

\* The next handler returns or raises; the others are served all the same.
Deliver(d, raises) ==
    LET call == dispatch[d]
        h == Head(call.todo)
    IN  /\ call # None /\ call.at = "running"
        /\ dispatch' = [dispatch EXCEPT ![d] =
                Settled([call EXCEPT !.todo = Rest(call), !.served = Append(@, h),
                                     !.failed = IF raises /\ ~hooked THEN @ \union {h} ELSE @])]
        /\ UNCHANGED <<version, hooked, handlers, handle>>

\* The task that publishes is cancelled in a handler, which no except clause catches.
Abandon(d) ==
    /\ dispatch[d] # None /\ dispatch[d].at = "running"
    /\ dispatch' = [dispatch EXCEPT ![d].at = "cancelled"]
    /\ UNCHANGED <<version, hooked, handlers, handle>>

BusNext ==
    \/ \E t \in EventTypes, v \in Versions : RegisterType(t, v)
    \/ \E s \in Handles, t \in EventTypes, h \in Handlers : Subscribe(s, t, h)
    \/ \E t \in EventTypes, h \in Handlers : Unsubscribe(t, h)
    \/ \E S \in SUBSET Handles : Cancel(S)
    \/ \E d \in Dispatches, t \in EventTypes, v \in Versions : Publish(d, t, v)
    \/ \E d \in Dispatches, raises \in BOOLEAN : Deliver(d, raises)
    \/ \E d \in Dispatches : Abandon(d)

-----------------------------------------------------------------------------
(* Properties *)

BusTypeOK ==
    /\ version \in [EventTypes -> Versions \union {None}]
    /\ hooked \in BOOLEAN
    /\ handlers \in [EventTypes -> Seq(Handlers)]
    /\ handle \in [Handles -> Handle \union {None}]
    /\ dispatch \in [Dispatches -> Dispatch \union {None}]

\* Whoever subscribes, leaves or fails during a publish, a handler gets the event at
\* most once, and a call that ends has served every handler that stayed subscribed
\* since it began; it returns normally only if none failed unnoticed.  And a handler
\* that gets events can be taken off by a handle that is still active.
Served ==
    /\ \A d \in Dispatches : dispatch[d] # None =>
        LET call == dispatch[d]
        IN  /\ IsInjective(call.served)
            /\ call.at \in {"returned", "raised"} => call.loyal \subseteq ToSet(call.served)
            /\ call.at = "returned" => call.failed = {}
            /\ call.at = "refused" => call.served = <<>>
    /\ \A t \in EventTypes : \A h \in ToSet(handlers[t]) :
        \E s \in Handles : handle[s] = [type |-> t, handler |-> h, active |-> TRUE]
=============================================================================
