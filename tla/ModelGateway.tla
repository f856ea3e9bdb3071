---------------------------- MODULE ModelGateway ----------------------------
(***************************************************************************)
(* The model gateway: the registry of providers, the routes that scopes    *)
(* are locked to, and the requests sent along them.                        *)
(*                                                                         *)
(* A request reads the registry and its route in transactions of their own *)
(* and never writes to them: a behaviour exercises one of the parts, any   *)
(* of them, and leaves the others alone.                                   *)
(***************************************************************************)
EXTENDS Sequences, GatewayPolicy

CONSTANTS
    Parts,                                                 \* the parts to exercise
    Admins, Providers, Hosts, Owner, Credentials, RawIds, MaxSecretVersion,
    Callers, Scopes, Locks, Rules, Contents, Contexts, Disabled, MaxRuleVersion,
    Requests, Streamed, Endpoints, Models, Routed, Bindings, Fallback, Outcomes, RetryAfter,
    Reports, MaxAttempts, MaxTime,
    None

ASSUME GatewayAssumption ==
    /\ Parts \subseteq {"credentials", "catalog", "routes", "requests"}
    /\ {FailureThreshold, HalfOpenTimeout, CooldownCeiling, MaxAttempts} \subseteq Nat \ {0}
    /\ Owner \in [Hosts -> Providers]
    /\ Routed \subseteq Models
    /\ Fallback \in [Models -> Models \union {None}]
    /\ Reports \subseteq BOOLEAN
    /\ Outcomes \subseteq (Kind \ {"same_model_endpoint_exhausted"}) \union {"ok"}
    /\ \A b \in Bindings : b.model \in Models /\ b.endpoint \in Endpoints

VARIABLES
    part,                                                  \* the part exercised
    provider, endpoint, credential, secret, model, binding, active, op, discovery, reported,
    rule, lock, caller, published,
    now, state, quota, logged, receipts, req, tried

P == INSTANCE ProviderRegistry WITH Endpoints <- Hosts
L == INSTANCE RouteLocks
I == INSTANCE ModelInvocations

ASSUME NullAssumption == None \notin Credentials \union Locks \union L!Lock

registryVars == <<provider, endpoint, credential, secret, model, binding, active, op,
                  discovery, reported>>
routeVars == <<rule, lock, caller, published>>
requestVars == <<now, state, quota, logged, receipts, req, tried>>
vars == <<part, registryVars, routeVars, requestVars>>

Init == part \in Parts /\ P!RegistryInit /\ L!RouteInit /\ I!InvocationInit

Next ==
    /\ UNCHANGED part
    /\ \/ part = "credentials" /\ P!CredentialsNext /\ UNCHANGED <<routeVars, requestVars>>
       \/ part = "catalog" /\ P!CatalogNext /\ UNCHANGED <<routeVars, requestVars>>
       \/ part = "routes" /\ L!RouteNext /\ UNCHANGED <<registryVars, requestVars>>
       \/ part = "requests" /\ I!InvocationNext /\ UNCHANGED <<registryVars, routeVars>>

\* The event loop goes on with a request that waits for nobody, and a provider
\* answers or its call times out.
Fairness ==
    \A r \in Requests :
        /\ WF_vars(I!Proceed(r) /\ UNCHANGED <<part, registryVars, routeVars>>)
        /\ WF_vars(I!Reply(r) /\ UNCHANGED <<part, registryVars, routeVars>>)

Spec == Init /\ [][Next]_vars /\ Fairness

-----------------------------------------------------------------------------
(* Properties *)

\* The credential an endpoint is called with always finds its secret, although the
\* two are written in transactions of their own and rotations race; and however
\* discoveries overlap, requests are sent to it for all that the last one found, and for
\* nothing else but what others committed while that one was under way.
RegistrySound == P!SecretsOfActive /\ P!DiscoveryKept

\* A scope has one active lock, made from a rule as it was committed.
RoutesPinned == L!RoutesPinned

\* Nothing is sent again that a provider has answered, or begun to.
AnsweredOnce == I!AnsweredOnce

\* A receipt says what the provider answered.
ReceiptsTruthful == I!ReceiptsTruthful

\* Every request is answered or raises, whatever its providers do.
EveryRequestEnds == \A r \in Requests : []<>I!Ended(r)
=============================================================================
