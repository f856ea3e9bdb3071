---------------------------- MODULE GatewayPolicy ----------------------------
(***************************************************************************)
(* The decisions of the model gateway that keep no state of their own:     *)
(* modules/model_gateway/domain (failures and what to do about them, the   *)
(* circuit breaker, cooldowns, the choice of an endpoint, routing rules,   *)
(* the normalisation of model ids).                                        *)
(*                                                                         *)
(* Times are whole seconds.  A deadline that was never set is 0: no clock  *)
(* of this model is ever before it.                                        *)
(***************************************************************************)
EXTENDS Integers, FiniteSets

CONSTANTS
    FailureThreshold,   \* failures in a row that open the circuit
    HalfOpenTimeout,    \* seconds the circuit stays open
    CooldownCeiling     \* COOLDOWN_CEILING_SECONDS

(* Failures of a provider, and what the coordinator does about them *)

Transient == {"provider_unavailable", "network", "timeout"}

Kind == Transient \union
    {"provider_failure", "authentication", "permission", "rate_limit",
     "quota_exhausted", "model_not_found", "invalid_request", "context_overflow",
     "content_policy", "protocol_mismatch", "malformed_response", "cancellation",
     "same_model_endpoint_exhausted"}

\* The coordinator treats RETRY as FAILOVER: the endpoint is chosen anew.
Classify(kind, attempt) ==
    IF kind \in Transient
    THEN IF attempt < 1 THEN "retry" ELSE "failover"
    ELSE IF kind \in {"rate_limit", "quota_exhausted", "authentication", "permission",
                      "model_not_found"}
         THEN "failover"
         ELSE "stop"

FallbackEligible == Transient \union {"rate_limit", "same_model_endpoint_exhausted"}

(* Cooldowns and the circuit breaker *)

Capped(seconds) == IF seconds < CooldownCeiling THEN seconds ELSE CooldownCeiling

\* hint: the Retry-After of the reply, 1 when there is none or it cannot be read
Cooldown(kind, attempt, hint) ==
    IF kind = "rate_limit" THEN Capped(hint)
    ELSE IF kind \in Transient THEN Capped(2 ^ attempt) ELSE 0

EndpointState == [streak : Nat, cooldown : Nat, openUntil : Nat]

Fresh == [streak |-> 0, cooldown |-> 0, openUntil |-> 0]

Available(state, now) == now >= state.cooldown /\ now >= state.openUntil

AfterSuccess(state) == Fresh

Extend(current, candidate) == IF candidate > current THEN candidate ELSE current

AfterFailure(state, now, seconds) ==
    [streak |-> state.streak + 1,
     cooldown |-> IF seconds = 0 THEN state.cooldown ELSE Extend(state.cooldown, now + seconds),
     openUntil |-> IF state.streak + 1 >= FailureThreshold
                   THEN now + HalfOpenTimeout ELSE state.openUntil]

(* The choice of an endpoint *)

\* binding_is_selectable: only exact bindings, and a credential unless the
\* endpoint speaks the protocol of a local Ollama
Selectable(binding, state, now) ==
    /\ binding.enabled
    /\ binding.level = "exact_revision"
    /\ binding.credential \/ binding.protocol = "ollama"
    /\ Available(state, now)

\* All components of the score but the quota are the same for every candidate.
Score(hasQuota) == IF hasQuota THEN 5 ELSE 4

\* The first of the candidates sorted by score: equal ones come in any order.
Best(candidates, hasQuota) ==
    {c \in candidates : \A d \in candidates : Score(hasQuota[c]) >= Score(hasQuota[d])}

(* Routing rules *)

\* Every predicate of a rule has one of two shapes: it wants all of its labels
\* (capabilities, tools, vision, a context that long, local, private) among those
\* of the request, or the request's one agent type (workflow type, cost class,
\* preferred model) among those it lists.
Matches(rule, ctx) ==
    /\ rule.enabled
    /\ rule.labels \subseteq ctx.labels
    /\ rule.agents = {} \/ ctx.agent \in rule.agents

\* list_rules orders by priority alone: the first match among equals is any.
FirstMatch(rules, ctx) ==
    {r \in rules : Matches(r, ctx) /\ \A q \in rules : Matches(q, ctx) => r.priority <= q.priority}

(* Model ids: what is found in the raw id, "" for what is not *)

\* The canonical name leaves the vendor and the quantization out.
CanonicalName(id) == <<id.family, id.size, id.revision>>
=============================================================================
