-------------------------- MODULE ModelInvocations --------------------------
(***************************************************************************)
(* A request to a model, from the route it was given to its receipt:       *)
(* ModelGateway.invoke (modules/model_gateway/application/gateway.py) over *)
(* EndpointExecutionCoordinator (coordinator.py) and EndpointSelector      *)
(* (selector.py).                                                          *)
(*                                                                         *)
(* Each attempt chooses an endpoint in one transaction, calls it outside   *)
(* of any, and records the outcome in another one that reads the state of  *)
(* the endpoint and saves it again without a version: requests that are    *)
(* under way at the same time overwrite each other's record.  The provider *)
(* may answer with any of Outcomes.  RouteLocks is about the route.        *)
(***************************************************************************)
EXTENDS Sequences, GatewayPolicy

CONSTANTS
    Requests,      \* requests
    Streamed,      \* those that are made with execute_stream
    Endpoints,     \* endpoints
    Models,        \* canonical models
    Routed,        \* the models rules route to
    Bindings,      \* what list_selectable_bindings reads from the registry
    Fallback,      \* model -> fallback_model_id of the rule that routes to it, or None
    Outcomes,      \* what providers answer: "ok" or a kind of failure
    RetryAfter,    \* Retry-After hints
    Reports,       \* what discovery may say of quotas: that there is some, or none
    None,
    MaxAttempts,   \* max_attempts
    MaxTime        \* bound on the clock

VARIABLES
    now,       \* the clock, in seconds
    state,     \* model_gateway_endpoint_state
    quota,     \* model_gateway_quota_state: the endpoint's provider has quota
    logged,    \* ids in model_gateway_attempts
    receipts,  \* model_gateway_receipts
    req,       \* each request
    tried      \* what each request was answered, attempt by attempt

invocationVars == <<now, state, quota, logged, receipts, req, tried>>

\* An attempt's id is made of the second, the endpoint and the attempt.
AttemptId == [second : Nat, endpoint : Endpoints, index : Nat]

Receipt == [request : Requests, model : Models, endpoint : Endpoints \union {None},
            fallback : BOOLEAN, status : {"success", "failed"}]

Stage == {"idle", "choose", "call", "answered", "record", "receipt", "done", "raised"}

Request == [stage : Stage,
            streaming : BOOLEAN,               \* execute_stream
            model : Models \union {None},      \* of the lock in use
            primary : Models \union {None},    \* of the lock of the scope
            fallback : BOOLEAN,                \* the lock in use is a fallback lock
            index : Nat,                       \* attempt_index
            endpoint : Endpoints \union {None},
            outcome : Kind \union {"ok", None},
            hint : Nat,
            emitted : BOOLEAN,                 \* the stream has yielded an event
            second : Nat,                      \* when the outcome was noted
            next : EndpointState \union {None}] \* state to save

Idle == [stage |-> "idle", streaming |-> FALSE, model |-> None, primary |-> None, fallback |-> FALSE,
         index |-> 0, endpoint |-> None, outcome |-> None, hint |-> 1,
         emitted |-> FALSE, second |-> 0, next |-> None]

InvocationInit ==
    /\ now = 1
    /\ state = [e \in Endpoints |-> Fresh]
    /\ quota = [e \in Endpoints |-> TRUE]
    /\ logged = {}
    /\ receipts = {}
    /\ req = [r \in Requests |-> Idle]
    /\ tried = [r \in Requests |-> <<>>]

Becomes(r, update) == req' = [req EXCEPT ![r] = update]

At(r, stage) == req[r].stage = stage

-----------------------------------------------------------------------------
(* invoke: the route is resolved; execute_stream is called with a lock *)

\* The request of the payload, with the model its route is locked to
Submitted(r, model) ==
    [Idle EXCEPT !.stage = "choose", !.streaming = (r \in Streamed),
                 !.model = model, !.primary = model]

Begin(r, model) ==
    /\ At(r, "idle")
    /\ Becomes(r, Submitted(r, model))
    /\ UNCHANGED <<now, state, quota, logged, receipts, tried>>

\* The registry does not change while requests are under way here.
Candidates(model) ==
    {b.endpoint : b \in {c \in Bindings : c.model = model /\ Selectable(c, state[c.endpoint], now)}}

\* A ProviderFailure leaves execute.  invoke goes on with the fallback model when the
\* failure is eligible, the lock is the primary one and its rule names a fallback.
Resumed(q, kind) ==
    IF ~q.streaming /\ ~q.fallback /\ kind \in FallbackEligible
       /\ Fallback[q.primary] # None
    THEN [q EXCEPT !.stage = "choose", !.model = Fallback[q.primary], !.fallback = TRUE,
                   !.index = 0, !.endpoint = None, !.outcome = None]
    ELSE [q EXCEPT !.stage = IF q.streaming THEN "raised" ELSE "receipt", !.outcome = kind]

\* _top_candidate and _adapter_for
Choose(r) ==
    /\ At(r, "choose")
    /\ IF Candidates(req[r].model) = {}
       THEN Becomes(r, Resumed(req[r], "same_model_endpoint_exhausted"))
       ELSE \E e \in Best(Candidates(req[r].model), quota) :
               Becomes(r, [req[r] EXCEPT !.stage = "call", !.endpoint = e, !.emitted = FALSE])
    /\ UNCHANGED <<now, state, quota, logged, receipts, tried>>

\* A stream yields an event.
Emit(r) ==
    /\ At(r, "call") /\ req[r].streaming /\ ~req[r].emitted
    /\ Becomes(r, [req[r] EXCEPT !.emitted = TRUE])
    /\ UNCHANGED <<now, state, quota, logged, receipts, tried>>

\* The provider answers.
Answer(r, outcome, hint) ==
    /\ At(r, "call")
    /\ Becomes(r, [req[r] EXCEPT !.stage = "answered", !.outcome = outcome, !.hint = hint])
    /\ tried' = [tried EXCEPT ![r] = Append(@, [model |-> req[r].model,
                    endpoint |-> req[r].endpoint, outcome |-> outcome,
                    emitted |-> req[r].emitted, fallback |-> req[r].fallback])]
    /\ UNCHANGED <<now, state, quota, logged, receipts>>

-----------------------------------------------------------------------------
(* _record_success and _record_failure *)

\* The state of the endpoint is read, and aged by the circuit policy.
ReadState(r) ==
    LET q == req[r]
    IN  /\ At(r, "answered")
        /\ Becomes(r, [q EXCEPT !.stage = "record", !.second = now,
              !.next = IF q.outcome = "ok" THEN AfterSuccess(state[q.endpoint])
                       ELSE AfterFailure(state[q.endpoint], now,
                                         Cooldown(q.outcome, q.index, q.hint))])
        /\ UNCHANGED <<now, state, quota, logged, receipts, tried>>

\* Mutant of Advanced: a failure that has been given to the client in part, or
\* that says to stop, is tried again elsewhere.
AdvancedAlways(q) ==
    IF q.index + 1 < MaxAttempts
    THEN [q EXCEPT !.stage = "choose", !.index = @ + 1, !.next = None, !.endpoint = None,
                   !.outcome = None]
    ELSE Resumed([q EXCEPT !.next = None], "same_model_endpoint_exhausted")

\* After a failure is recorded: stop, or take the next attempt.
Advanced(q) ==
    IF Classify(q.outcome, q.index) = "stop" \/ q.emitted
    THEN IF q.streaming THEN [q EXCEPT !.stage = "done", !.next = None]
         ELSE Resumed([q EXCEPT !.next = None], q.outcome)
    ELSE AdvancedAlways(q)

LogId(q) == [second |-> q.second, endpoint |-> q.endpoint, index |-> q.index]

\* save_endpoint_state: the whole row, whatever it has become since it was read
SaveEndpointState(e, next) == state' = [state EXCEPT ![e] = next]

\* The state is saved and the attempt logged.
Record(r) ==
    LET q == req[r]
    IN  /\ At(r, "record")
        /\ LogId(q) \notin logged
        /\ SaveEndpointState(q.endpoint, q.next)
        /\ logged' = logged \union {LogId(q)}
        /\ Becomes(r, IF q.outcome # "ok" THEN Advanced(q)
                      ELSE [q EXCEPT !.stage = IF q.streaming THEN "done" ELSE "receipt",
                                     !.next = None])
        /\ UNCHANGED <<now, quota, receipts, tried>>

\* Mutant of RecordRefused: the outcome is recorded again, under the same id.
RecordRetried(r) ==
    /\ At(r, "record")
    /\ LogId(req[r]) \in logged
    /\ Becomes(r, [req[r] EXCEPT !.stage = "answered", !.next = None])
    /\ UNCHANGED <<now, state, quota, logged, receipts, tried>>

\* Another attempt of this second has the id: the insert fails, the transaction is
\* rolled back, and the error of the database goes to the caller of invoke.
RecordRefused(r) ==
    /\ At(r, "record")
    /\ LogId(req[r]) \in logged
    /\ Becomes(r, [req[r] EXCEPT !.stage = "raised", !.next = None])
    /\ UNCHANGED <<now, state, quota, logged, receipts, tried>>

\* Mutant of ReceiptOf: the receipt names the model that was asked for first.
ReceiptOfPrimary(r) ==
    [request |-> r, model |-> req[r].primary,
     endpoint |-> IF req[r].outcome = "ok" THEN req[r].endpoint ELSE None,
     fallback |-> req[r].outcome = "ok" /\ req[r].fallback,
     status |-> IF req[r].outcome = "ok" THEN "success" ELSE "failed"]

\* A failed receipt is about the primary lock, a successful one about the lock used.
ReceiptOf(r) ==
    IF req[r].outcome = "ok"
    THEN [request |-> r, model |-> req[r].model, endpoint |-> req[r].endpoint,
          fallback |-> req[r].fallback, status |-> "success"]
    ELSE [request |-> r, model |-> req[r].primary, endpoint |-> None,
          fallback |-> FALSE, status |-> "failed"]

InsertReceipt(r) == receipts' = receipts \union {ReceiptOf(r)}

\* The receipt is written, unless that fails, which is not an error of the request.
WriteReceipt(r, written) ==
    /\ At(r, "receipt")
    /\ IF written THEN InsertReceipt(r) ELSE UNCHANGED receipts
    /\ Becomes(r, [req[r] EXCEPT !.stage = IF req[r].outcome = "ok" THEN "done" ELSE "raised"])
    /\ UNCHANGED <<now, state, quota, logged, tried>>

-----------------------------------------------------------------------------

SaveQuotaState(e, has) == quota' = [quota EXCEPT ![e] = has]

\* record_quota
RecordQuota(e, has) ==
    /\ quota[e] # has
    /\ SaveQuotaState(e, has)
    /\ UNCHANGED <<now, state, logged, receipts, req, tried>>

Tick ==
    /\ now < MaxTime
    /\ now' = now + 1
    /\ UNCHANGED <<state, quota, logged, receipts, req, tried>>

\* What the process does for a request without waiting for the provider
Proceed(r) ==
    Choose(r) \/ ReadState(r) \/ Record(r) \/ RecordRefused(r)
    \/ \E written \in BOOLEAN : WriteReceipt(r, written)

Reply(r) == \E outcome \in Outcomes, hint \in RetryAfter : Answer(r, outcome, hint)

InvocationNext ==
    \/ \E r \in Requests : \/ \E m \in Routed : Begin(r, m)
                           \/ Emit(r) \/ Reply(r) \/ Proceed(r)
    \/ \E e \in Endpoints, has \in Reports : RecordQuota(e, has)
    \/ Tick

-----------------------------------------------------------------------------
(* Properties *)

InvocationTypeOK ==
    /\ now \in 1..MaxTime
    /\ state \in [Endpoints -> EndpointState]
    /\ quota \in [Endpoints -> BOOLEAN]
    /\ logged \subseteq AttemptId
    /\ receipts \subseteq Receipt
    /\ req \in [Requests -> Request]

\* What a request was answered before its last answer.
Earlier(r) == {tried[r][i] : i \in 1..(Len(tried[r]) - 1)}

\* Nothing is sent again that a provider has answered: an attempt is followed by
\* another one only when it failed with nothing given to the client, and with a
\* failure that is no reason to stop.  The fallback model comes last, and never
\* for a stream.
AnsweredOnce ==
    \A r \in Requests :
        /\ \A t \in Earlier(r) :
              t.outcome # "ok" /\ ~t.emitted /\ Classify(t.outcome, 0) # "stop"
        /\ \A i, j \in 1..Len(tried[r]) :
              i <= j /\ tried[r][i].fallback => tried[r][j].fallback /\ ~req[r].streaming

\* A receipt says what the provider answered: the model and endpoint of the
\* attempt that succeeded, one that is bound to that model, or that every
\* attempt failed.
ReceiptsTruthful ==
    \A p \in receipts :
        LET answers == tried[p.request]
        IN  IF p.status = "success"
            THEN LET t == answers[Len(answers)]
                 IN  /\ <<"ok", p.model, p.endpoint, p.fallback>>
                            = <<t.outcome, t.model, t.endpoint, t.fallback>>
                     /\ \E b \in Bindings : b.model = p.model /\ b.endpoint = p.endpoint
            ELSE \A i \in 1..Len(answers) : answers[i].outcome # "ok"

\* No request goes on for ever: each is answered or raises.
Ended(r) == req[r].stage \in {"idle", "done", "raised"}
=============================================================================
