------------------------- MODULE ModelGatewayProofs -------------------------
(***************************************************************************)
(* What holds of ModelGateway for every set of providers, routes, requests *)
(* and callers: proofs of the invariants that the run model_gateway checks *)
(* on a small instance.  That every request ends is left to TLC.           *)
(***************************************************************************)
EXTENDS ModelGateway, FiniteSetTheorems, TLAPS

-----------------------------------------------------------------------------
(* Requests *)

\* An attempt that may be followed by another one.
Continues(t) == t.outcome # "ok" /\ ~t.emitted /\ I!Classify(t.outcome, 0) # "stop"

Answers == [model : Models \union {None}, endpoint : Endpoints \union {None},
            outcome : Outcomes, emitted : BOOLEAN, fallback : BOOLEAN]

\* A request is a record of its fields.
Shaped(q) ==
    /\ q = [stage |-> q.stage, streaming |-> q.streaming, model |-> q.model,
            primary |-> q.primary, fallback |-> q.fallback, index |-> q.index,
            endpoint |-> q.endpoint, outcome |-> q.outcome, hint |-> q.hint,
            emitted |-> q.emitted, second |-> q.second, next |-> q.next]
    /\ q.stage \in I!Stage
    /\ q.streaming \in BOOLEAN /\ q.fallback \in BOOLEAN /\ q.emitted \in BOOLEAN
    /\ q.model \in Models \union {None}
    /\ q.endpoint \in Endpoints \union {None}
    /\ q.stage # "idle" => q.primary \in Models

Bound(m, e) == \E b \in Bindings : b.model = m /\ b.endpoint = e

\* The last answer is the one the request is about to record.
Latest(q, answers) ==
    /\ Len(answers) > 0
    /\ LET t == answers[Len(answers)]
       IN  /\ t.outcome = q.outcome /\ t.model = q.model /\ t.endpoint = q.endpoint
           /\ t.emitted = q.emitted /\ t.fallback = q.fallback

\* What a request remembers of its answers, in each of its stages.
Follows(q, answers) ==
    /\ \A i \in 1..(Len(answers) - 1) : Continues(answers[i])
    /\ q.stage = "idle" => answers = <<>>
    /\ q.stage \in {"choose", "call"} => \A i \in 1..Len(answers) : Continues(answers[i])
    /\ q.stage \in {"answered", "record"} => Latest(q, answers)
    /\ q.stage = "receipt" =>
          IF q.outcome = "ok" THEN Latest(q, answers)
          ELSE \A i \in 1..Len(answers) : answers[i].outcome # "ok"
    /\ q.stage \in {"call", "answered", "record"} => Bound(q.model, q.endpoint)
    /\ q.stage = "receipt" /\ q.outcome = "ok" => Bound(q.model, q.endpoint)

\* The fallback model comes last and never for a stream, and only a stream emits.
FallbackLast(q, answers) ==
    /\ q.fallback => ~q.streaming
    /\ q.emitted => q.streaming
    /\ \A i \in 1..Len(answers) : answers[i].fallback => q.fallback
    /\ \A i, j \in 1..Len(answers) : i <= j /\ answers[i].fallback => answers[j].fallback

RequestSound(q, answers) == Shaped(q) /\ Follows(q, answers) /\ FallbackLast(q, answers)

\* The inductive invariant of the requests.
RequestsInv ==
    /\ req = [r \in Requests |-> req[r]]
    /\ tried \in [Requests -> Seq(Answers)]
    /\ \A r \in Requests : RequestSound(req[r], tried[r])
    /\ receipts \subseteq I!Receipt
    /\ \A p \in receipts : req[p.request].stage \in {"done", "raised"}
    /\ I!ReceiptsTruthful

\* Whether a failure is a reason to stop does not depend on the attempt, and such
\* a failure of a provider is not followed by the fallback model.
LEMMA StopsAreFinal ==
    ASSUME NEW k \in Outcomes, NEW n
    PROVE  /\ I!Classify(k, n) = "stop" <=> I!Classify(k, 0) = "stop"
           /\ I!Classify(k, n) = "stop" => k \notin I!FallbackEligible
BY GatewayAssumption DEF I!Classify, I!Transient, I!FallbackEligible, Kind, Transient

\* A request that goes on leaves the others, and every receipt, as they are.
LEMMA RequestMoves ==
    ASSUME RequestsInv, NEW r \in Requests, NEW q, NEW answers,
           req[r].stage \notin {"done", "raised"},
           req' = [req EXCEPT ![r] = q], tried' = [tried EXCEPT ![r] = answers],
           answers \in Seq(Answers),
           receipts' = receipts, RequestSound(q, answers)
    PROVE  RequestsInv'
<1>1. \A p \in receipts : p.request \in Requests /\ p.request # r
    BY DEF RequestsInv, I!Receipt
<1>2. /\ req' = [s \in Requests |-> req'[s]]
      /\ \A s \in Requests : req'[s] = IF s = r THEN q ELSE req[s]
    BY DEF RequestsInv
<1>3. /\ tried' \in [Requests -> Seq(Answers)]
      /\ \A s \in Requests : tried'[s] = IF s = r THEN answers ELSE tried[s]
    BY DEF RequestsInv
<1>4. \A s \in Requests : RequestSound(req'[s], tried'[s])
    BY <1>2, <1>3 DEF RequestsInv
<1>5. \A p \in receipts : req'[p.request].stage \in {"done", "raised"}
    BY <1>1, <1>2 DEF RequestsInv
<1>6. \A p \in receipts : tried'[p.request] = tried[p.request]
    BY <1>1, <1>3
<1>7. I!ReceiptsTruthful'
    BY <1>6 DEF RequestsInv, I!ReceiptsTruthful
<1> QED BY <1>2, <1>3, <1>4, <1>5, <1>7 DEF RequestsInv

\* A step that keeps the answers.
LEMMA RequestGoesOn ==
    ASSUME RequestsInv, NEW r \in Requests, NEW q,
           req[r].stage \notin {"done", "raised"},
           req' = [req EXCEPT ![r] = q], tried' = tried,
           receipts' = receipts, RequestSound(q, tried[r])
    PROVE  RequestsInv'
<1>1. tried' = [tried EXCEPT ![r] = tried[r]] /\ tried[r] \in Seq(Answers)
    BY DEF RequestsInv
<1> QED BY <1>1, RequestMoves

\* invoke begins with the model the route is locked to.
LEMMA BeginPreserves ==
    ASSUME RequestsInv, NEW r \in Requests, NEW m \in Routed, I!Begin(r, m)
    PROVE  RequestsInv'
<1> DEFINE q == I!Submitted(r, m)
           streamed == r \in Streamed
<1>0. streamed \in BOOLEAN
    OBVIOUS
<1>a. q = [I!Idle EXCEPT !.stage = "choose", !.streaming = streamed, !.model = m, !.primary = m]
    BY DEF I!Submitted
<1> HIDE DEF q, streamed
<1>1. q = [stage |-> "choose", streaming |-> streamed, model |-> m, primary |-> m,
           fallback |-> FALSE, index |-> 0, endpoint |-> None, outcome |-> None, hint |-> 1,
           emitted |-> FALSE, second |-> 0, next |-> None]
    BY <1>a DEF I!Idle
<1>2. Shaped(q)
    BY <1>0, <1>1, GatewayAssumption DEF Shaped, I!Stage
<1>3. req[r].stage = "idle" /\ req' = [req EXCEPT ![r] = q] /\ tried' = tried
      /\ receipts' = receipts
    BY DEF I!Begin, I!At, I!Becomes, q
<1>4. tried[r] = <<>>
    BY <1>3 DEF RequestsInv, RequestSound, Follows
<1>5. RequestSound(q, <<>>)
    BY <1>1, <1>2 DEF RequestSound, Follows, FallbackLast
<1> QED BY <1>3, <1>4, <1>5, RequestGoesOn

\* A failure that leaves execute ends in the fallback model, in a receipt that says
\* so, or with the stream.
LEMMA ResumedSound ==
    ASSUME NEW q, NEW kind, NEW answers \in Seq(Answers), Shaped(q), q.stage # "idle",
           FallbackLast(q, answers), kind # "ok",
           \A i \in 1..Len(answers) : answers[i].outcome # "ok",
           \A i \in 1..(Len(answers) - 1) : Continues(answers[i]),
           kind \in I!FallbackEligible => \A i \in 1..Len(answers) : Continues(answers[i])
    PROVE  RequestSound(I!Resumed(q, kind), answers)
<1> DEFINE p == I!Resumed(q, kind)
<1>1. CASE /\ ~q.streaming /\ ~q.fallback /\ kind \in I!FallbackEligible
           /\ Fallback[q.primary] # None
    <2>1. p = [q EXCEPT !.stage = "choose", !.model = Fallback[q.primary], !.fallback = TRUE,
                        !.index = 0, !.endpoint = None, !.outcome = None]
        BY <1>1 DEF I!Resumed
    <2> HIDE DEF p
    <2>2. p = [stage |-> "choose", streaming |-> q.streaming, model |-> Fallback[q.primary],
               primary |-> q.primary, fallback |-> TRUE, index |-> 0, endpoint |-> None,
               outcome |-> None, hint |-> q.hint, emitted |-> q.emitted,
               second |-> q.second, next |-> q.next]
        BY <2>1 DEF Shaped
    <2>3. Shaped(p)
        <3>1. q.primary \in Models
            BY DEF Shaped
        <3>2. Fallback[q.primary] \in Models \union {None}
            BY <3>1, GatewayAssumption
        <3> QED BY <2>2, <3>1, <3>2 DEF Shaped, I!Stage
    <2>4. Follows(p, answers)
        BY <1>1, <2>2 DEF Follows
    <2>5. FallbackLast(p, answers)
        BY <1>1, <2>2 DEF FallbackLast
    <2> QED BY <2>3, <2>4, <2>5 DEF RequestSound, p
<1>2. CASE ~(/\ ~q.streaming /\ ~q.fallback /\ kind \in I!FallbackEligible
             /\ Fallback[q.primary] # None)
    <2> DEFINE stage == IF q.streaming THEN "raised" ELSE "receipt"
    <2>1. p = [q EXCEPT !.stage = stage, !.outcome = kind] /\ stage \in {"raised", "receipt"}
        BY <1>2 DEF I!Resumed
    <2> HIDE DEF p, stage
    <2>2. p = [stage |-> stage, streaming |-> q.streaming, model |-> q.model,
               primary |-> q.primary, fallback |-> q.fallback, index |-> q.index,
               endpoint |-> q.endpoint, outcome |-> kind, hint |-> q.hint,
               emitted |-> q.emitted, second |-> q.second, next |-> q.next]
        BY <2>1 DEF Shaped
    <2>3. Shaped(p)
        BY <2>1, <2>2 DEF Shaped, I!Stage
    <2>4. Follows(p, answers)
        BY <2>1, <2>2 DEF Follows
    <2>5. FallbackLast(p, answers)
        BY <2>2 DEF FallbackLast
    <2> QED BY <2>3, <2>4, <2>5 DEF RequestSound, p
<1> QED BY <1>1, <1>2

\* An endpoint that is bound to the model is chosen, or there is none.
LEMMA ChoosePreserves ==
    ASSUME RequestsInv, NEW r \in Requests, I!Choose(r)
    PROVE  RequestsInv'
<1> DEFINE old == req[r]
           answers == tried[r]
<1>1. /\ RequestSound(old, answers) /\ answers \in Seq(Answers)
      /\ old.stage = "choose" /\ tried' = tried /\ receipts' = receipts
    BY DEF RequestsInv, I!Choose, I!At
<1>2. /\ \A i \in 1..Len(answers) : Continues(answers[i])
      /\ \A i \in 1..(Len(answers) - 1) : Continues(answers[i])
      /\ FallbackLast(old, answers) /\ Shaped(old)
    BY <1>1 DEF RequestSound, Follows
<1>3. CASE I!Candidates(old.model) = {}
    <2> DEFINE q == I!Resumed(old, "same_model_endpoint_exhausted")
    <2>1. req' = [req EXCEPT ![r] = q]
        BY <1>3 DEF I!Choose, I!Becomes
    <2>2. \A i \in 1..Len(answers) : answers[i].outcome # "ok"
        BY <1>2 DEF Continues
    <2> HIDE DEF old, answers
    <2>3. RequestSound(q, answers)
        BY <1>1, <1>2, <2>2, ResumedSound
    <2> HIDE DEF q
    <2> QED BY <1>1, <2>1, <2>3, RequestGoesOn DEF old, answers
<1>4. CASE I!Candidates(old.model) # {}
    <2>1. PICK e \in I!Best(I!Candidates(old.model), quota) :
             req' = [req EXCEPT ![r] = [old EXCEPT !.stage = "call", !.endpoint = e,
                                                   !.emitted = FALSE]]
        BY <1>4 DEF I!Choose, I!Becomes
    <2>2. PICK b \in Bindings : b.model = old.model /\ b.endpoint = e
        BY <2>1 DEF I!Best, I!Candidates
    <2>3. b.endpoint \in Endpoints
        BY <2>2, GatewayAssumption
    <2> DEFINE q == [old EXCEPT !.stage = "call", !.endpoint = e, !.emitted = FALSE]
    <2> HIDE DEF old, answers
    <2>b. q = [old EXCEPT !.stage = "call", !.endpoint = e, !.emitted = FALSE]
        OBVIOUS
    <2>c. req' = [req EXCEPT ![r] = q]
        BY <2>1
    <2> HIDE DEF q
    <2>4. q = [stage |-> "call", streaming |-> old.streaming, model |-> old.model,
               primary |-> old.primary, fallback |-> old.fallback, index |-> old.index,
               endpoint |-> e, outcome |-> old.outcome, hint |-> old.hint,
               emitted |-> FALSE, second |-> old.second, next |-> old.next]
        BY <1>2, <2>b DEF Shaped
    <2>6. Shaped(q)
        BY <1>1, <1>2, <2>2, <2>3, <2>4 DEF Shaped, I!Stage
    <2>7. Follows(q, answers)
        BY <1>2, <2>2, <2>4 DEF Follows, Bound
    <2>8. FallbackLast(q, answers)
        BY <1>2, <2>4 DEF FallbackLast
    <2>9. RequestSound(q, answers)
        BY <2>6, <2>7, <2>8 DEF RequestSound
    <2> QED BY <1>1, <2>c, <2>9, RequestGoesOn DEF old, answers
<1> QED BY <1>3, <1>4

\* Only a stream gives the client a part of an answer.
LEMMA EmitPreserves ==
    ASSUME RequestsInv, NEW r \in Requests, I!Emit(r)
    PROVE  RequestsInv'
<1> DEFINE old == req[r]
           answers == tried[r]
           q == [old EXCEPT !.emitted = TRUE]
<1>1. /\ RequestSound(old, answers) /\ tried' = tried /\ receipts' = receipts
      /\ old.stage = "call" /\ old.streaming /\ req' = [req EXCEPT ![r] = q]
    BY DEF RequestsInv, I!Emit, I!At, I!Becomes
<1> HIDE DEF old, answers
<1>2. Shaped(old) /\ Follows(old, answers) /\ FallbackLast(old, answers)
    BY <1>1 DEF RequestSound
<1>b. q = [old EXCEPT !.emitted = TRUE]
    OBVIOUS
<1> HIDE DEF q
<1>3. q = [stage |-> old.stage, streaming |-> old.streaming, model |-> old.model,
           primary |-> old.primary, fallback |-> old.fallback, index |-> old.index,
           endpoint |-> old.endpoint, outcome |-> old.outcome, hint |-> old.hint,
           emitted |-> TRUE, second |-> old.second, next |-> old.next]
    BY <1>2, <1>b DEF Shaped
<1> HIDE DEF q
<1>4. Shaped(q)
    BY <1>2, <1>3 DEF Shaped
<1>5. Follows(q, answers)
    BY <1>1, <1>2, <1>3 DEF Follows
<1>6. FallbackLast(q, answers)
    BY <1>1, <1>2, <1>3 DEF FallbackLast
<1>7. RequestSound(q, answers)
    BY <1>4, <1>5, <1>6 DEF RequestSound
<1> QED BY <1>1, <1>7, RequestGoesOn DEF old, answers

\* The answer is added to those of the attempts before, none of which was final.
LEMMA AnswerPreserves ==
    ASSUME RequestsInv, NEW r \in Requests, NEW outcome \in Outcomes, NEW hint \in RetryAfter,
           I!Answer(r, outcome, hint)
    PROVE  RequestsInv'
<1> DEFINE old == req[r]
           answers == tried[r]
           q == [old EXCEPT !.stage = "answered", !.outcome = outcome, !.hint = hint]
           t == [model |-> old.model, endpoint |-> old.endpoint, outcome |-> outcome,
                 emitted |-> old.emitted, fallback |-> old.fallback]
           longer == Append(answers, t)
<1>1. /\ RequestSound(old, answers) /\ receipts' = receipts /\ answers \in Seq(Answers)
      /\ old.stage = "call" /\ req' = [req EXCEPT ![r] = q]
      /\ tried' = [tried EXCEPT ![r] = longer]
    BY DEF RequestsInv, I!Answer, I!At, I!Becomes
<1> HIDE DEF old, answers
<1>2. Shaped(old) /\ Follows(old, answers) /\ FallbackLast(old, answers)
    BY <1>1 DEF RequestSound
<1>b. q = [old EXCEPT !.stage = "answered", !.outcome = outcome, !.hint = hint]
    OBVIOUS
<1> HIDE DEF q
<1>3. q = [stage |-> "answered", streaming |-> old.streaming, model |-> old.model,
           primary |-> old.primary, fallback |-> old.fallback, index |-> old.index,
           endpoint |-> old.endpoint, outcome |-> outcome, hint |-> hint,
           emitted |-> old.emitted, second |-> old.second, next |-> old.next]
    BY <1>2, <1>b DEF Shaped
<1>4. t \in Answers
    BY <1>2 DEF Shaped, Answers
<1>5. /\ t.outcome = outcome /\ t.model = old.model /\ t.endpoint = old.endpoint
      /\ t.emitted = old.emitted /\ t.fallback = old.fallback
    OBVIOUS
<1> HIDE DEF q, t
<1>6. /\ longer \in Seq(Answers) /\ Len(longer) = Len(answers) + 1
      /\ longer[Len(longer)] = t
      /\ \A i \in 1..Len(answers) : longer[i] = answers[i]
      /\ Len(answers) \in Nat
    BY <1>1, <1>4
<1> HIDE DEF longer
<1>7. Shaped(q)
    BY <1>1, <1>2, <1>3 DEF Shaped, I!Stage
<1>8. Follows(q, longer)
    <2>1. \A i \in 1..Len(answers) : Continues(answers[i])
        BY <1>1, <1>2 DEF Follows
    <2>2. \A i \in 1..(Len(longer) - 1) : Continues(longer[i])
        BY <2>1, <1>6
    <2>3. Latest(q, longer)
        BY <1>3, <1>5, <1>6 DEF Latest
    <2>4. Bound(q.model, q.endpoint)
        BY <1>1, <1>2, <1>3 DEF Follows
    <2> QED BY <2>2, <2>3, <2>4, <1>3 DEF Follows
<1>9. FallbackLast(q, longer)
    <2>1. \A i \in 1..Len(longer) : longer[i].fallback => q.fallback
        BY <1>2, <1>3, <1>5, <1>6 DEF FallbackLast
    <2>2. \A i, j \in 1..Len(longer) : i <= j /\ longer[i].fallback => longer[j].fallback
        <3> SUFFICES ASSUME NEW i \in 1..Len(longer), NEW j \in 1..Len(longer),
                            i <= j, longer[i].fallback
                     PROVE  longer[j].fallback
            OBVIOUS
        <3>1. CASE j = Len(longer)
            BY <3>1, <1>5, <1>6, <1>3, <2>1
        <3>2. CASE j # Len(longer)
            <4>1. i \in 1..Len(answers) /\ j \in 1..Len(answers)
                BY <3>2, <1>6
            <4> QED BY <4>1, <1>6, <1>2 DEF FallbackLast
        <3> QED BY <3>1, <3>2
    <2> QED BY <2>1, <2>2, <1>2, <1>3 DEF FallbackLast
<1>10. RequestSound(q, longer)
    BY <1>7, <1>8, <1>9 DEF RequestSound
<1> QED BY <1>1, <1>6, <1>10, RequestMoves DEF old

\* Reading the state of the endpoint keeps the answer that is to be recorded.
LEMMA ReadStatePreserves ==
    ASSUME RequestsInv, NEW r \in Requests, I!ReadState(r)
    PROVE  RequestsInv'
<1> DEFINE old == req[r]
           answers == tried[r]
           aged == IF old.outcome = "ok" THEN I!AfterSuccess(state[old.endpoint])
                   ELSE I!AfterFailure(state[old.endpoint], now,
                                       I!Cooldown(old.outcome, old.index, old.hint))
           q == [old EXCEPT !.stage = "record", !.second = now, !.next = aged]
<1>1. /\ RequestSound(old, answers) /\ tried' = tried /\ receipts' = receipts
      /\ old.stage = "answered" /\ req' = [req EXCEPT ![r] = q]
    BY DEF RequestsInv, I!ReadState, I!At, I!Becomes
<1> HIDE DEF old, answers, aged
<1>2. Shaped(old) /\ Follows(old, answers) /\ FallbackLast(old, answers)
    BY <1>1 DEF RequestSound
<1>b. q = [old EXCEPT !.stage = "record", !.second = now, !.next = aged]
    OBVIOUS
<1> HIDE DEF q
<1>3. q = [stage |-> "record", streaming |-> old.streaming, model |-> old.model,
           primary |-> old.primary, fallback |-> old.fallback, index |-> old.index,
           endpoint |-> old.endpoint, outcome |-> old.outcome, hint |-> old.hint,
           emitted |-> old.emitted, second |-> now, next |-> aged]
    BY <1>2, <1>b DEF Shaped
<1> HIDE DEF q
<1>4. Shaped(q)
    BY <1>1, <1>2, <1>3 DEF Shaped, I!Stage
<1>5. Follows(q, answers)
    BY <1>1, <1>2, <1>3 DEF Follows, Latest
<1>6. FallbackLast(q, answers)
    BY <1>2, <1>3 DEF FallbackLast
<1>7. RequestSound(q, answers)
    BY <1>4, <1>5, <1>6 DEF RequestSound
<1> QED BY <1>1, <1>7, RequestGoesOn DEF old, answers

\* What follows a failure that is recorded: the next attempt, the fallback model or
\* the end, as the failure and what was already given to the client allow.
LEMMA AdvancedSound ==
    ASSUME NEW q, NEW answers \in Seq(Answers), RequestSound(q, answers),
           q.stage = "record", q.outcome # "ok"
    PROVE  RequestSound(I!Advanced(q), answers)
<1> DEFINE p == I!Advanced(q)
           cleared == [q EXCEPT !.next = None]
<1>1. Shaped(q) /\ Follows(q, answers) /\ FallbackLast(q, answers) /\ Latest(q, answers)
    BY DEF RequestSound, Follows
<1>2. Len(answers) \in Nat /\ Len(answers) > 0 /\ answers[Len(answers)] \in Answers
    BY <1>1 DEF Latest
<1>3. q.outcome \in Outcomes
    BY <1>1, <1>2 DEF Latest, Answers
<1>4. \A i \in 1..(Len(answers) - 1) : Continues(answers[i])
    BY <1>1 DEF Follows
<1>5. \A i \in 1..Len(answers) : answers[i].outcome # "ok"
    BY <1>1, <1>2, <1>4 DEF Latest, Continues
<1>6. cleared = [stage |-> q.stage, streaming |-> q.streaming, model |-> q.model,
                 primary |-> q.primary, fallback |-> q.fallback, index |-> q.index,
                 endpoint |-> q.endpoint, outcome |-> q.outcome, hint |-> q.hint,
                 emitted |-> q.emitted, second |-> q.second, next |-> None]
    <2>1. cleared = [q EXCEPT !.next = None]
        OBVIOUS
    <2> HIDE DEF cleared
    <2> QED BY <1>1, <2>1 DEF Shaped
<1> HIDE DEF cleared
<1>7. Shaped(cleared) /\ FallbackLast(cleared, answers) /\ cleared.stage # "idle"
    <2>1. Shaped(cleared)
        BY <1>1, <1>6 DEF Shaped
    <2>2. FallbackLast(cleared, answers)
        BY <1>1, <1>6 DEF FallbackLast
    <2> QED BY <2>1, <2>2, <1>6
<1>8. CASE I!Classify(q.outcome, q.index) = "stop" \/ q.emitted
    <2>1. CASE q.streaming
        <3>1. p = [q EXCEPT !.stage = "done", !.next = None]
            BY <1>8, <2>1 DEF I!Advanced
        <3> HIDE DEF p
        <3>2. p = [stage |-> "done", streaming |-> q.streaming, model |-> q.model,
                   primary |-> q.primary, fallback |-> q.fallback, index |-> q.index,
                   endpoint |-> q.endpoint, outcome |-> q.outcome, hint |-> q.hint,
                   emitted |-> q.emitted, second |-> q.second, next |-> None]
            BY <1>1, <3>1 DEF Shaped
        <3>3. Shaped(p)
            BY <1>1, <3>2 DEF Shaped, I!Stage
        <3>4. Follows(p, answers)
            BY <1>4, <3>2 DEF Follows
        <3>5. FallbackLast(p, answers)
            BY <1>1, <3>2 DEF FallbackLast
        <3> QED BY <3>3, <3>4, <3>5 DEF RequestSound, p
    <2>2. CASE ~q.streaming
        <3>1. p = I!Resumed(cleared, q.outcome)
            BY <1>8, <2>2 DEF I!Advanced, cleared
        <3>2. ~q.emitted
            BY <2>2, <1>1 DEF FallbackLast
        <3>3. q.outcome \notin I!FallbackEligible
            BY <1>8, <3>2, <1>3, StopsAreFinal
        <3> HIDE DEF p
        <3>4. RequestSound(I!Resumed(cleared, q.outcome), answers)
            BY <1>4, <1>5, <1>7, <3>3, ResumedSound
        <3> QED BY <3>1, <3>4 DEF p
    <2> QED BY <2>1, <2>2, <1>1 DEF Shaped
<1>9. CASE ~(I!Classify(q.outcome, q.index) = "stop" \/ q.emitted)
    <2>1. \A i \in 1..Len(answers) : Continues(answers[i])
        <3>1. I!Classify(q.outcome, 0) # "stop"
            BY <1>9, <1>3, StopsAreFinal
        <3>2. Continues(answers[Len(answers)])
            BY <1>1, <1>9, <3>1 DEF Latest, Continues
        <3> QED BY <1>2, <1>4, <3>2
    <2>2. CASE q.index + 1 < MaxAttempts
        <3> DEFINE index == q.index + 1
        <3>1. p = [q EXCEPT !.stage = "choose", !.index = index, !.next = None,
                            !.endpoint = None, !.outcome = None]
            BY <1>9, <2>2 DEF I!Advanced, I!AdvancedAlways
        <3> HIDE DEF p, index
        <3>2. p = [stage |-> "choose", streaming |-> q.streaming, model |-> q.model,
                   primary |-> q.primary, fallback |-> q.fallback, index |-> index,
                   endpoint |-> None, outcome |-> None, hint |-> q.hint,
                   emitted |-> q.emitted, second |-> q.second, next |-> None]
            BY <1>1, <3>1 DEF Shaped
        <3>3. Shaped(p)
            BY <1>1, <3>2 DEF Shaped, I!Stage
        <3>4. Follows(p, answers)
            BY <1>4, <2>1, <3>2 DEF Follows
        <3>5. FallbackLast(p, answers)
            BY <1>1, <3>2 DEF FallbackLast
        <3> QED BY <3>3, <3>4, <3>5 DEF RequestSound, p
    <2>3. CASE ~(q.index + 1 < MaxAttempts)
        <3>1. p = I!Resumed(cleared, "same_model_endpoint_exhausted")
            BY <1>9, <2>3 DEF I!Advanced, I!AdvancedAlways, cleared
        <3>2. RequestSound(I!Resumed(cleared, "same_model_endpoint_exhausted"), answers)
            BY <1>4, <1>5, <1>7, <2>1, ResumedSound
        <3> HIDE DEF p
        <3> QED BY <3>1, <3>2 DEF p
    <2> QED BY <2>2, <2>3
<1> QED BY <1>8, <1>9

\* The outcome is recorded, and the request ends or goes on.
LEMMA RecordPreserves ==
    ASSUME RequestsInv, NEW r \in Requests, I!Record(r)
    PROVE  RequestsInv'
<1> DEFINE old == req[r]
           answers == tried[r]
           stage == IF old.streaming THEN "done" ELSE "receipt"
           q == IF old.outcome # "ok" THEN I!Advanced(old)
                ELSE [old EXCEPT !.stage = stage, !.next = None]
<1>1. /\ RequestSound(old, answers) /\ tried' = tried /\ receipts' = receipts
      /\ old.stage = "record" /\ req' = [req EXCEPT ![r] = q]
      /\ answers \in Seq(Answers) /\ stage \in {"done", "receipt"}
    BY DEF RequestsInv, I!Record, I!At, I!Becomes
<1> HIDE DEF old, answers, stage
<1>2. RequestSound(q, answers)
    <2>1. CASE old.outcome # "ok"
        <3>1. q = I!Advanced(old)
            BY <2>1
        <3> HIDE DEF q
        <3> QED BY <1>1, <2>1, <3>1, AdvancedSound
    <2>2. CASE old.outcome = "ok"
        <3>1. q = [old EXCEPT !.stage = stage, !.next = None]
            BY <2>2
        <3> HIDE DEF q
        <3>2. Shaped(old) /\ Follows(old, answers) /\ FallbackLast(old, answers)
            BY <1>1 DEF RequestSound
        <3>3. q = [stage |-> stage, streaming |-> old.streaming, model |-> old.model,
                   primary |-> old.primary, fallback |-> old.fallback, index |-> old.index,
                   endpoint |-> old.endpoint, outcome |-> old.outcome, hint |-> old.hint,
                   emitted |-> old.emitted, second |-> old.second, next |-> None]
            BY <3>1, <3>2 DEF Shaped
        <3>4. Shaped(q)
            BY <1>1, <3>2, <3>3 DEF Shaped, I!Stage
        <3>5. Follows(q, answers)
            BY <1>1, <2>2, <3>2, <3>3 DEF Follows, Latest
        <3>6. FallbackLast(q, answers)
            BY <3>2, <3>3 DEF FallbackLast
        <3> QED BY <3>4, <3>5, <3>6 DEF RequestSound
    <2> QED BY <2>1, <2>2
<1> HIDE DEF q
<1> QED BY <1>1, <1>2, RequestGoesOn DEF old, answers

\* The insert of the attempt fails and the request with it.
LEMMA RecordRefusedPreserves ==
    ASSUME RequestsInv, NEW r \in Requests, I!RecordRefused(r)
    PROVE  RequestsInv'
<1> DEFINE old == req[r]
           answers == tried[r]
           q == [old EXCEPT !.stage = "raised", !.next = None]
<1>1. /\ RequestSound(old, answers) /\ tried' = tried /\ receipts' = receipts
      /\ old.stage = "record" /\ req' = [req EXCEPT ![r] = q]
    BY DEF RequestsInv, I!RecordRefused, I!At, I!Becomes
<1> HIDE DEF old, answers
<1>2. Shaped(old) /\ Follows(old, answers) /\ FallbackLast(old, answers)
    BY <1>1 DEF RequestSound
<1>3. q = [old EXCEPT !.stage = "raised", !.next = None]
    OBVIOUS
<1> HIDE DEF q
<1>4. q = [stage |-> "raised", streaming |-> old.streaming, model |-> old.model,
           primary |-> old.primary, fallback |-> old.fallback, index |-> old.index,
           endpoint |-> old.endpoint, outcome |-> old.outcome, hint |-> old.hint,
           emitted |-> old.emitted, second |-> old.second, next |-> None]
    BY <1>2, <1>3 DEF Shaped
<1>5. Shaped(q)
    BY <1>1, <1>2, <1>4 DEF Shaped, I!Stage
<1>6. Follows(q, answers)
    BY <1>1, <1>2, <1>4 DEF Follows
<1>7. FallbackLast(q, answers)
    BY <1>2, <1>4 DEF FallbackLast
<1>8. RequestSound(q, answers)
    BY <1>5, <1>6, <1>7 DEF RequestSound
<1> QED BY <1>1, <1>8, RequestGoesOn DEF old, answers

\* The receipt is the only one the request ever writes, and it says what its last
\* answer was.
LEMMA WriteReceiptPreserves ==
    ASSUME RequestsInv, NEW r \in Requests, NEW written \in BOOLEAN, I!WriteReceipt(r, written)
    PROVE  RequestsInv'
<1> DEFINE old == req[r]
           answers == tried[r]
           stage == IF old.outcome = "ok" THEN "done" ELSE "raised"
           q == [old EXCEPT !.stage = stage]
           new == I!ReceiptOf(r)
<1>1. /\ RequestSound(old, answers) /\ tried' = tried
      /\ old.stage = "receipt" /\ req' = [req EXCEPT ![r] = q]
      /\ answers \in Seq(Answers) /\ stage \in {"done", "raised"}
      /\ receipts' = receipts \/ receipts' = receipts \union {new}
    BY DEF RequestsInv, I!WriteReceipt, I!At, I!Becomes, I!InsertReceipt
<1>2. Shaped(old) /\ Follows(old, answers) /\ FallbackLast(old, answers)
    BY <1>1 DEF RequestSound
<1>3. new \in I!Receipt /\ new.request = r
    <2>1. CASE old.outcome = "ok"
        <3>1. new = [request |-> r, model |-> old.model, endpoint |-> old.endpoint,
                     fallback |-> old.fallback, status |-> "success"]
            BY <2>1 DEF I!ReceiptOf
        <3>2. PICK b \in Bindings : b.model = old.model /\ b.endpoint = old.endpoint
            BY <1>1, <1>2, <2>1 DEF Follows, Bound
        <3>3. old.model \in Models /\ old.endpoint \in Endpoints /\ old.fallback \in BOOLEAN
            BY <3>2, <1>2, GatewayAssumption DEF Shaped
        <3> HIDE DEF new, old
        <3> QED BY <3>1, <3>3 DEF I!Receipt
    <2>2. CASE old.outcome # "ok"
        <3>1. new = [request |-> r, model |-> old.primary, endpoint |-> None,
                     fallback |-> FALSE, status |-> "failed"]
            BY <2>2 DEF I!ReceiptOf
        <3>2. old.primary \in Models
            BY <1>1, <1>2 DEF Shaped
        <3> HIDE DEF new, old
        <3> QED BY <3>1, <3>2 DEF I!Receipt
    <2> QED BY <2>1, <2>2
<1>4. IF new.status = "success"
      THEN LET t == answers[Len(answers)]
           IN  /\ <<"ok", new.model, new.endpoint, new.fallback>>
                      = <<t.outcome, t.model, t.endpoint, t.fallback>>
               /\ \E b \in Bindings : b.model = new.model /\ b.endpoint = new.endpoint
      ELSE \A i \in 1..Len(answers) : answers[i].outcome # "ok"
    <2>1. CASE old.outcome = "ok"
        <3>1. new = [request |-> r, model |-> old.model, endpoint |-> old.endpoint,
                     fallback |-> old.fallback, status |-> "success"]
            BY <2>1 DEF I!ReceiptOf
        <3> HIDE DEF new, old, answers
        <3>2. Latest(old, answers) /\ Bound(old.model, old.endpoint)
            BY <1>1, <1>2, <2>1 DEF Follows
        <3>3. /\ new.status = "success" /\ new.model = old.model /\ new.endpoint = old.endpoint
              /\ new.fallback = old.fallback
            BY <3>1
        <3> QED BY <2>1, <3>2, <3>3 DEF Latest, Bound
    <2>2. CASE old.outcome # "ok"
        <3>1. new = [request |-> r, model |-> old.primary, endpoint |-> None,
                     fallback |-> FALSE, status |-> "failed"]
            BY <2>2 DEF I!ReceiptOf
        <3> HIDE DEF new, old, answers
        <3>2. new.status # "success"
            BY <3>1
        <3> QED BY <1>1, <1>2, <2>2, <3>2 DEF Follows
    <2> QED BY <2>1, <2>2
<1>5. RequestSound(q, answers)
    <2>1. q = [old EXCEPT !.stage = stage]
        OBVIOUS
    <2> HIDE DEF q, old, answers, stage
    <2>2. q = [stage |-> stage, streaming |-> old.streaming, model |-> old.model,
               primary |-> old.primary, fallback |-> old.fallback, index |-> old.index,
               endpoint |-> old.endpoint, outcome |-> old.outcome, hint |-> old.hint,
               emitted |-> old.emitted, second |-> old.second, next |-> old.next]
        BY <1>2, <2>1 DEF Shaped
    <2>3. Shaped(q)
        BY <1>1, <1>2, <2>2 DEF Shaped, I!Stage
    <2>4. Follows(q, answers)
        BY <1>1, <1>2, <2>2 DEF Follows
    <2>5. FallbackLast(q, answers)
        BY <1>2, <2>2 DEF FallbackLast
    <2> QED BY <2>3, <2>4, <2>5 DEF RequestSound
<1>6. q.stage \in {"done", "raised"}
    <2> HIDE DEF old, stage
    <2> QED BY <1>1, <1>2 DEF Shaped
<1>7. /\ req' = [s \in Requests |-> req'[s]]
      /\ \A s \in Requests : req'[s] = IF s = r THEN q ELSE req[s]
    <2> HIDE DEF q, old
    <2> QED BY <1>1 DEF RequestsInv
<1> HIDE DEF q, new, stage
<1>8. \A s \in Requests : RequestSound(req'[s], tried'[s])
    BY <1>1, <1>5, <1>7 DEF RequestsInv
<1>9. \A p \in receipts' : p = new \/ p \in receipts
    BY <1>1
<1>10. receipts' \subseteq I!Receipt
    BY <1>3, <1>9 DEF RequestsInv
<1>11. \A p \in receipts' : req'[p.request].stage \in {"done", "raised"}
    <2> SUFFICES ASSUME NEW p \in receipts'
                 PROVE  req'[p.request].stage \in {"done", "raised"}
        OBVIOUS
    <2>1. CASE p = new
        BY <2>1, <1>3, <1>6, <1>7
    <2>2. CASE p \in receipts
        BY <2>2, <1>6, <1>7 DEF RequestsInv, I!Receipt
    <2> QED BY <2>1, <2>2, <1>9
<1>12. I!ReceiptsTruthful'
    <2> SUFFICES ASSUME NEW p \in receipts'
                 PROVE  LET given == tried[p.request]
                        IN  IF p.status = "success"
                            THEN LET t == given[Len(given)]
                                 IN  /\ <<"ok", p.model, p.endpoint, p.fallback>>
                                            = <<t.outcome, t.model, t.endpoint, t.fallback>>
                                     /\ \E b \in Bindings :
                                           b.model = p.model /\ b.endpoint = p.endpoint
                            ELSE \A i \in 1..Len(given) : given[i].outcome # "ok"
        BY <1>1 DEF I!ReceiptsTruthful
    <2>1. CASE p = new
        BY <2>1, <1>3, <1>4
    <2>2. CASE p \in receipts
        BY <2>2 DEF RequestsInv, I!ReceiptsTruthful
    <2> QED BY <2>1, <2>2, <1>9
<1>13. tried' \in [Requests -> Seq(Answers)]
    BY <1>1 DEF RequestsInv
<1> QED BY <1>7, <1>8, <1>10, <1>11, <1>12, <1>13 DEF RequestsInv

\* No request has begun and nothing has been answered.
LEMMA RequestsInit ==
    ASSUME I!InvocationInit
    PROVE  RequestsInv
<1>1. /\ req = [r \in Requests |-> I!Idle] /\ tried = [r \in Requests |-> <<>>]
      /\ receipts = {}
    BY DEF I!InvocationInit
<1>2. Shaped(I!Idle)
    BY DEF Shaped, I!Idle, I!Stage
<1>3. Follows(I!Idle, <<>>)
    BY DEF Follows, I!Idle
<1>4. FallbackLast(I!Idle, <<>>)
    BY DEF FallbackLast, I!Idle
<1>5. RequestSound(I!Idle, <<>>)
    BY <1>2, <1>3, <1>4 DEF RequestSound
<1>6. <<>> \in Seq(Answers)
    OBVIOUS
<1>7. \A r \in Requests : RequestSound(req[r], tried[r])
    BY <1>1, <1>5
<1>8. req = [r \in Requests |-> req[r]] /\ tried \in [Requests -> Seq(Answers)]
    BY <1>1, <1>6
<1> QED BY <1>1, <1>7, <1>8 DEF RequestsInv, I!ReceiptsTruthful

\* Steps of the other parts leave the requests alone.
LEMMA RequestsUnchanged ==
    ASSUME RequestsInv, req' = req, tried' = tried, receipts' = receipts
    PROVE  RequestsInv'
<1>1. \A p \in receipts : req[p.request].stage \in {"done", "raised"}
    BY DEF RequestsInv
<1>2. I!ReceiptsTruthful'
    BY DEF RequestsInv, I!ReceiptsTruthful
<1> QED BY <1>1, <1>2 DEF RequestsInv

\* Every step of the requests preserves their invariant.
LEMMA RequestsStep ==
    ASSUME RequestsInv, I!InvocationNext
    PROVE  RequestsInv'
<1>1. CASE \E e \in Endpoints, has \in Reports : I!RecordQuota(e, has)
    BY <1>1, RequestsUnchanged DEF I!RecordQuota
<1>2. CASE I!Tick
    BY <1>2, RequestsUnchanged DEF I!Tick
<1>3. ASSUME NEW r \in Requests,
             \/ \E m \in Routed : I!Begin(r, m)
             \/ I!Emit(r) \/ I!Reply(r) \/ I!Proceed(r)
      PROVE  RequestsInv'
    <2>1. CASE \E m \in Routed : I!Begin(r, m)
        BY <2>1, BeginPreserves
    <2>2. CASE I!Emit(r)
        BY <2>2, EmitPreserves
    <2>3. CASE I!Reply(r)
        BY <2>3, AnswerPreserves DEF I!Reply
    <2>4. CASE I!Proceed(r)
        BY <2>4, ChoosePreserves, ReadStatePreserves, RecordPreserves, RecordRefusedPreserves,
           WriteReceiptPreserves DEF I!Proceed
    <2> QED BY <1>3, <2>1, <2>2, <2>3, <2>4
<1> QED BY <1>1, <1>2, <1>3 DEF I!InvocationNext

\* The invariant of the requests implies AnsweredOnce.
LEMMA RequestsAnsweredOnce ==
    ASSUME RequestsInv
    PROVE  I!AnsweredOnce
<1> SUFFICES ASSUME NEW r \in Requests
             PROVE  /\ \A t \in I!Earlier(r) :
                          t.outcome # "ok" /\ ~t.emitted /\ I!Classify(t.outcome, 0) # "stop"
                    /\ \A i, j \in 1..Len(tried[r]) :
                          i <= j /\ tried[r][i].fallback
                             => tried[r][j].fallback /\ ~req[r].streaming
    BY DEF I!AnsweredOnce
<1>1. RequestSound(req[r], tried[r])
    BY DEF RequestsInv
<1>2. \A i \in 1..(Len(tried[r]) - 1) : Continues(tried[r][i])
    BY <1>1 DEF RequestSound, Follows
<1>3. FallbackLast(req[r], tried[r])
    BY <1>1 DEF RequestSound
<1> QED BY <1>2, <1>3 DEF I!Earlier, Continues, FallbackLast

-----------------------------------------------------------------------------
(* Routes *)

\* The row of a rule, and the version it was committed with
RuleSound(row, committed) ==
    /\ row = [id |-> row.id, version |-> row.version, enabled |-> row.enabled,
              labels |-> row.labels, agents |-> row.agents, priority |-> row.priority,
              model |-> row.model, fallback |-> row.fallback]
    /\ row.id \in Rules /\ row.version \in Nat
    /\ row.model \in L!Named /\ row.fallback \in L!Named
    /\ <<row.id, row.version, row.model>> \in committed

RulesSound(rules, committed) ==
    /\ rules = [r \in Rules |-> rules[r]]
    /\ \A r \in Rules : rules[r] # None => RuleSound(rules[r], committed)

\* A scope has one active lock, and a lock its origin.
LocksSound(locks, committed) ==
    /\ locks \in [Locks -> L!Lock \union {None}]
    /\ \A l, m \in Locks :
          /\ locks[l] # None /\ locks[m] # None
          /\ locks[l].scope = locks[m].scope
          /\ locks[l].status = "active" /\ locks[m].status = "active"
          => l = m
    /\ \A l \in Locks : locks[l] # None =>
          IF locks[l].fallback
          THEN /\ locks[l].source \in Locks /\ locks[locks[l].source] # None
               /\ locks[locks[l].source].scope = locks[l].scope
          ELSE <<locks[l].snapshot.rule, locks[l].snapshot.version, locks[l].snapshot.model>>
                   \in committed

\* What an operation under way knows: the lock it was given is one of its scope.
CallSound(call, locks, committed) ==
    /\ call.op = "upsert" => call.rule \in Rules /\ call.content \in Contents /\ call.version \in Nat
    /\ call.op \in {"pin", "lost", "routed", "serving", "release", "reselect"} => call.scope \in Scopes
    /\ call.op = "pin" =>
          /\ call.snapshot \in L!Snapshot
          /\ <<call.snapshot.rule, call.snapshot.version, call.snapshot.model>> \in committed
    /\ call.op \in {"routed", "serving", "release"} =>
          call.lock \in Locks /\ locks[call.lock] # None /\ locks[call.lock].scope = call.scope
    /\ call.op = "serving" => call.fallback \in L!Named \union {None}

CallsSound(calls, locks, committed) ==
    /\ calls = [c \in Callers |-> calls[c]]
    /\ \A c \in Callers : calls[c] # None => CallSound(calls[c], locks, committed)

\* The inductive invariant of the routes.
RoutesInv ==
    RulesSound(rule, published) /\ LocksSound(lock, published)
    /\ CallsSound(caller, lock, published)

\* A lock is never deleted and stays with its scope.
Kept(before, after) ==
    \A l \in Locks : before[l] # None => after[l] # None /\ after[l].scope = before[l].scope

\* An operation goes on; what the others know stays true.
LEMMA CallMoves ==
    ASSUME CallsSound(caller, lock, published), NEW c \in Callers, NEW next,
           caller' = [caller EXCEPT ![c] = next],
           Kept(lock, lock'), published \subseteq published',
           next # None => CallSound(next, lock', published')
    PROVE  CallsSound(caller', lock', published')
<1>1. /\ caller' = [d \in Callers |-> caller'[d]]
      /\ \A d \in Callers : caller'[d] = IF d = c THEN next ELSE caller[d]
    BY DEF CallsSound
<1>2. ASSUME NEW d \in Callers, caller'[d] # None
      PROVE  CallSound(caller'[d], lock', published')
    <2>1. CASE d = c
        BY <1>1, <1>2, <2>1
    <2>2. CASE d # c
        <3>1. caller'[d] = caller[d] /\ CallSound(caller[d], lock, published)
            BY <1>1, <1>2, <2>2 DEF CallsSound
        <3> QED BY <3>1 DEF CallSound, Kept
    <2> QED BY <2>1, <2>2
<1> QED BY <1>1, <1>2 DEF CallsSound

\* A step that writes nothing but what one operation knows.
LEMMA CallOnly ==
    ASSUME RoutesInv, NEW c \in Callers, NEW next, L!Step(c, next),
           rule' = rule, lock' = lock, published' = published,
           next # None => CallSound(next, lock, published)
    PROVE  RoutesInv'
<1>1. Kept(lock, lock') /\ published \subseteq published'
    BY DEF Kept
<1>2. CallsSound(caller', lock', published')
    BY <1>1, CallMoves DEF RoutesInv, L!Step
<1>3. RulesSound(rule', published') /\ LocksSound(lock', published')
    BY DEF RoutesInv
<1> QED BY <1>2, <1>3 DEF RoutesInv

\* upsert_rule reads the rule.
LEMMA ReadRulePreserves ==
    ASSUME RoutesInv, NEW c \in Callers, NEW r \in Rules, NEW content \in Contents,
           L!ReadRule(c, r, content)
    PROVE  RoutesInv'
<1> DEFINE version == IF rule[r] = None THEN 1 ELSE rule[r].version + 1
           next == [op |-> "upsert", rule |-> r, content |-> content, version |-> version]
<1>1. version \in Nat
    <2>1. rule[r] # None => rule[r].version \in Nat
        BY DEF RoutesInv, RulesSound, RuleSound
    <2> QED BY <2>1
<1>2. L!Step(c, next) /\ rule' = rule /\ lock' = lock /\ published' = published
    BY DEF L!ReadRule
<1> HIDE DEF version
<1>3. CallSound(next, lock, published)
    BY <1>1 DEF CallSound
<1> HIDE DEF next
<1> QED BY <1>2, <1>3, CallOnly

\* The rule that is written is the one published with it, whatever it replaces.
LEMMA UpsertRulePreserves ==
    ASSUME RoutesInv, NEW c \in Callers, L!UpsertRule(c)
    PROVE  RoutesInv'
<1> DEFINE call == caller[c]
           row == [id |-> call.rule, version |-> call.version, enabled |-> TRUE,
                   labels |-> call.content.labels, agents |-> call.content.agents,
                   priority |-> call.content.priority, model |-> call.content.model,
                   fallback |-> call.content.fallback]
<1>1. /\ call # None /\ call.op = "upsert" /\ CallSound(call, lock, published)
      /\ rule' = [rule EXCEPT ![call.rule] = row]
      /\ published' = published \union {<<call.rule, call.version, call.content.model>>}
      /\ caller' = [caller EXCEPT ![c] = None] /\ lock' = lock
    BY DEF L!UpsertRule, L!Doing, L!Step, RoutesInv, CallsSound
<1> HIDE DEF call
<1>2. call.rule \in Rules /\ call.version \in Nat /\ call.content \in Contents
    BY <1>1 DEF CallSound
<1>3. call.content.model \in L!Named /\ call.content.fallback \in L!Named
    BY <1>2 DEF L!Named
<1>4. RuleSound(row, published')
    BY <1>1, <1>2, <1>3 DEF RuleSound
<1> HIDE DEF row
<1>5. RulesSound(rule', published')
    <2>1. /\ rule' = [r \in Rules |-> rule'[r]]
          /\ \A r \in Rules : rule'[r] = IF r = call.rule THEN row ELSE rule[r]
        BY <1>1 DEF RoutesInv, RulesSound
    <2>2. \A r \in Rules : rule[r] # None => RuleSound(rule[r], published')
        BY <1>1 DEF RoutesInv, RulesSound, RuleSound
    <2> QED BY <2>1, <2>2, <1>4 DEF RulesSound
<1>6. LocksSound(lock', published')
    <2>1. published \subseteq published'
        BY <1>1
    <2> QED BY <1>1, <2>1 DEF RoutesInv, LocksSound
<1>7. CallsSound(caller', lock', published')
    <2>1. Kept(lock, lock') /\ published \subseteq published'
        BY <1>1 DEF Kept
    <2> QED BY <1>1, <2>1, CallMoves DEF RoutesInv
<1> QED BY <1>5, <1>6, <1>7 DEF RoutesInv

\* A rule that is deleted or disabled stays published for the locks made from it.
LEMMA RuleRemovedPreserves ==
    ASSUME RoutesInv, NEW r \in Rules, L!DeleteRule(r) \/ L!DisableRule(r)
    PROVE  RoutesInv'
<1>1. lock' = lock /\ caller' = caller /\ published' = published
    BY DEF L!DeleteRule, L!DisableRule
<1>2. RulesSound(rule', published)
    <2>1. CASE L!DeleteRule(r)
        BY <2>1 DEF L!DeleteRule, RoutesInv, RulesSound
    <2>2. CASE L!DisableRule(r)
        <3> DEFINE old == rule[r]
                   new == [old EXCEPT !.enabled = FALSE]
        <3>1. RuleSound(old, published) /\ rule' = [rule EXCEPT ![r] = new]
            BY <2>2 DEF L!DisableRule, RoutesInv, RulesSound
        <3>2. new = [old EXCEPT !.enabled = FALSE]
            OBVIOUS
        <3> HIDE DEF old, new
        <3>3. new = [id |-> old.id, version |-> old.version, enabled |-> FALSE,
                     labels |-> old.labels, agents |-> old.agents, priority |-> old.priority,
                     model |-> old.model, fallback |-> old.fallback]
            BY <3>1, <3>2 DEF RuleSound
        <3>4. RuleSound(new, published)
            BY <3>1, <3>3 DEF RuleSound
        <3>5. /\ rule' = [q \in Rules |-> rule'[q]]
              /\ \A q \in Rules : rule'[q] = IF q = r THEN new ELSE rule[q]
            BY <3>1 DEF RoutesInv, RulesSound
        <3> QED BY <3>4, <3>5 DEF RoutesInv, RulesSound
    <2> QED BY <2>1, <2>2
<1>3. LocksSound(lock, published) /\ CallsSound(caller, lock, published)
    BY DEF RoutesInv
<1> QED BY <1>1, <1>2, <1>3 DEF RoutesInv

\* A lock is inserted: the partial unique index has seen that it is the only active
\* one of its scope.
LEMMA RecordedSound ==
    ASSUME LocksSound(lock, published), NEW s \in Scopes, NEW new \in L!Lock,
           new.scope = s, L!Recorded(s, new),
           IF new.fallback
           THEN /\ new.source \in Locks /\ lock[new.source] # None
                /\ lock[new.source].scope = s
           ELSE <<new.snapshot.rule, new.snapshot.version, new.snapshot.model>> \in published
    PROVE  /\ LocksSound(lock', published) /\ Kept(lock, lock')
           /\ \A l \in Locks : lock[l] = None /\ lock'[l] # None => lock'[l] = new
<1>1. PICK n \in Locks : lock[n] = None /\ lock' = [lock EXCEPT ![n] = new]
    BY DEF L!Recorded
<1>2. \A l \in Locks : lock[l] # None /\ lock[l].status = "active" => lock[l].scope # s
    BY DEF L!Recorded, L!Active
<1>3. /\ lock' \in [Locks -> L!Lock \union {None}]
      /\ \A l \in Locks : lock'[l] = IF l = n THEN new ELSE lock[l]
    BY <1>1 DEF LocksSound
<1>4. new # None
    BY NullAssumption
<1>5. ASSUME NEW l \in Locks, NEW m \in Locks, lock'[l] # None, lock'[m] # None,
             lock'[l].scope = lock'[m].scope,
             lock'[l].status = "active", lock'[m].status = "active"
      PROVE  l = m
    <2>1. CASE l # n /\ m # n
        BY <2>1, <1>3, <1>5 DEF LocksSound
    <2>2. CASE l = n /\ m # n
        BY <2>2, <1>2, <1>3, <1>5
    <2>3. CASE l # n /\ m = n
        BY <2>3, <1>2, <1>3, <1>5
    <2> QED BY <2>1, <2>2, <2>3
<1>6. Kept(lock, lock')
    BY <1>1, <1>3 DEF Kept
<1>7. ASSUME NEW l \in Locks, lock'[l] # None
      PROVE  IF lock'[l].fallback
             THEN /\ lock'[l].source \in Locks /\ lock'[lock'[l].source] # None
                  /\ lock'[lock'[l].source].scope = lock'[l].scope
             ELSE <<lock'[l].snapshot.rule, lock'[l].snapshot.version,
                    lock'[l].snapshot.model>> \in published
    <2>1. CASE l = n
        BY <2>1, <1>3, <1>6 DEF Kept
    <2>2. CASE l # n
        BY <2>2, <1>3, <1>6, <1>7 DEF Kept, LocksSound
    <2> QED BY <2>1, <2>2
<1>8. LocksSound(lock', published)
    BY <1>3, <1>5, <1>7 DEF LocksSound
<1> QED BY <1>1, <1>3, <1>6, <1>8

\* An operation is given an active lock of the scope.
LEMMA Given ==
    ASSUME NEW name \in {"routed", "release"}, NEW s \in Scopes, NEW l \in L!Active(s)
    PROVE  CallSound([op |-> name, scope |-> s, lock |-> l], lock, published)
<1>1. l \in Locks /\ lock[l] # None /\ lock[l].scope = s
    BY DEF L!Active
<1> QED BY <1>1 DEF CallSound

\* A snapshot is taken of a rule as it is committed.
LEMMA ResolvePreserves ==
    ASSUME RoutesInv, NEW c \in Callers, NEW s \in Scopes, NEW ctx \in Contexts,
           L!Resolve(c, s, ctx)
    PROVE  RoutesInv'
<1>1. rule' = rule /\ lock' = lock /\ published' = published
    BY DEF L!Resolve
<1>2. \/ \E l \in L!Active(s) : L!Step(c, [op |-> "routed", scope |-> s, lock |-> l])
      \/ \E row \in L!FirstMatch(L!Stored, ctx) :
            L!Step(c, [op |-> "pin", scope |-> s, snapshot |-> L!SnapshotOf(row)])
      \/ L!Step(c, None)
    BY DEF L!Resolve
<1>3. ASSUME NEW l \in L!Active(s), L!Step(c, [op |-> "routed", scope |-> s, lock |-> l])
      PROVE  RoutesInv'
    <2> DEFINE next == [op |-> "routed", scope |-> s, lock |-> l]
    <2>1. CallSound(next, lock, published) /\ L!Step(c, next)
        BY <1>3, Given
    <2> HIDE DEF next
    <2> QED BY <1>1, <2>1, CallOnly
<1>4. ASSUME NEW row \in L!FirstMatch(L!Stored, ctx),
             L!Step(c, [op |-> "pin", scope |-> s, snapshot |-> L!SnapshotOf(row)])
      PROVE  RoutesInv'
    <2> DEFINE taken == L!SnapshotOf(row)
               next == [op |-> "pin", scope |-> s, snapshot |-> taken]
    <2>1. PICK r \in Rules : rule[r] # None /\ row = rule[r]
        BY DEF L!FirstMatch, L!Stored
    <2>2. RuleSound(row, published)
        BY <2>1 DEF RoutesInv, RulesSound
    <2>3. taken = [rule |-> row.id, version |-> row.version, model |-> row.model]
        BY DEF L!SnapshotOf
    <2>4. L!Step(c, next)
        BY <1>4
    <2> HIDE DEF taken
    <2>5. /\ taken \in L!Snapshot
          /\ <<taken.rule, taken.version, taken.model>> \in published
        BY <2>2, <2>3 DEF RuleSound, L!Snapshot
    <2>6. CallSound(next, lock, published)
        BY <2>5 DEF CallSound
    <2> HIDE DEF next
    <2> QED BY <1>1, <2>4, <2>6, CallOnly
<1>5. CASE L!Step(c, None)
    BY <1>1, <1>5, CallOnly
<1> QED BY <1>2, <1>3, <1>4, <1>5

\* The caller that inserts the lock is given it; the others lose.
LEMMA PinPreserves ==
    ASSUME RoutesInv, NEW c \in Callers, L!Pin(c)
    PROVE  RoutesInv'
<1> DEFINE call == caller[c]
           new == L!NewLock(call.scope, call.snapshot, None)
<1>1. /\ call.op = "pin" /\ CallSound(call, lock, published)
      /\ rule' = rule /\ published' = published
    BY DEF L!Pin, L!Doing, RoutesInv, CallsSound
<1>2. /\ call.scope \in Scopes /\ call.snapshot \in L!Snapshot
      /\ <<call.snapshot.rule, call.snapshot.version, call.snapshot.model>> \in published
    BY <1>1 DEF CallSound
<1>3. CASE /\ L!Active(call.scope) # {}
           /\ L!Step(c, [op |-> "lost", scope |-> call.scope])
           /\ lock' = lock
    <2> DEFINE next == [op |-> "lost", scope |-> call.scope]
    <2>1. CallSound(next, lock, published)
        BY <1>2 DEF CallSound
    <2>2. L!Step(c, next)
        BY <1>3
    <2> HIDE DEF next, call
    <2> QED BY <1>1, <1>3, <2>1, <2>2, CallOnly
<1>4. CASE /\ L!Recorded(call.scope, new)
           /\ \E l \in Locks : lock[l] = None /\ lock'[l] # None
                 /\ L!Step(c, [op |-> "routed", scope |-> call.scope, lock |-> l])
    <2>1. new = [scope |-> call.scope, snapshot |-> call.snapshot, status |-> "active",
                 fallback |-> FALSE, source |-> None]
        BY DEF L!NewLock
    <2> HIDE DEF new, call
    <2>2. /\ new \in L!Lock /\ new.scope = call.scope /\ ~new.fallback
          /\ new.snapshot = call.snapshot
        BY <1>2, <2>1 DEF L!Lock
    <2>3. /\ LocksSound(lock', published) /\ Kept(lock, lock')
          /\ \A l \in Locks : lock[l] = None /\ lock'[l] # None => lock'[l] = new
        BY <1>2, <1>4, <2>2, RecordedSound DEF RoutesInv
    <2>4. PICK l \in Locks : lock[l] = None /\ lock'[l] # None
                 /\ L!Step(c, [op |-> "routed", scope |-> call.scope, lock |-> l])
        BY <1>4
    <2> DEFINE next == [op |-> "routed", scope |-> call.scope, lock |-> l]
    <2>5. CallSound(next, lock', published')
        BY <1>2, <2>2, <2>3, <2>4 DEF CallSound
    <2>6. caller' = [caller EXCEPT ![c] = next]
        BY <2>4 DEF L!Step
    <2> HIDE DEF next
    <2>7. CallsSound(caller', lock', published')
        BY <1>1, <2>3, <2>5, <2>6, CallMoves DEF RoutesInv
    <2> QED BY <1>1, <2>3, <2>7 DEF RoutesInv
<1> QED BY <1>3, <1>4 DEF L!Pin

\* The caller that lost is given the lock of the winner.
LEMMA TakeWinnerPreserves ==
    ASSUME RoutesInv, NEW c \in Callers, L!TakeWinner(c)
    PROVE  RoutesInv'
<1> DEFINE s == caller[c].scope
<1>1. /\ s \in Scopes
      /\ rule' = rule /\ lock' = lock /\ published' = published
      /\ \/ \E l \in L!Active(s) : L!Step(c, [op |-> "routed", scope |-> s, lock |-> l])
         \/ L!Step(c, None)
    BY DEF L!TakeWinner, L!Doing, RoutesInv, CallsSound, CallSound
<1> HIDE DEF s
<1>2. ASSUME NEW l \in L!Active(s), L!Step(c, [op |-> "routed", scope |-> s, lock |-> l])
      PROVE  RoutesInv'
    <2> DEFINE next == [op |-> "routed", scope |-> s, lock |-> l]
    <2>1. CallSound(next, lock, published) /\ L!Step(c, next)
        BY <1>1, <1>2, Given
    <2> HIDE DEF next
    <2> QED BY <1>1, <2>1, CallOnly
<1>3. CASE L!Step(c, None)
    BY <1>1, <1>3, CallOnly
<1> QED BY <1>1, <1>2, <1>3

\* reselect_model reads the active lock.
LEMMA ReadReselectPreserves ==
    ASSUME RoutesInv, NEW c \in Callers, NEW s \in Scopes, L!ReadReselect(c, s)
    PROVE  RoutesInv'
<1>1. PICK l \in L!Active(s) : L!Step(c, [op |-> "release", scope |-> s, lock |-> l])
    BY DEF L!ReadReselect
<1> DEFINE next == [op |-> "release", scope |-> s, lock |-> l]
<1>2. CallSound(next, lock, published) /\ L!Step(c, next)
    BY <1>1, Given
<1>3. rule' = rule /\ lock' = lock /\ published' = published
    BY DEF L!ReadReselect
<1> HIDE DEF next
<1> QED BY <1>2, <1>3, CallOnly

\* The fallback of the rule is read, if the rule is still there.
LEMMA ReadRuleOfPreserves ==
    ASSUME RoutesInv, NEW c \in Callers, L!ReadRuleOf(c)
    PROVE  RoutesInv'
<1> DEFINE call == caller[c]
           r == lock[call.lock].snapshot.rule
           model_ == IF r \in Rules /\ rule[r] # None THEN rule[r].fallback ELSE None
           next == [op |-> "serving", scope |-> call.scope, lock |-> call.lock,
                    fallback |-> model_]
<1>1. /\ call.op = "routed" /\ CallSound(call, lock, published)
      /\ rule' = rule /\ lock' = lock /\ published' = published /\ L!Step(c, next)
    BY DEF L!ReadRuleOf, L!Doing, RoutesInv, CallsSound
<1>2. model_ \in L!Named \union {None}
    BY DEF RoutesInv, RulesSound, RuleSound
<1> HIDE DEF call, model_
<1>3. CallSound(next, lock, published)
    BY <1>1, <1>2 DEF CallSound
<1> HIDE DEF next
<1> QED BY <1>1, <1>3, CallOnly

\* A fallback lock names the lock of its scope that was served.
LEMMA CreateFallbackPreserves ==
    ASSUME RoutesInv, NEW c \in Callers, L!CreateFallback(c)
    PROVE  RoutesInv'
<1> DEFINE call == caller[c]
           snapshot == [rule |-> "fallback", version |-> 0, model |-> call.fallback]
           new == L!NewLock(call.scope, snapshot, call.lock)
<1>1. /\ call.op = "serving" /\ CallSound(call, lock, published) /\ call.fallback # None
      /\ rule' = rule /\ published' = published /\ L!Step(c, None)
      /\ L!Recorded(call.scope, new) \/ lock' = lock
    BY DEF L!CreateFallback, L!Doing, RoutesInv, CallsSound
<1> HIDE DEF call
<1>2. /\ call.scope \in Scopes /\ call.lock \in Locks /\ lock[call.lock] # None
      /\ lock[call.lock].scope = call.scope /\ call.fallback \in L!Named
    BY <1>1 DEF CallSound
<1>3. CASE lock' = lock
    BY <1>1, <1>3, CallOnly
<1>4. CASE L!Recorded(call.scope, new)
    <2>1. call.lock # None
        BY <1>2, NullAssumption
    <2>2. snapshot \in L!Snapshot
        BY <1>2 DEF L!Snapshot
    <2> HIDE DEF snapshot
    <2>3. new = [scope |-> call.scope, snapshot |-> snapshot, status |-> "active",
                 fallback |-> TRUE, source |-> call.lock]
        BY <2>1 DEF L!NewLock
    <2> HIDE DEF new
    <2>4. /\ new \in L!Lock /\ new.scope = call.scope /\ new.fallback
          /\ new.source = call.lock
        BY <1>2, <2>2, <2>3 DEF L!Lock
    <2>5. LocksSound(lock', published) /\ Kept(lock, lock')
        BY <1>2, <1>4, <2>4, RecordedSound DEF RoutesInv
    <2>6. CallsSound(caller', lock', published')
        BY <1>1, <2>5, CallMoves DEF RoutesInv, L!Step
    <2> QED BY <1>1, <2>5, <2>6 DEF RoutesInv
<1> QED BY <1>1, <1>3, <1>4

\* A lock that is released keeps everything but its status.
LEMMA ReleasePreserves ==
    ASSUME RoutesInv, NEW c \in Callers, L!Release(c)
    PROVE  RoutesInv'
<1> DEFINE call == caller[c]
           l == call.lock
<1>1. /\ call.op = "release" /\ CallSound(call, lock, published)
      /\ rule' = rule /\ published' = published
      /\ IF lock[l].status = "active"
         THEN /\ lock' = L!Releases(l)
              /\ L!Step(c, [op |-> "reselect", scope |-> call.scope])
         ELSE L!Step(c, None) /\ lock' = lock
    BY DEF L!Release, L!Doing, RoutesInv, CallsSound
<1>2. call.scope \in Scopes /\ l \in Locks /\ lock[l] # None
    BY <1>1 DEF CallSound
<1>3. CASE lock[l].status # "active"
    <2>1. L!Step(c, None) /\ lock' = lock
        BY <1>1, <1>3
    <2> HIDE DEF l, call
    <2> QED BY <1>1, <2>1, CallOnly
<1>4. CASE lock[l].status = "active"
    <2> DEFINE old == lock[l]
               new == [old EXCEPT !.status = "released"]
               next == [op |-> "reselect", scope |-> call.scope]
    <2>1. lock' = [lock EXCEPT ![l] = new] /\ caller' = [caller EXCEPT ![c] = next]
        BY <1>1, <1>4 DEF L!Releases, L!Step
    <2>2. lock \in [Locks -> L!Lock \union {None}]
        BY DEF RoutesInv, LocksSound
    <2>3. old \in L!Lock
        BY <1>2, <2>2
    <2>4. new = [old EXCEPT !.status = "released"]
        OBVIOUS
    <2>5. lock[l] = old
        OBVIOUS
    <2> HIDE DEF old, new, l
    <2>6. /\ new \in L!Lock /\ new.scope = old.scope /\ new.status = "released"
          /\ new.snapshot = old.snapshot /\ new.fallback = old.fallback
          /\ new.source = old.source
        BY <2>3, <2>4 DEF L!Lock
    <2>7. new # None
        BY <2>6, NullAssumption
    <2>8. /\ lock' \in [Locks -> L!Lock \union {None}]
          /\ \A m \in Locks : lock'[m] = IF m = l THEN new ELSE lock[m]
        BY <1>2, <2>1, <2>2, <2>6
    <2>9. \A m \in Locks : lock'[m] # None =>
             /\ lock[m] # None
             /\ lock'[m].scope = lock[m].scope /\ lock'[m].snapshot = lock[m].snapshot
             /\ lock'[m].fallback = lock[m].fallback /\ lock'[m].source = lock[m].source
             /\ lock'[m].status = "active" => lock[m].status = "active"
        BY <1>2, <2>5, <2>6, <2>8
    <2>10. Kept(lock, lock')
        BY <2>5, <2>6, <2>7, <2>8 DEF Kept
    <2>11. ASSUME NEW m \in Locks, lock'[m] # None
           PROVE  IF lock'[m].fallback
                  THEN /\ lock'[m].source \in Locks /\ lock'[lock'[m].source] # None
                       /\ lock'[lock'[m].source].scope = lock'[m].scope
                  ELSE <<lock'[m].snapshot.rule, lock'[m].snapshot.version,
                         lock'[m].snapshot.model>> \in published
        BY <2>9, <2>10, <2>11 DEF Kept, RoutesInv, LocksSound
    <2>12. ASSUME NEW m \in Locks, NEW n \in Locks, lock'[m] # None, lock'[n] # None,
                  lock'[m].scope = lock'[n].scope,
                  lock'[m].status = "active", lock'[n].status = "active"
           PROVE  m = n
        BY <2>9, <2>12 DEF RoutesInv, LocksSound
    <2>13. LocksSound(lock', published)
        BY <2>8, <2>11, <2>12 DEF LocksSound
    <2>14. CallSound(next, lock', published')
        BY <1>2 DEF CallSound
    <2> HIDE DEF next
    <2>15. CallsSound(caller', lock', published')
        BY <1>1, <2>1, <2>10, <2>14, CallMoves DEF RoutesInv
    <2> QED BY <1>1, <2>13, <2>15 DEF RoutesInv
<1> QED BY <1>3, <1>4

\* There are no rules, no locks and no callers.
LEMMA RoutesInit ==
    ASSUME L!RouteInit
    PROVE  RoutesInv
<1>1. RulesSound(rule, published)
    BY DEF L!RouteInit, RulesSound
<1>2. LocksSound(lock, published)
    BY DEF L!RouteInit, LocksSound
<1>3. CallsSound(caller, lock, published)
    BY DEF L!RouteInit, CallsSound
<1> QED BY <1>1, <1>2, <1>3 DEF RoutesInv

\* Every step of the routes preserves their invariant.
LEMMA RoutesStep ==
    ASSUME RoutesInv, L!RouteNext
    PROVE  RoutesInv'
<1>1. ASSUME NEW c \in Callers,
             \/ \E r \in Rules, content \in Contents : L!ReadRule(c, r, content)
             \/ \E s \in Scopes : L!ReadReselect(c, s) \/ \E ctx \in Contexts : L!Resolve(c, s, ctx)
             \/ L!UpsertRule(c) \/ L!Pin(c) \/ L!TakeWinner(c) \/ L!ReadRuleOf(c)
             \/ L!CreateFallback(c) \/ L!Release(c) \/ L!GiveUp(c)
      PROVE  RoutesInv'
    <2>1. CASE \E r \in Rules, content \in Contents : L!ReadRule(c, r, content)
        BY <2>1, ReadRulePreserves
    <2>2. CASE \E s \in Scopes : L!ReadReselect(c, s) \/ \E ctx \in Contexts : L!Resolve(c, s, ctx)
        BY <2>2, ReadReselectPreserves, ResolvePreserves
    <2>3. CASE L!UpsertRule(c) \/ L!Pin(c) \/ L!TakeWinner(c) \/ L!ReadRuleOf(c)
        BY <2>3, UpsertRulePreserves, PinPreserves, TakeWinnerPreserves, ReadRuleOfPreserves
    <2>4. CASE L!CreateFallback(c) \/ L!Release(c)
        BY <2>4, CreateFallbackPreserves, ReleasePreserves
    <2>5. CASE L!GiveUp(c)
        BY <2>5, CallOnly DEF L!GiveUp
    <2> QED BY <1>1, <2>1, <2>2, <2>3, <2>4, <2>5
<1>2. ASSUME NEW r \in Rules, L!DeleteRule(r) \/ L!DisableRule(r)
      PROVE  RoutesInv'
    BY <1>2, RuleRemovedPreserves
<1> QED BY <1>1, <1>2 DEF L!RouteNext

\* Steps of the other parts leave the routes alone.
LEMMA RoutesUnchanged ==
    ASSUME RoutesInv, rule' = rule, lock' = lock, caller' = caller, published' = published
    PROVE  RoutesInv'
BY DEF RoutesInv

\* The invariant of the routes implies RoutesPinned.
LEMMA RoutesArePinned ==
    ASSUME RoutesInv
    PROVE  L!RoutesPinned
<1>1. ASSUME NEW s \in Scopes
      PROVE  L!Cardinality(L!Active(s)) <= 1
    <2>1. \A l, m \in L!Active(s) : l = m
        BY DEF RoutesInv, LocksSound, L!Active
    <2>2. L!Cardinality(L!Active(s)) = Cardinality(L!Active(s))
        BY DEF L!Cardinality, Cardinality
    <2>3. CASE L!Active(s) = {}
        BY <2>2, <2>3, FS_EmptySet
    <2>4. CASE L!Active(s) # {}
        <3>1. PICK l \in L!Active(s) : TRUE
            BY <2>4
        <3>2. L!Active(s) = {l}
            BY <2>1, <3>1
        <3> QED BY <2>2, <3>2, FS_Singleton
    <2> QED BY <2>3, <2>4
<1>2. ASSUME NEW c \in Callers, L!Doing(c, "routed")
      PROVE  lock[caller[c].lock].scope = caller[c].scope
    BY <1>2 DEF L!Doing, RoutesInv, CallsSound, CallSound
<1>3. ASSUME NEW l \in Locks, lock[l] # None
      PROVE  IF lock[l].fallback
             THEN lock[lock[l].source] # None /\ lock[lock[l].source].scope = lock[l].scope
             ELSE LET snapshot == lock[l].snapshot
                  IN  <<snapshot.rule, snapshot.version, snapshot.model>> \in published
    BY <1>3 DEF RoutesInv, LocksSound
<1> QED BY <1>1, <1>2, <1>3 DEF L!RoutesPinned

-----------------------------------------------------------------------------
(* Credentials *)

Operations ==
    [name : {"register", "add", "rotate", "rotate_revoke", "remove_revoke", "check", "commit",
             "delete"},
     provider : Providers, new : Credentials \union {None}, version : Nat,
     stale : Credentials \union {None}, visible : SUBSET Credentials]

\* A credential that is not revoked has its secret.
RowsSound(rows, secrets) ==
    /\ rows \in [Credentials -> P!Credential \union {None}]
    /\ \A c \in Credentials : rows[c] # None /\ ~rows[c].revoked => c \in secrets

\* An operation that has a credential to insert.
Inserts(o) == o.new # None /\ o.name # "delete"

\* The credential an operation will insert is not in the table yet, and its secret is
\* written first.  The one whose secret it will delete is gone, revoked, or among
\* those that it is about to revoke.
OperationSound(o, rows, secrets) ==
    /\ o \in Operations
    /\ o.name = "register" => o.new # None
    /\ Inserts(o) => /\ rows[o.new] = None /\ o.new # o.stale
                     /\ o.name # "rotate" => o.new \in secrets
    /\ o.stale # None =>
          \/ rows[o.stale] = None
          \/ rows[o.stale].revoked
          \/ o.name \in {"rotate", "rotate_revoke", "remove_revoke"}
             /\ rows[o.stale].provider = o.provider
          \/ o.name \in {"check", "commit"} /\ o.stale \in o.visible

\* Two operations never insert the same credential, and none deletes the secret of a
\* credential that another one is about to insert.
Apart(o, u) ==
    /\ o.new # None => o.new # u.new
    /\ Inserts(o) => o.new # u.stale

\* The inductive invariant of the credentials and their secrets.
CredentialsInv ==
    /\ RowsSound(credential, secret)
    /\ op = [a \in Admins |-> op[a]]
    /\ \A a \in Admins : op[a] # None => OperationSound(op[a], credential, secret)
    /\ \A a, b \in Admins : op[a] # None /\ op[b] # None /\ a # b => Apart(op[a], op[b])

\* What may happen to a credential that an operation has read
Aged(before, after) ==
    \/ after = None
    \/ after = before
    \/ after.revoked

\* What an operation knows stays true while credentials that it has read are revoked or
\* deleted, and the one it will insert is left alone.
LEMMA OperationStays ==
    ASSUME NEW o, OperationSound(o, credential, secret), NEW rows, NEW secrets,
           o.stale # None => Aged(credential[o.stale], rows[o.stale]),
           Inserts(o) => rows[o.new] = None /\ (o.new \in secret => o.new \in secrets)
    PROVE  OperationSound(o, rows, secrets)
BY DEF OperationSound, Aged

\* An operation goes on; what the others know stays true.
LEMMA OperationMoves ==
    ASSUME CredentialsInv, NEW a \in Admins, NEW next, op' = [op EXCEPT ![a] = next],
           RowsSound(credential', secret'),
           \A b \in Admins : b # a /\ op[b] # None => OperationSound(op[b], credential', secret'),
           next # None => OperationSound(next, credential', secret'),
           next # None => \A b \in Admins :
                              b # a /\ op[b] # None => Apart(next, op[b]) /\ Apart(op[b], next)
    PROVE  CredentialsInv'
<1>1. /\ op' = [b \in Admins |-> op'[b]]
      /\ \A b \in Admins : op'[b] = IF b = a THEN next ELSE op[b]
    BY DEF CredentialsInv
<1>2. \A b \in Admins : op'[b] # None => OperationSound(op'[b], credential', secret')
    BY <1>1
<1>3. \A b, d \in Admins : op'[b] # None /\ op'[d] # None /\ b # d => Apart(op'[b], op'[d])
    BY <1>1 DEF CredentialsInv
<1> QED BY <1>1, <1>2, <1>3 DEF CredentialsInv

\* An operation that ends.
LEMMA OperationEnds ==
    ASSUME CredentialsInv, NEW a \in Admins, P!Become(a, None),
           credential' = credential, secret' = secret
    PROVE  CredentialsInv'
BY OperationMoves DEF CredentialsInv, P!Become

\* An operation that begins, with a credential that nobody has.
LEMMA NewIsApart ==
    ASSUME CredentialsInv, NEW c \in Credentials, P!Unused(c), NEW a \in Admins,
           NEW next \in Operations, next.new = c,
           next.stale # None => credential[next.stale] # None
    PROVE  \A b \in Admins : b # a /\ op[b] # None => Apart(next, op[b]) /\ Apart(op[b], next)
<1> SUFFICES ASSUME NEW b \in Admins, op[b] # None
             PROVE  Apart(next, op[b]) /\ Apart(op[b], next)
    OBVIOUS
<1>1. c # op[b].new /\ c # op[b].stale
    BY DEF P!Unused
<1>2. OperationSound(op[b], credential, secret)
    BY DEF CredentialsInv
<1>3. Inserts(op[b]) => credential[op[b].new] = None
    BY <1>2 DEF OperationSound
<1>4. Inserts(op[b]) => op[b].new # next.stale
    BY <1>3 DEF Inserts
<1> QED BY <1>1, <1>4 DEF Apart

\* register_provider writes the secret of a credential nobody has.
LEMMA WriteFirstSecretPreserves ==
    ASSUME CredentialsInv, NEW a \in Admins, NEW p \in Providers, NEW c \in Credentials,
           P!WriteFirstSecret(a, p, c)
    PROVE  CredentialsInv'
<1> DEFINE next == [P!Operation("register", p) EXCEPT !.new = c]
<1>1. /\ P!Unused(c) /\ secret' = secret \union {c} /\ credential' = credential
      /\ op' = [op EXCEPT ![a] = next]
    BY DEF P!WriteFirstSecret, P!Become
<1>2. next = [name |-> "register", provider |-> p, new |-> c, version |-> 1,
              stale |-> None, visible |-> {}]
    BY DEF P!Operation
<1> HIDE DEF next
<1>3. next \in Operations
    BY <1>2 DEF Operations
<1>4. OperationSound(next, credential', secret')
    BY <1>1, <1>2, <1>3, NullAssumption DEF OperationSound, Inserts, P!Unused
<1>5. \A b \in Admins : b # a /\ op[b] # None => Apart(next, op[b]) /\ Apart(op[b], next)
    BY <1>1, <1>2, <1>3, NewIsApart
<1>6. RowsSound(credential', secret')
    BY <1>1 DEF CredentialsInv, RowsSound
<1>7. \A b \in Admins : op[b] # None => OperationSound(op[b], credential', secret')
    BY <1>1 DEF CredentialsInv, OperationSound
<1> QED BY <1>1, <1>4, <1>5, <1>6, <1>7, OperationMoves

\* rotate_credential reads the credential it replaces and names a new one.
LEMMA ReadRotatePreserves ==
    ASSUME CredentialsInv, NEW a \in Admins, NEW p \in Providers, NEW c \in Credentials,
           P!ReadRotate(a, p, c)
    PROVE  CredentialsInv'
<1>1. P!Unused(c) /\ secret' = secret /\ credential' = credential
    BY DEF P!ReadRotate
<1>2. ASSUME NEW next, op' = [op EXCEPT ![a] = next], next \in Operations, next.name = "rotate",
             next.new = c,
             next.stale # None => /\ credential[next.stale] # None
                                  /\ credential[next.stale].provider = next.provider
      PROVE  CredentialsInv'
    <2>1. credential[c] = None
        BY <1>1 DEF P!Unused
    <2>2. OperationSound(next, credential, secret)
        BY <1>2, <2>1 DEF OperationSound, Inserts
    <2>3. \A b \in Admins : b # a /\ op[b] # None => Apart(next, op[b]) /\ Apart(op[b], next)
        BY <1>1, <1>2, NewIsApart
    <2>4. OperationSound(next, credential', secret') /\ RowsSound(credential', secret')
        BY <1>1, <2>2 DEF CredentialsInv
    <2>5. \A b \in Admins : op[b] # None => OperationSound(op[b], credential', secret')
        BY <1>1 DEF CredentialsInv
    <2> QED BY <1>2, <2>3, <2>4, <2>5, OperationMoves
<1>3. CASE P!Become(a, [P!Operation("rotate", p) EXCEPT !.new = c])
    <2> DEFINE next == [P!Operation("rotate", p) EXCEPT !.new = c]
    <2>1. op' = [op EXCEPT ![a] = next]
        BY <1>3 DEF P!Become
    <2>2. next = [name |-> "rotate", provider |-> p, new |-> c, version |-> 1,
                  stale |-> None, visible |-> {}]
        BY DEF P!Operation
    <2> HIDE DEF next
    <2>3. next \in Operations /\ next.name = "rotate" /\ next.new = c /\ next.stale = None
        BY <2>2 DEF Operations
    <2> QED BY <1>2, <2>1, <2>3
<1>4. ASSUME NEW old \in P!ActiveCredentials(p),
             P!Become(a, [P!Operation("rotate", p) EXCEPT !.new = c, !.stale = old,
                                                 !.version = credential[old].version + 1])
      PROVE  CredentialsInv'
    <2> DEFINE version == credential[old].version + 1
               next == [P!Operation("rotate", p) EXCEPT !.new = c, !.stale = old,
                                                       !.version = version]
    <2>1. op' = [op EXCEPT ![a] = next]
        BY <1>4 DEF P!Become
    <2>2. old \in Credentials /\ credential[old] # None /\ credential[old].provider = p
        BY DEF P!ActiveCredentials
    <2>3. credential[old] \in P!Credential
        BY <2>2 DEF CredentialsInv, RowsSound
    <2>4. version \in Nat
        BY <2>3 DEF P!Credential
    <2>a. next = [P!Operation("rotate", p) EXCEPT !.new = c, !.stale = old, !.version = version]
        OBVIOUS
    <2> HIDE DEF version, next
    <2>5. next = [name |-> "rotate", provider |-> p, new |-> c, version |-> version,
                  stale |-> old, visible |-> {}]
        BY <2>4, <2>a DEF P!Operation
    <2>6. /\ next \in Operations /\ next.name = "rotate" /\ next.new = c /\ next.stale = old
          /\ next.provider = p
        BY <2>2, <2>4, <2>5 DEF Operations
    <2> QED BY <1>2, <2>1, <2>2, <2>6
<1> QED BY <1>3, <1>4 DEF P!ReadRotate

\* An operation goes on with what it has; the table and the secrets of others stay.
LEMMA OperationGoesOn ==
    ASSUME CredentialsInv, NEW a \in Admins, op[a] # None, NEW next,
           op' = [op EXCEPT ![a] = next], next.new \in {op[a].new, None},
           next.stale = op[a].stale,
           op[a].name # "delete",
           RowsSound(credential', secret'),
           \A b \in Admins : b # a /\ op[b] # None => OperationSound(op[b], credential', secret'),
           OperationSound(next, credential', secret')
    PROVE  CredentialsInv'
<1>1. \A b \in Admins : b # a /\ op[b] # None => Apart(next, op[b]) /\ Apart(op[b], next)
    BY DEF CredentialsInv, Apart, Inserts
<1> QED BY <1>1, OperationMoves

\* The secret of the new credential is written before the credential.
LEMMA WriteSecretPreserves ==
    ASSUME CredentialsInv, NEW a \in Admins, P!WriteSecret(a)
    PROVE  CredentialsInv'
<1> DEFINE old == op[a]
           next == [old EXCEPT !.name = "rotate_revoke"]
<1>1. /\ old # None /\ old.name = "rotate" /\ secret' = secret \union {old.new}
      /\ credential' = credential /\ op' = [op EXCEPT ![a] = next]
    BY DEF P!WriteSecret, P!Performs, P!Become
<1>2. OperationSound(old, credential, secret)
    BY <1>1 DEF CredentialsInv
<1>3. /\ next \in Operations /\ next.name = "rotate_revoke" /\ next.new = old.new
      /\ next.stale = old.stale /\ next.provider = old.provider
    BY <1>2 DEF OperationSound, Operations
<1> HIDE DEF next
<1>4. OperationSound(next, credential', secret')
    BY <1>1, <1>2, <1>3 DEF OperationSound, Inserts
<1>5. RowsSound(credential', secret')
    BY <1>1 DEF CredentialsInv, RowsSound
<1>6. \A b \in Admins : op[b] # None => OperationSound(op[b], credential', secret')
    BY <1>1 DEF CredentialsInv, OperationSound
<1> QED BY <1>1, <1>3, <1>4, <1>5, <1>6, OperationGoesOn

\* remove_credential reads the credential it removes.
LEMMA ReadRemovePreserves ==
    ASSUME CredentialsInv, NEW a \in Admins, NEW p \in Providers, P!ReadRemove(a, p)
    PROVE  CredentialsInv'
<1>1. PICK old \in P!ActiveCredentials(p) :
         P!Become(a, [P!Operation("remove_revoke", p) EXCEPT !.stale = old])
    BY DEF P!ReadRemove
<1> DEFINE next == [P!Operation("remove_revoke", p) EXCEPT !.stale = old]
<1>2. op' = [op EXCEPT ![a] = next] /\ secret' = secret /\ credential' = credential
    BY <1>1 DEF P!ReadRemove, P!Become
<1>3. old \in Credentials /\ credential[old] # None /\ credential[old].provider = p
    BY DEF P!ActiveCredentials
<1>4. next = [name |-> "remove_revoke", provider |-> p, new |-> None, version |-> 1,
              stale |-> old, visible |-> {}]
    BY DEF P!Operation
<1> HIDE DEF next
<1>5. /\ next \in Operations /\ next.name = "remove_revoke" /\ next.new = None
      /\ next.stale = old /\ next.provider = p
    BY <1>3, <1>4 DEF Operations
<1>6. OperationSound(next, credential', secret')
    BY <1>2, <1>3, <1>5 DEF OperationSound, Inserts
<1>7. \A b \in Admins : op[b] # None => OperationSound(op[b], credential', secret')
    BY <1>2 DEF CredentialsInv
<1>8. \A b \in Admins : b # a /\ op[b] # None => Apart(next, op[b]) /\ Apart(op[b], next)
    <2> SUFFICES ASSUME NEW b \in Admins, op[b] # None
                 PROVE  Apart(next, op[b]) /\ Apart(op[b], next)
        OBVIOUS
    <2>1. Inserts(op[b]) => credential[op[b].new] = None
        BY DEF CredentialsInv, OperationSound
    <2> QED BY <1>3, <1>5, <2>1 DEF Apart, Inserts
<1>9. RowsSound(credential', secret')
    BY <1>2 DEF CredentialsInv
<1> QED BY <1>2, <1>6, <1>7, <1>8, <1>9, OperationMoves

\* The credential read at first is among those that will be revoked, unless it is gone.
LEMMA RevokePreserves ==
    ASSUME CredentialsInv, NEW a \in Admins, P!Revoke(a)
    PROVE  CredentialsInv'
<1> DEFINE old == op[a]
           seen == P!ActiveCredentials(old.provider)
           name == IF old.name = "rotate_revoke" THEN "check" ELSE "commit"
           next == [old EXCEPT !.name = name, !.visible = seen]
<1>1. /\ old # None /\ old.name \in {"rotate_revoke", "remove_revoke"} /\ secret' = secret
      /\ credential' = credential /\ op' = [op EXCEPT ![a] = next]
    BY DEF P!Revoke, P!Performs, P!Become
<1>2. OperationSound(old, credential, secret)
    BY <1>1 DEF CredentialsInv
<1>3. seen \in SUBSET Credentials
    BY DEF P!ActiveCredentials
<1>4. /\ next \in Operations /\ next.name \in {"check", "commit"} /\ next.new = old.new
      /\ next.stale = old.stale /\ next.provider = old.provider /\ next.visible = seen
    <2>1. name \in {"check", "commit"}
        OBVIOUS
    <2> HIDE DEF seen, name
    <2> QED BY <1>2, <1>3, <2>1 DEF OperationSound, Operations
<1> HIDE DEF next
<1>5. \/ old.stale = None \/ credential[old.stale] = None \/ credential[old.stale].revoked
      \/ old.stale \in seen
    BY <1>1, <1>2 DEF OperationSound, P!ActiveCredentials, Operations
<1> HIDE DEF seen
<1>6. OperationSound(next, credential', secret')
    BY <1>1, <1>2, <1>4, <1>5 DEF OperationSound, Inserts
<1>7. RowsSound(credential', secret')
    BY <1>1 DEF CredentialsInv
<1>8. \A b \in Admins : op[b] # None => OperationSound(op[b], credential', secret')
    BY <1>1 DEF CredentialsInv
<1> QED BY <1>1, <1>4, <1>6, <1>7, <1>8, OperationGoesOn

\* insert_credential inserts what it meant to, or nothing.
LEMMA CheckInsertPreserves ==
    ASSUME CredentialsInv, NEW a \in Admins, P!CheckInsert(a)
    PROVE  CredentialsInv'
<1> DEFINE old == op[a]
           new == IF P!Exists(old.provider) THEN old.new ELSE None
           next == [old EXCEPT !.name = "commit", !.new = new]
<1>1. /\ old # None /\ old.name = "check" /\ secret' = secret
      /\ credential' = credential /\ op' = [op EXCEPT ![a] = next]
    BY DEF P!CheckInsert, P!Performs, P!Become
<1>2. OperationSound(old, credential, secret)
    BY <1>1 DEF CredentialsInv
<1>3. new \in {old.new, None}
    OBVIOUS
<1>4. /\ next \in Operations /\ next.name = "commit" /\ next.new = new
      /\ next.stale = old.stale /\ next.provider = old.provider /\ next.visible = old.visible
    <2> HIDE DEF new
    <2> QED BY <1>2, <1>3 DEF OperationSound, Operations
<1> HIDE DEF next, new
<1>5. OperationSound(next, credential', secret')
    BY <1>1, <1>2, <1>3, <1>4 DEF OperationSound, Inserts
<1>6. RowsSound(credential', secret')
    BY <1>1 DEF CredentialsInv
<1>7. \A b \in Admins : op[b] # None => OperationSound(op[b], credential', secret')
    BY <1>1 DEF CredentialsInv
<1> QED BY <1>1, <1>3, <1>4, <1>5, <1>6, <1>7, OperationGoesOn

\* The new credential has its secret, and the one read at first is revoked.
LEMMA CommitPreserves ==
    ASSUME CredentialsInv, NEW a \in Admins, P!CommitCredential(a)
    PROVE  CredentialsInv'
<1> DEFINE old == op[a]
           inserted == old.new # None
           row == P!InsertedCredential(old.provider, old.version)
           revoked(c) == [credential[c] EXCEPT !.revoked = TRUE]
           next == IF old.stale = None THEN None ELSE [old EXCEPT !.name = "delete"]
<1>1. /\ old # None /\ old.name = "commit" /\ secret' = secret /\ op' = [op EXCEPT ![a] = next]
      /\ credential' = [c \in Credentials |->
            IF inserted /\ c = old.new THEN row
            ELSE IF credential[c] # None /\ c \in old.visible THEN revoked(c) ELSE credential[c]]
    <2>1. \A c \in Credentials : c = old.new <=> inserted /\ c = old.new
        BY NullAssumption
    <2> QED BY <2>1 DEF P!CommitCredential, P!Performs, P!Become, P!Revoked
<1>2. OperationSound(old, credential, secret) /\ old \in Operations
    BY <1>1 DEF CredentialsInv, OperationSound
<1>3. row \in P!Credential
    BY <1>2 DEF P!InsertedCredential, P!Credential, Operations
<1>4. /\ credential \in [Credentials -> P!Credential \union {None}]
      /\ \A c \in Credentials : credential[c] # None /\ ~credential[c].revoked => c \in secret
    BY DEF CredentialsInv, RowsSound
<1>5. \A c \in Credentials : credential[c] # None =>
         revoked(c) \in P!Credential /\ revoked(c).revoked
    <2> SUFFICES ASSUME NEW c \in Credentials, credential[c] \in P!Credential
                 PROVE  revoked(c) \in P!Credential /\ revoked(c).revoked
        BY <1>4
    <2> QED BY DEF P!Credential
<1> HIDE DEF row, revoked, inserted
<1>6. \A c \in Credentials :
         credential'[c] = IF inserted /\ c = old.new THEN row
                          ELSE IF credential[c] # None /\ c \in old.visible THEN revoked(c)
                               ELSE credential[c]
    BY <1>1
<1>7. inserted => old.new \in Credentials /\ old.new \in secret /\ old.new # old.stale
    BY <1>1, <1>2 DEF inserted, OperationSound, Inserts, Operations
<1>8. RowsSound(credential', secret')
    <2>1. credential' \in [Credentials -> P!Credential \union {None}]
        BY <1>1, <1>3, <1>4, <1>5
    <2>2. ASSUME NEW c \in Credentials, credential'[c] # None, ~credential'[c].revoked
          PROVE  c \in secret
        BY <1>4, <1>5, <1>6, <1>7, <2>2
    <2> QED BY <1>1, <2>1, <2>2 DEF RowsSound
<1>9. \A c \in Credentials :
         /\ ~(inserted /\ c = old.new) => Aged(credential[c], credential'[c])
         /\ ~(inserted /\ c = old.new) /\ credential[c] = None => credential'[c] = None
    BY <1>5, <1>6 DEF Aged
<1>10. ASSUME NEW b \in Admins, b # a, op[b] # None
       PROVE  OperationSound(op[b], credential', secret')
    <2> DEFINE o == op[b]
    <2>1. OperationSound(o, credential, secret) /\ Apart(old, o) /\ o \in Operations
        BY <1>1, <1>10 DEF CredentialsInv, OperationSound
    <2>2. inserted => old.new # o.new /\ old.new # o.stale
        BY <1>1, <2>1 DEF Apart, Inserts, inserted
    <2> HIDE DEF o, old
    <2>3. o.stale # None => Aged(credential[o.stale], credential'[o.stale])
        BY <1>9, <2>1, <2>2 DEF Operations
    <2>4. Inserts(o) => credential'[o.new] = None /\ (o.new \in secret => o.new \in secret')
        BY <1>1, <1>9, <2>1, <2>2 DEF Operations, OperationSound, Inserts
    <2> QED BY <2>1, <2>3, <2>4, OperationStays DEF o
<1>11. CASE old.stale = None
    BY <1>1, <1>8, <1>10, <1>11, OperationMoves
<1>12. CASE old.stale # None
    <2> DEFINE last == [old EXCEPT !.name = "delete"]
    <2>1. op' = [op EXCEPT ![a] = last]
        BY <1>1, <1>12
    <2>2. last \in Operations /\ last.name = "delete" /\ last.new = old.new /\ last.stale = old.stale
        BY <1>2 DEF Operations
    <2> HIDE DEF last
    <2>3. old.stale \in Credentials
        BY <1>2, <1>12 DEF Operations
    <2>4. credential'[old.stale] = None \/ credential'[old.stale].revoked
        <3>1. credential'[old.stale] = IF credential[old.stale] # None /\ old.stale \in old.visible
                                       THEN revoked(old.stale) ELSE credential[old.stale]
            BY <1>6, <1>7, <2>3
        <3>2. credential[old.stale] = None \/ credential[old.stale].revoked \/ old.stale \in old.visible
            BY <1>1, <1>2, <1>12 DEF OperationSound
        <3> QED BY <1>5, <2>3, <3>1, <3>2
    <2>5. OperationSound(last, credential', secret')
        BY <2>2, <2>4 DEF OperationSound, Inserts
    <2> QED BY <1>1, <1>8, <1>10, <2>1, <2>2, <2>5, OperationGoesOn
<1> QED BY <1>11, <1>12

\* The secret that is deleted belongs to no active or new credential.
LEMMA DeleteSecretPreserves ==
    ASSUME CredentialsInv, NEW a \in Admins, P!DeleteSecret(a)
    PROVE  CredentialsInv'
<1> DEFINE old == op[a]
<1>1. /\ old # None /\ old.name = "delete" /\ secret' = secret \ {old.stale}
      /\ credential' = credential /\ op' = [op EXCEPT ![a] = None]
    BY DEF P!DeleteSecret, P!Performs, P!Become
<1>2. OperationSound(old, credential, secret)
    BY <1>1 DEF CredentialsInv
<1>3. old.stale # None => credential[old.stale] = None \/ credential[old.stale].revoked
    BY <1>1, <1>2 DEF OperationSound
<1>4. None \notin Credentials
    BY NullAssumption
<1>5. RowsSound(credential', secret')
    BY <1>1, <1>3, <1>4 DEF CredentialsInv, RowsSound
<1>6. ASSUME NEW b \in Admins, b # a, op[b] # None
      PROVE  OperationSound(op[b], credential', secret')
    <2> DEFINE o == op[b]
    <2>1. OperationSound(o, credential, secret) /\ Apart(o, old)
        BY <1>1, <1>6 DEF CredentialsInv
    <2>2. o.stale # None => Aged(credential[o.stale], credential'[o.stale])
        BY <1>1 DEF Aged
    <2>3. Inserts(o) => credential'[o.new] = None /\ (o.new \in secret => o.new \in secret')
        BY <1>1, <2>1 DEF OperationSound, Apart
    <2> HIDE DEF o
    <2> QED BY <2>1, <2>2, <2>3, OperationStays DEF o
<1> QED BY <1>1, <1>5, <1>6, OperationMoves

\* add_endpoint knows no credential.
LEMMA CheckProviderPreserves ==
    ASSUME CredentialsInv, NEW a \in Admins, NEW p \in Providers, P!CheckProvider(a, p)
    PROVE  CredentialsInv'
<1> DEFINE next == P!Operation("add", p)
<1>1. /\ secret' = secret /\ credential' = credential /\ op' = [op EXCEPT ![a] = next]
    BY DEF P!CheckProvider, P!Become
<1>2. next = [name |-> "add", provider |-> p, new |-> None, version |-> 1,
              stale |-> None, visible |-> {}]
    BY DEF P!Operation
<1> HIDE DEF next
<1>3. next \in Operations
    BY <1>2 DEF Operations
<1>4. OperationSound(next, credential', secret')
    BY <1>2, <1>3 DEF OperationSound, Inserts
<1>5. \A b \in Admins : b # a /\ op[b] # None => Apart(next, op[b]) /\ Apart(op[b], next)
    BY <1>2 DEF Apart, Inserts
<1>6. RowsSound(credential', secret')
    BY <1>1 DEF CredentialsInv
<1>7. \A b \in Admins : op[b] # None => OperationSound(op[b], credential', secret')
    BY <1>1 DEF CredentialsInv
<1> QED BY <1>1, <1>4, <1>5, <1>6, <1>7, OperationMoves

\* The first credential of a provider has its secret.
LEMMA RegisterProviderPreserves ==
    ASSUME CredentialsInv, NEW a \in Admins, NEW p \in Providers, NEW e \in Hosts,
           P!RegisterProvider(a, p, e)
    PROVE  CredentialsInv'
<1>1. CASE op' = op /\ credential' = credential /\ secret' = secret
    BY <1>1 DEF CredentialsInv
<1>2. CASE P!Become(a, None) /\ credential' = credential /\ secret' = secret
    BY <1>2, OperationEnds
<1>3. CASE /\ P!Performs(a, "register") /\ op[a].provider = p /\ P!Become(a, None)
           /\ P!Register(p, e, op[a].new)
    <2> DEFINE old == op[a]
               row == P!InsertedCredential(p, 1)
    <2>1. old # None /\ old.name = "register" /\ OperationSound(old, credential, secret)
        BY <1>3 DEF P!Performs, CredentialsInv
    <2>2. /\ old.new # None /\ old.new \in Credentials /\ old.new \in secret
          /\ credential[old.new] = None
        BY <2>1 DEF OperationSound, Inserts, Operations
    <2>3. /\ credential' = [credential EXCEPT ![old.new] = row] /\ secret' = secret
          /\ op' = [op EXCEPT ![a] = None]
        BY <1>3, <2>2 DEF P!Register, P!Become
    <2>4. row \in P!Credential
        BY DEF P!InsertedCredential, P!Credential
    <2> HIDE DEF row
    <2>5. /\ credential' \in [Credentials -> P!Credential \union {None}]
          /\ \A c \in Credentials : credential'[c] = IF c = old.new THEN row ELSE credential[c]
        BY <2>2, <2>3, <2>4 DEF CredentialsInv, RowsSound
    <2>6. RowsSound(credential', secret')
        BY <2>2, <2>3, <2>5 DEF CredentialsInv, RowsSound
    <2>7. ASSUME NEW b \in Admins, b # a, op[b] # None
          PROVE  OperationSound(op[b], credential', secret')
        <3> DEFINE o == op[b]
        <3>1. OperationSound(o, credential, secret) /\ Apart(old, o) /\ o \in Operations
            BY <2>1, <2>7 DEF CredentialsInv, OperationSound
        <3>2. old.new # o.new /\ old.new # o.stale
            BY <2>1, <2>2, <3>1 DEF Apart, Inserts
        <3> HIDE DEF o, old
        <3>3. o.stale # None => Aged(credential[o.stale], credential'[o.stale])
            BY <2>5, <3>1, <3>2 DEF Operations, Aged
        <3>4. Inserts(o) => credential'[o.new] = None /\ (o.new \in secret => o.new \in secret')
            BY <2>3, <2>5, <3>1, <3>2 DEF Operations, OperationSound, Inserts
        <3> QED BY <3>1, <3>3, <3>4, OperationStays DEF o
    <2> QED BY <2>3, <2>6, <2>7, OperationMoves
<1>4. \/ op' = op /\ credential' = credential /\ secret' = secret
      \/ P!Become(a, None) /\ credential' = credential /\ secret' = secret
      \/ /\ P!Performs(a, "register") /\ op[a].provider = p /\ P!Become(a, None)
         /\ P!Register(p, e, op[a].new)
    <2>1. CASE P!Register(p, e, None) /\ op' = op
        BY <2>1 DEF P!Register
    <2>2. CASE /\ P!Performs(a, "register") /\ op[a].provider = p /\ P!Become(a, None)
               /\ IF P!Exists(p)
                  THEN UNCHANGED <<provider, endpoint, credential, secret, model, binding,
                                   active, discovery, reported>>
                  ELSE P!Register(p, e, op[a].new)
        BY <2>2
    <2> QED BY <2>1, <2>2 DEF P!RegisterProvider
<1> QED BY <1>1, <1>2, <1>3, <1>4

\* The credentials of a provider go with it; their secrets stay.
LEMMA DeleteProviderPreserves ==
    ASSUME CredentialsInv, NEW p \in Providers, P!DeleteProvider(p)
    PROVE  CredentialsInv'
<1>1. /\ secret' = secret /\ op' = op
      /\ credential' = [c \in Credentials |->
            IF credential[c] # None /\ credential[c].provider = p THEN None ELSE credential[c]]
    BY DEF P!DeleteProvider, P!DeleteRows
<1>2. \A c \in Credentials : credential'[c] = None \/ credential'[c] = credential[c]
    BY <1>1
<1>3. RowsSound(credential', secret')
    BY <1>1, <1>2 DEF CredentialsInv, RowsSound
<1>4. ASSUME NEW a \in Admins, op[a] # None
      PROVE  OperationSound(op[a], credential', secret')
    <2> DEFINE o == op[a]
    <2>1. OperationSound(o, credential, secret) /\ o \in Operations
        BY <1>4 DEF CredentialsInv, OperationSound
    <2> HIDE DEF o
    <2>2. o.stale # None => Aged(credential[o.stale], credential'[o.stale])
        BY <1>2, <2>1 DEF Operations, Aged
    <2>3. Inserts(o) => credential'[o.new] = None /\ (o.new \in secret => o.new \in secret')
        BY <1>1, <1>2, <2>1 DEF Operations, OperationSound, Inserts
    <2> QED BY <2>1, <2>2, <2>3, OperationStays DEF o
<1> QED BY <1>1, <1>3, <1>4 DEF CredentialsInv

\* There are no credentials and no operations.
LEMMA CredentialsInit ==
    ASSUME P!RegistryInit
    PROVE  CredentialsInv
<1>1. RowsSound(credential, secret)
    BY DEF P!RegistryInit, RowsSound
<1> QED BY <1>1 DEF P!RegistryInit, CredentialsInv

\* Steps of the catalog and of the other parts leave the credentials alone.
LEMMA CredentialsUnchanged ==
    ASSUME CredentialsInv, credential' = credential, secret' = secret, op' = op
    PROVE  CredentialsInv'
BY DEF CredentialsInv

\* Every step of the registry preserves the invariant of the credentials.
LEMMA CredentialsStep ==
    ASSUME CredentialsInv, P!CredentialsNext \/ P!CatalogNext
    PROVE  CredentialsInv'
<1>1. ASSUME NEW a \in Admins, NEW p \in Providers,
             \/ \E c \in Credentials : P!WriteFirstSecret(a, p, c) \/ P!ReadRotate(a, p, c)
             \/ \E e \in Hosts : P!RegisterProvider(a, p, e)
             \/ P!ReadRemove(a, p)
      PROVE  CredentialsInv'
    BY <1>1, WriteFirstSecretPreserves, ReadRotatePreserves, RegisterProviderPreserves,
       ReadRemovePreserves
<1>2. ASSUME NEW a \in Admins,
             \/ P!WriteSecret(a) \/ P!Revoke(a) \/ P!CheckInsert(a) \/ P!CommitCredential(a)
             \/ P!DeleteSecret(a) \/ P!GiveUpOperation(a)
      PROVE  CredentialsInv'
    <2>1. CASE P!GiveUpOperation(a)
        BY <2>1, OperationEnds DEF P!GiveUpOperation
    <2> QED BY <1>2, <2>1, WriteSecretPreserves, RevokePreserves, CheckInsertPreserves,
               CommitPreserves, DeleteSecretPreserves
<1>3. ASSUME NEW p \in Providers, P!DeleteProvider(p)
      PROVE  CredentialsInv'
    BY <1>3, DeleteProviderPreserves
<1>4. ASSUME NEW p \in Providers, P!UpdateProvider(p)
      PROVE  CredentialsInv'
    BY <1>4, CredentialsUnchanged DEF P!UpdateProvider
<1>5. ASSUME NEW a \in Admins, NEW e \in Hosts, P!AddEndpoint(a, e)
      PROVE  CredentialsInv'
    BY <1>5, OperationEnds DEF P!AddEndpoint
<1>6. ASSUME NEW a \in Admins,
             \/ \E e \in Hosts, ids \in SUBSET RawIds : P!BeginDiscovery(a, e, ids)
             \/ P!UpsertFound(a) \/ P!ReadBindings(a) \/ P!CommitDiscovery(a)
             \/ P!GiveUpDiscovery(a)
      PROVE  CredentialsInv'
    <2>1. credential' = credential /\ secret' = secret /\ op' = op
        BY <1>6 DEF P!BeginDiscovery, P!UpsertFound, P!ReadBindings, P!CommitDiscovery,
           P!GiveUpDiscovery
    <2> QED BY <2>1, CredentialsUnchanged
<1>7. CASE P!CredentialsNext
    BY <1>1, <1>2, <1>3, <1>7 DEF P!CredentialsNext
<1>8. CASE P!CatalogNext
    BY <1>1, <1>2, <1>3, <1>4, <1>5, <1>6, <1>8, CheckProviderPreserves DEF P!CatalogNext
<1> QED BY <1>7, <1>8

\* The invariant of the credentials implies SecretsOfActive.
LEMMA CredentialsHaveSecrets ==
    ASSUME CredentialsInv
    PROVE  P!SecretsOfActive
BY DEF CredentialsInv, RowsSound, P!SecretsOfActive, P!ActiveCredentials

-----------------------------------------------------------------------------
(* Catalog *)

\* A discovery is a record of its fields.
Recorded(d) ==
    /\ d = [stage |-> d.stage, endpoint |-> d.endpoint, ids |-> d.ids, pick |-> d.pick,
            gone |-> d.gone, amid |-> d.amid]
    /\ d.endpoint \in Hosts /\ d.ids \subseteq RawIds /\ d.ids \subseteq d.amid
    /\ \A pair \in d.gone : pair[1] = d.endpoint

\* Each of its rows gets an id that it found, and is not among those it marks.
Upserted(d) ==
    /\ d.pick \in [P!Found(d) -> d.ids]
    /\ \A pair \in P!Found(d) : P!CanonicalName(d.pick[pair]) = pair[2]

\* What is active, and neither its own nor among those it marks, was committed amid it.
Scanned(d, bindings, actives) ==
    \A pair \in actives :
        pair[1] = d.endpoint /\ pair \notin P!Found(d) /\ pair \notin d.gone
            => bindings[pair] \in d.amid

DiscoverySound(d, bindings, actives) ==
    /\ Recorded(d)
    /\ d.stage \in {"upserted", "scanned"} => Upserted(d)
    /\ d.stage = "scanned" => Scanned(d, bindings, actives)

\* What the last discovery of an endpoint found is active under an id that it found,
\* and what is active was found by it or amid it.
PairSound(pair, bound, isActive, last, names) ==
    /\ pair[2] \in P!NamesOf(last.ids) => isActive /\ bound \in last.ids
    /\ isActive => /\ bound \in last.amid
                   /\ P!CanonicalName(bound) = pair[2]
                   /\ pair[2] \in names

\* The inductive invariant of the bindings and the discoveries.
BindingsInv ==
    /\ binding = [pair \in P!Pairs |-> binding[pair]]
    /\ active \subseteq P!Pairs
    /\ reported = [e \in Hosts |-> reported[e]]
    /\ discovery = [a \in Admins |-> discovery[a]]
    /\ \A pair \in P!Pairs :
          PairSound(pair, binding[pair], pair \in active, reported[pair[1]], model)
    /\ \A a \in Admins : discovery[a] # None => DiscoverySound(discovery[a], binding, active)

\* A discovery goes on and nothing is committed.
LEMMA DiscoveryMoves ==
    ASSUME BindingsInv, NEW a \in Admins, NEW next, P!Proceed(a, next),
           next # None => DiscoverySound(next, binding, active),
           binding' = binding, active' = active, reported' = reported, model' = model
    PROVE  BindingsInv'
<1>1. /\ discovery' = [b \in Admins |-> discovery'[b]]
      /\ \A b \in Admins : discovery'[b] = IF b = a THEN next ELSE discovery[b]
    BY DEF BindingsInv, P!Proceed
<1>2. \A b \in Admins : discovery'[b] # None => DiscoverySound(discovery'[b], binding', active')
    BY <1>1 DEF BindingsInv
<1> QED BY <1>1, <1>2 DEF BindingsInv

\* A discovery begins and has done nothing yet.
LEMMA BeginDiscoveryPreserves ==
    ASSUME BindingsInv, NEW a \in Admins, NEW e \in Hosts, NEW ids \in SUBSET RawIds,
           P!BeginDiscovery(a, e, ids)
    PROVE  BindingsInv'
<1> DEFINE next == [stage |-> "begun", endpoint |-> e, ids |-> ids, pick |-> <<>>,
                    gone |-> {}, amid |-> ids]
<1>1. /\ P!Proceed(a, next)
      /\ binding' = binding /\ active' = active /\ reported' = reported /\ model' = model
    BY DEF P!BeginDiscovery
<1>2. DiscoverySound(next, binding, active)
    BY DEF DiscoverySound, Recorded
<1> HIDE DEF next
<1> QED BY <1>1, <1>2, DiscoveryMoves

\* It writes its rows, which nobody else sees yet.
LEMMA UpsertFoundPreserves ==
    ASSUME BindingsInv, NEW a \in Admins, P!UpsertFound(a)
    PROVE  BindingsInv'
<1> DEFINE d == discovery[a]
<1>1. /\ d # None /\ d.stage = "begun"
      /\ binding' = binding /\ active' = active /\ reported' = reported /\ model' = model
    BY DEF P!UpsertFound, P!Discovers
<1>2. PICK pick \in [P!Found(d) -> d.ids] :
         /\ \A pair \in P!Found(d) : P!CanonicalName(pick[pair]) = pair[2]
         /\ P!Proceed(a, [d EXCEPT !.stage = "upserted", !.pick = pick])
    BY DEF P!UpsertFound
<1>3. Recorded(d)
    BY <1>1 DEF BindingsInv, DiscoverySound
<1> DEFINE next == [d EXCEPT !.stage = "upserted", !.pick = pick]
<1> HIDE DEF d
<1>4. next = [stage |-> "upserted", endpoint |-> d.endpoint, ids |-> d.ids, pick |-> pick,
              gone |-> d.gone, amid |-> d.amid]
    <2>1. d = [stage |-> d.stage, endpoint |-> d.endpoint, ids |-> d.ids, pick |-> d.pick,
               gone |-> d.gone, amid |-> d.amid]
        BY <1>3 DEF Recorded
    <2> DEFINE moved == [d EXCEPT !.stage = "upserted"]
    <2>2. moved = [stage |-> "upserted", endpoint |-> d.endpoint, ids |-> d.ids, pick |-> d.pick,
                   gone |-> d.gone, amid |-> d.amid]
        BY <2>1
    <2>3. next = [moved EXCEPT !.pick = pick]
        OBVIOUS
    <2> HIDE DEF moved, next
    <2> QED BY <2>2, <2>3
<1>5. P!Proceed(a, next)
    BY <1>2
<1> HIDE DEF next
<1>6. P!Found(next) = P!Found(d)
    BY <1>4 DEF P!Found
<1>7. DiscoverySound(next, binding, active)
    BY <1>2, <1>3, <1>4, <1>6 DEF DiscoverySound, Recorded, Upserted
<1> QED BY <1>1, <1>5, <1>7, DiscoveryMoves DEF d

\* It reads the rows that are committed: those that it leaves have ids that it found.
LEMMA ReadBindingsPreserves ==
    ASSUME BindingsInv, NEW a \in Admins, P!ReadBindings(a)
    PROVE  BindingsInv'
<1> DEFINE d == discovery[a]
           next == [d EXCEPT !.stage = "scanned", !.gone = P!Unavailable(d)]
<1>1. /\ d # None /\ d.stage = "upserted" /\ P!Proceed(a, next)
      /\ binding' = binding /\ active' = active /\ reported' = reported /\ model' = model
    BY DEF P!ReadBindings, P!Discovers
<1>2. Recorded(d) /\ Upserted(d)
    BY <1>1 DEF BindingsInv, DiscoverySound
<1> HIDE DEF d
<1>3. next = [stage |-> "scanned", endpoint |-> d.endpoint, ids |-> d.ids, pick |-> d.pick,
              gone |-> P!Unavailable(d), amid |-> d.amid]
    <2>1. d = [stage |-> d.stage, endpoint |-> d.endpoint, ids |-> d.ids, pick |-> d.pick,
               gone |-> d.gone, amid |-> d.amid]
        BY <1>2 DEF Recorded
    <2> DEFINE moved == [d EXCEPT !.stage = "scanned"]
    <2>2. moved = [stage |-> "scanned", endpoint |-> d.endpoint, ids |-> d.ids, pick |-> d.pick,
                   gone |-> d.gone, amid |-> d.amid]
        BY <2>1
    <2>3. next = [moved EXCEPT !.gone = P!Unavailable(d)]
        OBVIOUS
    <2> HIDE DEF moved, next
    <2> QED BY <2>2, <2>3
<1> HIDE DEF next
<1>4. P!Found(next) = P!Found(d)
    BY <1>3 DEF P!Found
<1>5. Recorded(next) /\ Upserted(next)
    BY <1>2, <1>3, <1>4 DEF Recorded, Upserted, P!Unavailable
<1>6. Scanned(next, binding, active)
    BY <1>2, <1>3, <1>4 DEF Recorded, Scanned, P!Unavailable
<1>7. DiscoverySound(next, binding, active)
    BY <1>5, <1>6 DEF DiscoverySound
<1> QED BY <1>1, <1>7, DiscoveryMoves DEF d

\* It commits: what it found is active, and what else is active was committed amid it.
\* What it found is counted for those that have read the bindings before.
LEMMA CommitDiscoveryPreserves ==
    ASSUME BindingsInv, NEW a \in Admins, P!CommitDiscovery(a)
    PROVE  BindingsInv'
<1> DEFINE d == discovery[a]
           last == [ids |-> d.ids, amid |-> d.amid]
<1>1. /\ d # None /\ d.stage = "scanned"
      /\ model' = model \union P!NamesOf(d.ids)
      /\ binding' = [pair \in P!Pairs |->
                        IF pair \in P!Found(d) THEN d.pick[pair] ELSE binding[pair]]
      /\ active' = (active \ d.gone) \union P!Found(d)
      /\ reported' = [reported EXCEPT ![d.endpoint] = last]
      /\ discovery' = [b \in Admins |-> IF b = a THEN None ELSE P!Missed(d, discovery[b])]
    BY DEF P!CommitDiscovery, P!Discovers, P!UpsertModels, P!UpsertBindings
<1>2. Recorded(d) /\ Upserted(d) /\ Scanned(d, binding, active)
    BY <1>1 DEF BindingsInv, DiscoverySound
<1> HIDE DEF d
<1>3. P!Found(d) \subseteq P!Pairs
    BY <1>2 DEF Recorded, P!Found, P!Pairs, P!NamesOf
<1>4. \A pair \in P!Pairs :
         pair \in P!Found(d) <=> pair[1] = d.endpoint /\ pair[2] \in P!NamesOf(d.ids)
    BY DEF P!Found, P!Pairs
<1>5. /\ reported' = [e \in Hosts |-> reported'[e]]
      /\ \A e \in Hosts : reported'[e] = IF e = d.endpoint THEN last ELSE reported[e]
    BY <1>1 DEF BindingsInv
<1>6. /\ binding' = [pair \in P!Pairs |-> binding'[pair]]
      /\ \A pair \in P!Pairs :
            binding'[pair] = IF pair \in P!Found(d) THEN d.pick[pair] ELSE binding[pair]
    BY <1>1
<1>7. active' \subseteq P!Pairs
    BY <1>1, <1>3 DEF BindingsInv
<1>8. \A pair \in P!Found(d) : d.pick[pair] \in d.ids /\ P!CanonicalName(d.pick[pair]) = pair[2]
    BY <1>2 DEF Upserted
<1>9. ASSUME NEW pair \in P!Pairs
      PROVE  PairSound(pair, binding'[pair], pair \in active', reported'[pair[1]], model')
    <2>1. PairSound(pair, binding[pair], pair \in active, reported[pair[1]], model)
        BY DEF BindingsInv
    <2>2. pair[1] \in Hosts
        BY DEF P!Pairs
    <2>3. CASE pair \in P!Found(d)
        <3>1. pair[1] = d.endpoint /\ pair[2] \in P!NamesOf(d.ids) /\ pair \in active'
            BY <1>1, <1>4, <2>3
        <3>2. reported'[pair[1]] = last /\ binding'[pair] = d.pick[pair]
            BY <1>5, <1>6, <2>2, <2>3, <3>1
        <3> QED BY <1>1, <1>2, <1>8, <2>3, <3>1, <3>2 DEF PairSound, Recorded
    <2>4. CASE pair \notin P!Found(d) /\ pair[1] = d.endpoint
        <3>1. /\ reported'[pair[1]] = last /\ pair[2] \notin P!NamesOf(d.ids)
              /\ binding'[pair] = binding[pair]
            BY <1>4, <1>5, <1>6, <2>2, <2>4
        <3>2. pair \in active' => pair \in active /\ pair \notin d.gone
            BY <1>1, <2>4
        <3>3. pair \in active' => binding[pair] \in d.amid
            BY <1>2, <2>4, <3>2 DEF Scanned
        <3> QED BY <1>1, <2>1, <3>1, <3>2, <3>3 DEF PairSound
    <2>5. CASE pair[1] # d.endpoint
        <3>1. pair \notin P!Found(d) /\ reported'[pair[1]] = reported[pair[1]]
            BY <1>4, <1>5, <2>2, <2>5
        <3>2. binding'[pair] = binding[pair]
            BY <1>6, <3>1
        <3>3. pair \in active' <=> pair \in active
            BY <1>1, <1>2, <2>5, <3>1 DEF Recorded
        <3> QED BY <1>1, <2>1, <3>1, <3>2, <3>3 DEF PairSound
    <2> QED BY <2>3, <2>4, <2>5
<1>10. ASSUME NEW b \in Admins, discovery'[b] # None
       PROVE  DiscoverySound(discovery'[b], binding', active')
    <2> DEFINE o == discovery[b]
               next == discovery'[b]
    <2> SUFFICES DiscoverySound(next, binding', active')
        OBVIOUS
    <2>1. b # a /\ next = P!Missed(d, o)
        BY <1>1, <1>10
    <2>2. o # None
        BY <1>10, <2>1 DEF P!Missed
    <2>3. DiscoverySound(o, binding, active)
        BY <2>2 DEF BindingsInv
    <2>4. CASE o.stage = "scanned" /\ o.endpoint = d.endpoint
        <3>1. next = [o EXCEPT !.amid = @ \union d.ids]
            BY <2>1, <2>2, <2>4 DEF P!Missed
        <3>2. Recorded(o) /\ Upserted(o) /\ Scanned(o, binding, active)
            BY <2>3, <2>4 DEF DiscoverySound
        <3> HIDE DEF o, next
        <3>3. next = [stage |-> o.stage, endpoint |-> o.endpoint, ids |-> o.ids, pick |-> o.pick,
                      gone |-> o.gone, amid |-> o.amid \union d.ids]
            BY <3>1, <3>2 DEF Recorded
        <3>4. P!Found(next) = P!Found(o)
            BY <3>3 DEF P!Found
        <3>5. Recorded(next) /\ Upserted(next)
            BY <3>2, <3>3, <3>4 DEF Recorded, Upserted
        <3>6. ASSUME NEW pair \in active', pair[1] = next.endpoint, pair \notin P!Found(next),
                     pair \notin next.gone
              PROVE  binding'[pair] \in next.amid
            <4>1. pair \in P!Pairs
                BY <1>7
            <4>2. CASE pair \in P!Found(d)
                BY <1>6, <1>8, <3>3, <4>1, <4>2
            <4>3. CASE pair \notin P!Found(d)
                <5>1. pair \in active /\ binding'[pair] = binding[pair]
                    BY <1>1, <1>6, <3>6, <4>1, <4>3
                <5> QED BY <3>2, <3>3, <3>4, <3>6, <5>1 DEF Scanned
            <4> QED BY <4>2, <4>3
        <3> QED BY <3>5, <3>6 DEF DiscoverySound, Scanned
    <2>5. CASE o.stage = "scanned" /\ o.endpoint # d.endpoint
        <3>1. next = o
            BY <2>1, <2>5 DEF P!Missed
        <3>2. \A pair \in active' : pair[1] = o.endpoint =>
                 pair \in active /\ binding'[pair] = binding[pair]
            BY <1>1, <1>4, <1>6, <1>7, <2>5
        <3> HIDE DEF o, next
        <3> QED BY <2>3, <3>1, <3>2 DEF DiscoverySound, Scanned
    <2>6. CASE o.stage # "scanned"
        <3>1. next = o
            BY <2>1, <2>6 DEF P!Missed
        <3> HIDE DEF o, next
        <3> QED BY <2>3, <2>6, <3>1 DEF DiscoverySound
    <2> QED BY <2>4, <2>5, <2>6
<1>11. discovery' = [b \in Admins |-> discovery'[b]]
    BY <1>1
<1> QED BY <1>5, <1>6, <1>7, <1>9, <1>10, <1>11 DEF BindingsInv

\* Steps that discover nothing leave the bindings alone.
LEMMA BindingsUnchanged ==
    ASSUME BindingsInv, binding' = binding, active' = active, reported' = reported,
           model' = model, discovery' = discovery
    PROVE  BindingsInv'
BY DEF BindingsInv

\* Every step of the registry preserves the invariant of the bindings.
LEMMA BindingsStep ==
    ASSUME BindingsInv, P!CredentialsNext \/ P!CatalogNext
    PROVE  BindingsInv'
<1>1. ASSUME NEW a \in Admins,
             \/ \E e \in Hosts, ids \in SUBSET RawIds : P!BeginDiscovery(a, e, ids)
             \/ P!UpsertFound(a) \/ P!ReadBindings(a) \/ P!CommitDiscovery(a)
             \/ P!GiveUpDiscovery(a)
      PROVE  BindingsInv'
    <2>1. CASE P!GiveUpDiscovery(a)
        BY <2>1, DiscoveryMoves DEF P!GiveUpDiscovery
    <2> QED BY <1>1, <2>1, BeginDiscoveryPreserves, UpsertFoundPreserves, ReadBindingsPreserves,
               CommitDiscoveryPreserves
<1>2. ASSUME NEW a \in Admins, NEW p \in Providers,
             \/ \E c \in Credentials : P!WriteFirstSecret(a, p, c) \/ P!ReadRotate(a, p, c)
             \/ P!ReadRemove(a, p) \/ P!CheckProvider(a, p)
      PROVE  BindingsInv'
    BY <1>2, BindingsUnchanged DEF P!WriteFirstSecret, P!ReadRotate, P!ReadRemove, P!CheckProvider
<1>3. ASSUME NEW a \in Admins, NEW p \in Providers, NEW e \in Hosts, P!RegisterProvider(a, p, e)
      PROVE  BindingsInv'
    <2>1. /\ binding' = binding /\ active' = active /\ reported' = reported /\ model' = model
          /\ discovery' = discovery
        BY <1>3 DEF P!RegisterProvider, P!Register
    <2> QED BY <2>1, BindingsUnchanged
<1>4. ASSUME NEW p \in Providers, P!DeleteProvider(p) \/ P!UpdateProvider(p)
      PROVE  BindingsInv'
    BY <1>4, BindingsUnchanged DEF P!DeleteProvider, P!UpdateProvider
<1>5. ASSUME NEW a \in Admins,
             \/ P!WriteSecret(a) \/ P!Revoke(a) \/ P!CheckInsert(a) \/ P!CommitCredential(a)
             \/ P!DeleteSecret(a) \/ P!GiveUpOperation(a) \/ \E e \in Hosts : P!AddEndpoint(a, e)
      PROVE  BindingsInv'
    BY <1>5, BindingsUnchanged DEF P!WriteSecret, P!Revoke, P!CheckInsert, P!CommitCredential,
       P!DeleteSecret, P!GiveUpOperation, P!AddEndpoint
<1>6. CASE P!CredentialsNext
    BY <1>2, <1>3, <1>4, <1>5, <1>6 DEF P!CredentialsNext
<1>7. CASE P!CatalogNext
    BY <1>1, <1>2, <1>3, <1>4, <1>5, <1>7 DEF P!CatalogNext
<1> QED BY <1>6, <1>7

\* There are no bindings, and nothing is discovered.
LEMMA CatalogInit ==
    ASSUME P!RegistryInit
    PROVE  BindingsInv
<1>1. \A pair \in P!Pairs : pair[1] \in Hosts
    BY DEF P!Pairs
<1>2. \A pair \in P!Pairs :
         PairSound(pair, binding[pair], pair \in active, reported[pair[1]], model)
    BY <1>1 DEF P!RegistryInit, PairSound, P!NamesOf
<1>3. \A a \in Admins : discovery[a] = None
    BY DEF P!RegistryInit
<1> QED BY <1>2, <1>3 DEF P!RegistryInit, BindingsInv

\* The invariant of the bindings implies DiscoveryKept.
LEMMA CatalogKept ==
    ASSUME BindingsInv
    PROVE  P!DiscoveryKept
<1>1. ASSUME NEW pair \in P!Pairs
      PROVE  PairSound(pair, binding[pair], pair \in active, reported[pair[1]], model)
    BY DEF BindingsInv
<1>2. ASSUME NEW pair \in P!Pairs
      PROVE  pair \in P!SelectableBindings(pair[2]) <=>
                pair \in active /\ pair[1] \in endpoint /\ P!Exists(Owner[pair[1]])
    BY DEF P!SelectableBindings
<1> QED BY <1>1, <1>2 DEF PairSound, P!DiscoveryKept

-----------------------------------------------------------------------------
(* The gateway *)

\* The inductive invariant: one for each part of the gateway.
IInv == CredentialsInv /\ BindingsInv /\ RoutesInv /\ RequestsInv

\* Stuttering steps keep every invariant.
LEMMA Stutters ==
    ASSUME IInv, UNCHANGED vars
    PROVE  IInv'
<1>1. CredentialsInv'
    BY CredentialsUnchanged DEF IInv, vars, registryVars
<1>2. BindingsInv'
    BY BindingsUnchanged DEF IInv, vars, registryVars
<1>3. RoutesInv'
    BY RoutesUnchanged DEF IInv, vars, routeVars
<1>4. RequestsInv'
    BY RequestsUnchanged DEF IInv, vars, requestVars
<1> QED BY <1>1, <1>2, <1>3, <1>4 DEF IInv

\* A step of one part preserves the invariants of all of them.
LEMMA Steps ==
    ASSUME IInv, Next
    PROVE  IInv'
<1>1. CASE (P!CredentialsNext \/ P!CatalogNext) /\ UNCHANGED <<routeVars, requestVars>>
    <2>1. CredentialsInv' /\ BindingsInv'
        BY <1>1, CredentialsStep, BindingsStep DEF IInv
    <2>2. RoutesInv'
        BY <1>1, RoutesUnchanged DEF IInv, routeVars
    <2>3. RequestsInv'
        BY <1>1, RequestsUnchanged DEF IInv, requestVars
    <2> QED BY <2>1, <2>2, <2>3 DEF IInv
<1>2. ASSUME UNCHANGED registryVars
      PROVE  CredentialsInv' /\ BindingsInv'
    BY <1>2, CredentialsUnchanged, BindingsUnchanged DEF IInv, registryVars
<1>3. CASE L!RouteNext /\ UNCHANGED <<registryVars, requestVars>>
    <2>1. RequestsInv'
        BY <1>3, RequestsUnchanged DEF IInv, requestVars
    <2>2. RoutesInv'
        BY <1>3, RoutesStep DEF IInv
    <2> QED BY <1>2, <1>3, <2>1, <2>2 DEF IInv
<1>4. CASE I!InvocationNext /\ UNCHANGED <<registryVars, routeVars>>
    <2>1. RequestsInv'
        BY <1>4, RequestsStep DEF IInv
    <2>2. RoutesInv'
        BY <1>4, RoutesUnchanged DEF IInv, routeVars
    <2> QED BY <1>2, <1>4, <2>1, <2>2 DEF IInv
<1> QED BY <1>1, <1>3, <1>4 DEF Next

\* The invariants of the parts hold together, whichever part a behaviour exercises.
THEOREM Invariance == Spec => []IInv
<1>1. Init => IInv
    BY CredentialsInit, CatalogInit, RoutesInit, RequestsInit DEF Init, IInv
<1>2. IInv /\ [Next]_vars => IInv'
    BY Steps, Stutters
<1> QED BY <1>1, <1>2, PTL DEF Spec

\* The credential an endpoint is called with always finds its secret, however many
\* rotations, removals and registrations are under way and wherever they stop; and
\* however many discoveries of an endpoint overlap, it is asked for all that the last one
\* found and for nothing that neither it found nor those that committed amid it.
THEOREM RegistryIsSound == Spec => []RegistrySound
<1>1. IInv => RegistrySound
    BY CredentialsHaveSecrets, CatalogKept DEF IInv, RegistrySound
<1> QED BY <1>1, Invariance, PTL

\* A scope has one active lock, made from a rule as it was committed, however many
\* callers resolve, reselect and fall back.
THEOREM RoutesStayPinned == Spec => []RoutesPinned
<1>1. IInv => RoutesPinned
    BY RoutesArePinned DEF IInv, RoutesPinned
<1> QED BY <1>1, Invariance, PTL

\* Nothing is sent again that a provider has answered, or begun to: for any number of
\* endpoints and attempts, and any failures.
THEOREM RequestsAreAnsweredOnce == Spec => []AnsweredOnce
<1>1. IInv => AnsweredOnce
    BY RequestsAnsweredOnce DEF IInv, AnsweredOnce
<1> QED BY <1>1, Invariance, PTL

\* A receipt says what the provider answered.
THEOREM ReceiptsAreTruthful == Spec => []ReceiptsTruthful
<1>1. IInv => ReceiptsTruthful
    BY DEF IInv, RequestsInv, ReceiptsTruthful
<1> QED BY <1>1, Invariance, PTL
=============================================================================
