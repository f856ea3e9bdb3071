--------------------------- MODULE JobQueueProofs ---------------------------
(***************************************************************************)
(* Proofs about JobQueue, for all sets of jobs and workers, all budgets,   *)
(* deadlines, lease lengths and clock errors.                              *)
(***************************************************************************)
EXTENDS JobQueue, FiniteSetTheorems, TLAPS

-----------------------------------------------------------------------------
(* The operators rows are built with *)

\* Closing an attempt keeps the ledger a ledger of the same length.
LEMMA CloseAttemptType ==
    ASSUME NEW ledger \in Seq(Attempt), NEW token,
           NEW status \in {"abandoned"} \union Terminal
    PROVE  /\ CloseAttempt(ledger, token, status) \in Seq(Attempt)
           /\ Len(CloseAttempt(ledger, token, status)) = Len(ledger)
           /\ \A n \in 1..Len(ledger) :
                CloseAttempt(ledger, token, status)[n] =
                  IF ledger[n].fencing_token = token /\ ledger[n].status = "running"
                  THEN [ledger[n] EXCEPT !.status = status] ELSE ledger[n]
<1> DEFINE closed == CloseAttempt(ledger, token, status)
<1>1. DOMAIN ledger = 1..Len(ledger) /\ Len(ledger) \in Nat
  OBVIOUS
<1>2. \A n \in 1..Len(ledger) : ledger[n] \in Attempt
  OBVIOUS
<1>3. \A n \in 1..Len(ledger) : [ledger[n] EXCEPT !.status = status] \in Attempt
  BY <1>2 DEF Attempt
<1>4. closed = [n \in 1..Len(ledger) |->
                  IF ledger[n].fencing_token = token /\ ledger[n].status = "running"
                  THEN [ledger[n] EXCEPT !.status = status] ELSE ledger[n]]
  BY <1>1 DEF CloseAttempt
<1>5. closed \in [1..Len(ledger) -> Attempt]
  BY <1>2, <1>3, <1>4
<1>6. closed \in Seq(Attempt) /\ Len(closed) = Len(ledger)
  BY <1>1, <1>5
<1> QED
  BY <1>4, <1>6

\* Recording an event keeps the stream a stream.
LEMMA RecordNextType ==
    ASSUME NEW events \in Seq(Event), NEW event \in Event
    PROVE  RecordNext(events, event) \in Seq(Event)
  BY DEF RecordNext

\* Time keeps the type of a timer and never makes it later.
LEMMA OlderType ==
    ASSUME NEW timer \in Timer \union {None}
    PROVE  /\ Older(timer) \in Timer \union {None}
           /\ timer \in Timer => Older(timer) \in Timer /\ Older(timer) <= timer
           /\ Older(timer) = None <=> timer = None
  BY TimersAssumption, SkewAssumption DEF Older, Timer, Floor

\* A row before its insert has the type of a row.
LEMMA AbsentRowType == AbsentRow \in Row
  BY SkewAssumption DEF AbsentRow, Row, Timer, Floor, Status

\* A claim, field by field.
LEMMA ClaimedRowFields ==
    ASSUME NEW row \in Row, NEW w \in Workers, NEW d \in Drift, NEW r,
           r = ClaimedRow(row, w, d)
    PROVE  /\ r \in Row
           /\ r.status = "running"
           /\ r.attempt_count = row.attempt_count + 1
           /\ r.lease_generation = row.lease_generation + 1
           /\ r.claimed_by = w
           /\ r.fencing_token = row.lease_generation + 1
           /\ r.lease_expires_at = LeaseLen - d
           /\ r.lease_expires_at \in Timer
           /\ r.cancellation_requested = row.cancellation_requested
           /\ r.result = row.result
           /\ r.events = row.events
           /\ r.ledger = Append(CloseAttempt(row.ledger, row.fencing_token, "abandoned"),
                                [worker_id |-> w,
                                 fencing_token |-> row.lease_generation + 1,
                                 status |-> "running"])
<1> DEFINE closed == CloseAttempt(row.ledger, row.fencing_token, "abandoned")
           token == row.lease_generation + 1
           entry == [worker_id |-> w, fencing_token |-> token, status |-> "running"]
           P(x, n, t, lease, ledger) ==
             /\ x \in Row /\ x.status = "running"
             /\ x.attempt_count = n /\ x.lease_generation = t
             /\ x.claimed_by = w /\ x.fencing_token = t
             /\ x.lease_expires_at = lease
             /\ x.cancellation_requested = row.cancellation_requested
             /\ x.result = row.result /\ x.events = row.events
             /\ x.ledger = ledger
<1>1. row.ledger \in Seq(Attempt) /\ row.attempt_count + 1 \in Nat /\ token \in Nat \ {0}
  BY DEF Row
<1>2. entry \in Attempt
  BY <1>1 DEF Attempt
<1>3. Append(closed, entry) \in Seq(Attempt)
  BY <1>1, <1>2, CloseAttemptType
<1>4. LeaseLen - d \in Timer
  BY LeaseAssumption, SkewAssumption DEF Drift, Timer, Floor
<1>5. ASSUME NEW n \in Nat, NEW t \in Nat, NEW lease \in Timer,
             NEW ledger \in Seq(Attempt)
      PROVE  P([row EXCEPT !.status = "running", !.attempt_count = n,
                           !.lease_generation = t, !.claimed_by = w,
                           !.fencing_token = t, !.lease_expires_at = lease,
                           !.ledger = ledger], n, t, lease, ledger)
  BY DEF Row, Status
<1>6. P(r, row.attempt_count + 1, token, LeaseLen - d, Append(closed, entry))
  <2>1. r = [row EXCEPT !.status = "running", !.attempt_count = row.attempt_count + 1,
                  !.lease_generation = token, !.claimed_by = w,
                  !.fencing_token = token, !.lease_expires_at = LeaseLen - d,
                  !.ledger = Append(closed, entry)]
    BY Zenon DEF ClaimedRow
  <2>2. token \in Nat
    BY <1>1
  <2> HIDE DEF closed, entry, token, P
  <2> QED BY ONLY <2>1, <2>2, <1>1, <1>3, <1>4, <1>5, Zenon
<1> QED
  BY <1>4, <1>6

\* The outcomes a worker may ask for.
Requested == {"succeeded", "failed", "cancelled", "retry_wait"}

Final(row, requested) ==
    IF row.cancellation_requested THEN "cancelled" ELSE requested

\* A finalization, field by field.
LEMMA FinalizedRowFields ==
    ASSUME NEW row \in Row, NEW n \in Nat, NEW requested \in Requested,
           NEW value \in {n, None}, NEW retryAt \in Timer,
           NEW r, r = FinalizedRow(row, n, requested, value, retryAt)
    PROVE  /\ r \in Row
           /\ r.status = Final(row, requested)
           /\ r.attempt_count = row.attempt_count
           /\ r.lease_generation = row.lease_generation
           /\ r.fencing_token = None
           /\ r.cancellation_requested = row.cancellation_requested
           /\ r.result = IF Final(row, requested) = "succeeded" THEN value ELSE None
           /\ r.events = RecordNext(row.events,
                             [type |-> Final(row, requested), attempt |-> n])
           /\ r.ledger = CloseAttempt(row.ledger, row.fencing_token,
                 IF Final(row, requested) = "retry_wait" THEN "failed"
                 ELSE Final(row, requested))
<1> DEFINE final == Final(row, requested)
           closing == IF final = "retry_wait" THEN "failed" ELSE final
           closed == CloseAttempt(row.ledger, row.fencing_token, closing)
           told == RecordNext(row.events, [type |-> final, attempt |-> n])
           due == IF final = "retry_wait" THEN retryAt ELSE row.available_at
           stored == IF final = "succeeded" THEN value ELSE None
           P(x, f, t, v, ledger, events) ==
             /\ x \in Row /\ x.status = f
             /\ x.attempt_count = row.attempt_count
             /\ x.lease_generation = row.lease_generation
             /\ x.fencing_token = None
             /\ x.cancellation_requested = row.cancellation_requested
             /\ x.result = v /\ x.events = events /\ x.ledger = ledger
<1>1. /\ final \in Requested /\ closing \in Terminal
      /\ due \in Timer /\ stored \in Nat \union {None}
  BY DEF Row, Final, Requested, Terminal
<1>2. closed \in Seq(Attempt)
  BY <1>1, CloseAttemptType DEF Row
<1>3. told \in Seq(Event)
  <2>1. [type |-> final, attempt |-> n] \in Event
    BY <1>1 DEF Event, Requested, Terminal
  <2> QED BY <2>1, RecordNextType DEF Row
<1>4. ASSUME NEW f \in Requested, NEW t \in Timer, NEW v \in Nat \union {None},
             NEW ledger \in Seq(Attempt), NEW events \in Seq(Event)
      PROVE  P([row EXCEPT !.status = f, !.claimed_by = None, !.fencing_token = None,
                           !.lease_expires_at = None, !.available_at = t,
                           !.result = v, !.ledger = ledger, !.events = events],
               f, t, v, ledger, events)
  BY DEF Row, Status, Requested, Terminal, Queued
<1>5. r = [row EXCEPT !.status = final, !.claimed_by = None, !.fencing_token = None,
                      !.lease_expires_at = None, !.available_at = due,
                      !.result = stored, !.ledger = closed, !.events = told]
  BY Zenon DEF FinalizedRow, Final
<1>6. P(r, final, due, stored, closed, told)
  <2> HIDE DEF P, final, due, stored, closed, told
  <2> QED BY ONLY <1>1, <1>2, <1>3, <1>4, <1>5, Zenon
<1> QED
  BY <1>6

\* A cancellation request, field by field.
LEMMA CancelledRowFields ==
    ASSUME NEW row \in Row, NEW r, r = CancelledRow(row)
    PROVE  /\ r \in Row
           /\ r.status = IF row.status = "running" THEN "running" ELSE "cancelled"
           /\ r.attempt_count = row.attempt_count
           /\ r.lease_generation = row.lease_generation
           /\ r.claimed_by = row.claimed_by
           /\ r.fencing_token = row.fencing_token
           /\ r.lease_expires_at = row.lease_expires_at
           /\ r.cancellation_requested = TRUE
           /\ r.result = row.result
           /\ r.ledger = row.ledger
           /\ r.events = IF row.status = "running" THEN row.events
                         ELSE RecordNext(row.events, [type |-> "cancelled", attempt |-> None])
<1> DEFINE event == [type |-> "cancelled", attempt |-> None]
           told == RecordNext(row.events, event)
<1>1. told \in Seq(Event)
  <2>1. event \in Event
    BY DEF Event, Terminal
  <2> QED BY <2>1, RecordNextType DEF Row
<1>2. CASE row.status = "running"
  <2>1. r = [row EXCEPT !.cancellation_requested = TRUE]
    BY <1>2 DEF CancelledRow
  <2> QED BY <1>2, <2>1 DEF Row
<1>3. CASE row.status # "running"
  <2>1. r = [row EXCEPT !.status = "cancelled", !.cancellation_requested = TRUE,
                        !.events = told]
    BY ONLY <1>3, r = CancelledRow(row), Zenon DEF CancelledRow
  <2> HIDE DEF told, event
  <2> QED BY <1>1, <1>3, <2>1 DEF Row, Status, Terminal, told, event
<1> QED BY <1>2, <1>3

\* The outcome recover_expired writes.
Recovered(row) == IF row.cancellation_requested THEN "cancelled" ELSE "failed"

\* The end of an expired claim, field by field.
LEMMA RecoveredRowFields ==
    ASSUME NEW row \in Row, NEW r, r = RecoveredRow(row)
    PROVE  /\ r \in Row
           /\ r.status = Recovered(row)
           /\ r.attempt_count = row.attempt_count
           /\ r.lease_generation = row.lease_generation
           /\ r.fencing_token = None
           /\ r.cancellation_requested = row.cancellation_requested
           /\ r.result = row.result
           /\ r.events = RecordNext(row.events,
                             [type |-> Recovered(row), attempt |-> row.attempt_count])
           /\ r.ledger = CloseAttempt(row.ledger, row.fencing_token, Recovered(row))
<1> DEFINE final == Recovered(row)
           closed == CloseAttempt(row.ledger, row.fencing_token, final)
           event == [type |-> final, attempt |-> row.attempt_count]
           told == RecordNext(row.events, event)
           P(x, f, ledger, events) ==
             /\ x \in Row /\ x.status = f
             /\ x.attempt_count = row.attempt_count
             /\ x.lease_generation = row.lease_generation
             /\ x.fencing_token = None
             /\ x.cancellation_requested = row.cancellation_requested
             /\ x.result = row.result /\ x.events = events /\ x.ledger = ledger
<1>1. final \in Terminal
  BY DEF Recovered, Terminal
<1>2. closed \in Seq(Attempt)
  BY <1>1, CloseAttemptType DEF Row
<1>3. told \in Seq(Event)
  <2>1. event \in Event
    BY <1>1 DEF Event, Row
  <2> QED BY <2>1, RecordNextType DEF Row
<1>4. ASSUME NEW f \in Terminal, NEW ledger \in Seq(Attempt), NEW events \in Seq(Event)
      PROVE  P([row EXCEPT !.status = f, !.claimed_by = None, !.fencing_token = None,
                           !.lease_expires_at = None, !.ledger = ledger,
                           !.events = events], f, ledger, events)
  BY DEF Row, Status
<1>5. r = [row EXCEPT !.status = final, !.claimed_by = None, !.fencing_token = None,
                      !.lease_expires_at = None, !.ledger = closed, !.events = told]
  BY Zenon DEF RecoveredRow, Recovered
<1>6. P(r, final, closed, told)
  <2> HIDE DEF P, final, closed, told
  <2> QED BY ONLY <1>1, <1>2, <1>3, <1>4, <1>5, Zenon
<1> QED
  BY <1>6

\* Time changes the timers of a row and nothing else.
LEMMA AgedFields ==
    ASSUME NEW row \in Row, NEW r, r = Aged(row)
    PROVE  /\ r \in Row
           /\ r.status = row.status
           /\ r.position = row.position
           /\ r.attempt_count = row.attempt_count
           /\ r.lease_generation = row.lease_generation
           /\ r.claimed_by = row.claimed_by
           /\ r.fencing_token = row.fencing_token
           /\ r.lease_expires_at = Older(row.lease_expires_at)
           /\ r.cancellation_requested = row.cancellation_requested
           /\ r.result = row.result
           /\ r.ledger = row.ledger
           /\ r.events = row.events
<1>1. /\ Older(row.lease_expires_at) \in Timer \union {None}
      /\ Older(row.available_at) \in Timer
      /\ Older(row.deadline) \in Timer \union {None}
  BY OlderType DEF Row
<1>2. r = [row EXCEPT !.lease_expires_at = Older(row.lease_expires_at),
                      !.available_at = Older(row.available_at),
                      !.deadline = Older(row.deadline)]
  BY DEF Aged
<1> QED
  BY <1>1, <1>2 DEF Row

\* A heartbeat changes the lease and nothing else.
LEMMA HeartbeatRowFields ==
    ASSUME NEW row \in Row, NEW lease \in Timer, NEW r,
           r = [row EXCEPT !.lease_expires_at = lease]
    PROVE  /\ r \in Row
           /\ r.status = row.status
           /\ r.attempt_count = row.attempt_count
           /\ r.lease_generation = row.lease_generation
           /\ r.claimed_by = row.claimed_by
           /\ r.fencing_token = row.fencing_token
           /\ r.lease_expires_at = lease
           /\ r.cancellation_requested = row.cancellation_requested
           /\ r.result = row.result
           /\ r.ledger = row.ledger
           /\ r.events = row.events
  BY DEF Row

-----------------------------------------------------------------------------
(* Type correctness *)

\* A clock reading and the distance of an instant from it are in range.
LEMMA TimerRange ==
    /\ \A d \in Drift : LeaseLen - d \in Timer
    /\ \A d \in Drift, delay \in Delays : delay - d \in Timer
    /\ \A delay \in Delays : delay \in Timer
    /\ \A d \in Drift : 0 - d \in Timer
  BY LeaseAssumption, SkewAssumption, DelaysAssumption DEF Drift, Timer, Floor

\* The row an insert writes.
LEMMA InsertedRowType ==
    ASSUME NEW j \in Jobs, NEW delay \in Delays, NEW p \in Nat, NEW r,
           r = [AbsentRow EXCEPT !.status = "pending", !.position = p,
                                 !.available_at = delay, !.deadline = Deadline[j]]
    PROVE  /\ r \in Row
           /\ r.status = "pending" /\ r.attempt_count = 0 /\ r.lease_generation = 0
           /\ r.fencing_token = None /\ r.cancellation_requested = FALSE
           /\ r.result = None /\ r.ledger = <<>> /\ r.events = <<>>
<1>1. delay \in Timer /\ Deadline[j] \in Timer \union {None}
  BY TimerRange, DeadlineAssumption
<1> QED
  BY <1>1, AbsentRowType DEF AbsentRow, Row, Status, Queued

\* Locking a row with a well-typed version keeps the state well typed.
LEMMA LockType ==
    ASSUME TypeOK, NEW j \in Jobs, NEW version \in Row, Lock(j, version)
    PROVE  TypeOK'
  BY DEF TypeOK, Lock

\* Every finalization a client can ask for locks the row with a well-typed version.
LEMMA FinalizeClaimType ==
    ASSUME TypeOK, NEW w, NEW j \in Jobs, NEW n \in Nat, NEW token,
           NEW requested \in Requested, NEW delay \in Nat, NEW d \in Drift,
           NEW value \in {n, None},
           FinalizeClaim(w, j, n, token, requested, value, delay, d)
    PROVE  TypeOK'
<1>1. delay - d \in Timer
  BY SkewAssumption DEF Drift, Timer, Floor
<1>2. job[j] \in Row
  BY DEF TypeOK
<1>3. FinalizedRow(job[j], n, requested, value, delay - d) \in Row
  BY <1>1, <1>2, FinalizedRowFields
<1> QED
  BY <1>3, LockType DEF FinalizeClaim

\* Every step of the queue keeps its state well typed.
LEMMA TypeStep ==
    ASSUME TypeOK, [Next]_vars
    PROVE  TypeOK'
<1>1. CASE Tick
  <2>1. ASSUME NEW r \in Row PROVE Aged(r) \in Row
    BY AgedFields
  <2> QED BY <1>1, <2>1 DEF Tick, TypeOK
<1>2. ASSUME NEW j \in Jobs, FindIdempotent(j) PROVE TypeOK'
  <2>1. SameKey(j) # {} => (CHOOSE k \in SameKey(j) : TRUE) \in Jobs
    BY DEF SameKey, Inserted
  <2> QED BY <1>2, <2>1 DEF FindIdempotent, TypeOK
<1>3. ASSUME NEW j \in Jobs, NEW delay \in Delays, Insert(j, delay) PROVE TypeOK'
  <2>1. SameKey(j) # {} => (CHOOSE k \in SameKey(j) : TRUE) \in Jobs
    BY DEF SameKey, Inserted
  <2>2. Cardinality(Inserted) + 1 \in Nat
    <3>1. IsFiniteSet(Inserted)
      BY JobsAssumption, FS_Subset DEF Inserted
    <3> QED BY <3>1, FS_CardinalityType
  <2> DEFINE fresh == [AbsentRow EXCEPT !.status = "pending",
                                        !.position = Cardinality(Inserted) + 1,
                                        !.available_at = delay,
                                        !.deadline = Deadline[j]]
  <2>3. fresh \in Row
    BY <2>2, InsertedRowType
  <2>4. CASE SameKey(j) = {}
    <3>1. job' = [job EXCEPT ![j] = fresh] /\ tx' = tx
          /\ caller' = [caller EXCEPT ![j] = [at |-> "done", receipt |-> j]]
      BY <1>3, <2>4 DEF Insert
    <3> HIDE DEF fresh
    <3> QED BY <2>3, <3>1 DEF TypeOK
  <2>5. CASE SameKey(j) # {}
    <3>1. UNCHANGED <<job, tx>>
          /\ caller' = [caller EXCEPT ![j] =
                [at |-> "done", receipt |-> CHOOSE k \in SameKey(j) : TRUE]]
      BY <1>3, <2>5 DEF Insert
    <3> QED BY <2>1, <2>5, <3>1 DEF TypeOK
  <2> QED BY <2>4, <2>5
<1>4. ASSUME NEW j \in Jobs, NEW w \in Workers, NEW d \in Drift, Claim(w, j, d)
      PROVE TypeOK'
  <2>1. ClaimedRow(job[j], w, d) \in Row
    BY ClaimedRowFields DEF TypeOK
  <2> QED BY <1>4, <2>1, LockType DEF Claim
<1>5. ASSUME NEW j \in Jobs, NEW n \in DOMAIN job[j].ledger, UseEnvelope(j, n)
      PROVE TypeOK'
  <2> DEFINE w == job[j].ledger[n].worker_id
             token == job[j].ledger[n].fencing_token
  <2>0. n \in Nat
    BY DEF TypeOK, Row
  <2>1. ASSUME NEW d \in Drift, Heartbeat(w, j, token, d) PROVE TypeOK'
    BY <2>1, HeartbeatRowFields, TimerRange DEF Heartbeat, TypeOK
  <2>2. ASSUME NEW d \in Drift, NEW value \in {n, None},
               Complete(w, j, n, token, value, d)
        PROVE  TypeOK'
    BY <2>0, <2>2, FinalizeClaimType DEF Complete, Requested
  <2>3. ASSUME NEW d \in Drift, CancelClaim(w, j, n, token, d) PROVE TypeOK'
    BY <2>0, <2>3, FinalizeClaimType DEF CancelClaim, Requested
  <2>4. ASSUME NEW d \in Drift, NEW retryable \in BOOLEAN, NEW delay \in Delays,
               NEW d0 \in Drift, Fail(w, j, n, token, retryable, delay, d0, d)
        PROVE TypeOK'
    <3>1. delay \in Nat
      BY DelaysAssumption
    <3> QED BY <2>0, <2>4, <3>1, FinalizeClaimType DEF Fail, Requested
  <2> QED BY <1>5, <2>1, <2>2, <2>3, <2>4 DEF UseEnvelope
<1>6. ASSUME NEW j \in Jobs, RequestCancel(j) PROVE TypeOK'
  <2>1. CancelledRow(job[j]) \in Row
    BY CancelledRowFields DEF TypeOK
  <2> QED BY <1>6, <2>1, LockType DEF RequestCancel
<1>7. ASSUME NEW j \in Jobs, NEW d \in Drift, RecoverExpired(j, d) PROVE TypeOK'
  <2>1. RecoveredRow(job[j]) \in Row
    BY RecoveredRowFields DEF TypeOK
  <2> QED BY <1>7, <2>1, LockType DEF RecoverExpired
<1>8. ASSUME NEW j \in Jobs, Commit(j) PROVE TypeOK'
  BY <1>8 DEF Commit, TypeOK
<1>9. ASSUME NEW j \in Jobs, Rollback(j) PROVE TypeOK'
  BY <1>9 DEF Rollback, TypeOK
<1>10. CASE UNCHANGED vars
  BY <1>10 DEF vars, TypeOK
<1> QED
  BY <1>1, <1>2, <1>3, <1>4, <1>5, <1>6, <1>7, <1>8, <1>9, <1>10 DEF Next, JobStep

\* Every state the queue can reach is well typed.
THEOREM TypeCorrect == Spec => []TypeOK
<1>1. Init => TypeOK
  BY AbsentRowType DEF Init, TypeOK
<1> QED
  BY <1>1, TypeStep, PTL DEF Spec

-----------------------------------------------------------------------------
(* Every operation turns a consistent row into a consistent row *)

\* In a consistent row, closing the attempt of the row's token closes the last
\* attempt of a running row, and nothing when no attempt runs.
LEMMA CloseLast ==
    ASSUME NEW row \in Row, ClaimConsistent(row),
           NEW status \in {"abandoned"} \union Terminal,
           NEW c, c = CloseAttempt(row.ledger, row.fencing_token, status)
    PROVE  /\ c \in Seq(Attempt) /\ Len(c) = Len(row.ledger)
           /\ \A n \in 1..Len(row.ledger) :
                /\ c[n].fencing_token = n
                /\ c[n].worker_id = row.ledger[n].worker_id
                /\ c[n].status = IF row.status = "running" /\ n = Len(row.ledger)
                                 THEN status ELSE row.ledger[n].status
                /\ c[n].status # "running"
<1>1. row.ledger \in Seq(Attempt) /\ Len(row.ledger) \in Nat
  BY DEF Row
<1>2. /\ c \in Seq(Attempt) /\ Len(c) = Len(row.ledger)
      /\ \A n \in 1..Len(row.ledger) :
           c[n] = IF row.ledger[n].fencing_token = row.fencing_token
                     /\ row.ledger[n].status = "running"
                  THEN [row.ledger[n] EXCEPT !.status = status] ELSE row.ledger[n]
  BY <1>1, CloseAttemptType
<1>3. \A n \in 1..Len(row.ledger) : row.ledger[n] \in Attempt
  BY <1>1
<1>4. status # "running"
  BY DEF Terminal
<1>5. ASSUME NEW n \in 1..Len(row.ledger)
      PROVE  /\ c[n].fencing_token = n
             /\ c[n].worker_id = row.ledger[n].worker_id
             /\ c[n].status = IF row.status = "running" /\ n = Len(row.ledger)
                              THEN status ELSE row.ledger[n].status
             /\ c[n].status # "running"
  <2>1. row.ledger[n].fencing_token = n
    BY DEF ClaimConsistent
  <2>2. row.ledger[n].status = "running" <=>
           row.status = "running" /\ n = Len(row.ledger)
    BY DEF ClaimConsistent
  <2>3. CASE row.status = "running" /\ n = Len(row.ledger)
    <3>1. row.fencing_token = n
      BY <2>3 DEF ClaimConsistent
    <3>2. c[n] = [row.ledger[n] EXCEPT !.status = status]
      BY <1>2, <2>1, <2>2, <2>3, <3>1
    <3> QED BY <1>3, <1>4, <2>1, <2>3, <3>2 DEF Attempt
  <2>4. CASE ~(row.status = "running" /\ n = Len(row.ledger))
    <3>1. c[n] = row.ledger[n]
      BY <1>2, <2>2, <2>4
    <3> QED BY <2>1, <2>2, <2>4, <3>1
  <2> QED BY <2>3, <2>4
<1> QED
  BY <1>2, <1>5

\* A row that is neither finished nor absent has no result and no event without
\* an attempt.
LEMMA LiveRow ==
    ASSUME NEW j \in Jobs, NEW row \in Row, RowConsistent(j, row),
           row.status \in Queued \union {"running"}
    PROVE  /\ row.result = None
           /\ \A i \in 1..Len(row.events) : row.events[i].attempt # None
  BY DEF RowConsistent, StatusConsistent, EventsConsistent, Queued

\* submit and schedule.
LEMMA InsertedRowConsistent ==
    ASSUME NEW j \in Jobs, NEW delay \in Delays, NEW p \in Nat, NEW r,
           r = [AbsentRow EXCEPT !.status = "pending", !.position = p,
                                 !.available_at = delay, !.deadline = Deadline[j]]
    PROVE  RowConsistent(j, r) /\ r.status = "pending"
<1>1. /\ r.status = "pending" /\ r.attempt_count = 0 /\ r.lease_generation = 0
      /\ r.fencing_token = None /\ r.cancellation_requested = FALSE
      /\ r.result = None /\ r.ledger = <<>> /\ r.events = <<>>
  BY DEF AbsentRow
<1>2. MaxAttempts[j] \in Nat \ {0}
  BY MaxAttemptsAssumption
<1> QED BY <1>1, <1>2 DEF RowConsistent, ClaimConsistent, StatusConsistent,
                          EventsConsistent, Queued

\* claim_next, first claim, retry and takeover.
LEMMA ClaimedRowConsistent ==
    ASSUME NEW j \in Jobs, NEW row \in Row, RowConsistent(j, row),
           row.status \in Queued \union {"running"},
           row.attempt_count < MaxAttempts[j],
           NEW w \in Workers, NEW d \in Drift, NEW r, r = ClaimedRow(row, w, d)
    PROVE  RowConsistent(j, r) /\ r \in Row /\ r.status = "running"
<1> DEFINE c == CloseAttempt(row.ledger, row.fencing_token, "abandoned")
           entry == [worker_id |-> w, fencing_token |-> row.lease_generation + 1,
                     status |-> "running"]
           last == Len(row.ledger)
<1>1. /\ r \in Row
      /\ r.status = "running"
      /\ r.attempt_count = row.attempt_count + 1
      /\ r.lease_generation = row.lease_generation + 1
      /\ r.claimed_by = w
      /\ r.fencing_token = row.lease_generation + 1
      /\ r.lease_expires_at \in Timer
      /\ r.cancellation_requested = row.cancellation_requested
      /\ r.result = row.result
      /\ r.events = row.events
      /\ r.ledger = Append(c, entry)
  BY ClaimedRowFields
<1>2. /\ row.ledger \in Seq(Attempt) /\ last \in Nat
      /\ row.attempt_count = last /\ row.lease_generation = last
  BY DEF Row, RowConsistent, ClaimConsistent
<1>3. /\ c \in Seq(Attempt) /\ Len(c) = last
      /\ \A n \in 1..last :
           /\ c[n].fencing_token = n
           /\ c[n].worker_id = row.ledger[n].worker_id
           /\ c[n].status = IF row.status = "running" /\ n = last
                            THEN "abandoned" ELSE row.ledger[n].status
           /\ c[n].status # "running"
  BY CloseLast DEF RowConsistent
<1>4. /\ Len(r.ledger) = last + 1
      /\ r.ledger[last + 1] = entry
      /\ \A n \in 1..last : r.ledger[n] = c[n]
  BY <1>1, <1>2, <1>3
<1>5. /\ entry.worker_id = w /\ entry.fencing_token = last + 1
      /\ entry.status = "running"
  BY <1>2
<1> HIDE DEF c, entry
<1>6. ClaimConsistent(r)
  <2>1. \A n \in 1..Len(r.ledger) : n \in 1..last \/ n = last + 1
    BY <1>2, <1>4
  <2>2. r.lease_expires_at # None
    BY <1>1, TimersAssumption DEF Timer
  <2> QED BY <1>1, <1>2, <1>3, <1>4, <1>5, <2>1, <2>2 DEF ClaimConsistent
<1>7. StatusConsistent(j, r)
  <2>1. MaxAttempts[j] \in Nat
    BY MaxAttemptsAssumption
  <2>2. row.result = None
    BY LiveRow
  <2> QED BY <1>1, <1>2, <2>1, <2>2 DEF StatusConsistent, Queued
<1>8. EventsConsistent(r)
  <2>1. \A i \in 1..Len(row.events) : row.events[i].attempt # None
    BY LiveRow
  <2>2. \A n \in 1..last : row.ledger[n].status \in Terminal =>
           r.ledger[n].status \in Terminal
    <3>1. row.status = "running" => row.ledger[last].status = "running"
      BY <1>2 DEF RowConsistent, ClaimConsistent
    <3> QED BY <1>3, <1>4, <3>1 DEF Terminal
  <2>3. \A n \in 1..Len(r.ledger) : r.ledger[n].status \in Terminal =>
           n \in 1..last /\ row.ledger[n].status \in Terminal
    BY <1>2, <1>3, <1>4, <1>5 DEF Terminal
  <2>4. EventsConsistent(row)
    BY DEF RowConsistent
  <2>5. \A i \in 1..Len(r.events) : r.events[i].attempt # None =>
           /\ r.events[i].attempt \in 1..Len(r.ledger)
           /\ r.ledger[r.events[i].attempt].status \in Terminal
    <3> SUFFICES ASSUME NEW i \in 1..Len(row.events)
                 PROVE  /\ row.events[i].attempt \in 1..(last + 1)
                        /\ r.ledger[row.events[i].attempt].status \in Terminal
      BY <1>1, <1>4
    <3>1. /\ row.events[i].attempt \in 1..last
          /\ row.ledger[row.events[i].attempt].status \in Terminal
      BY <2>1, <2>4 DEF EventsConsistent
    <3> QED BY <1>2, <2>2, <3>1
  <2>6. \A n \in 1..Len(r.ledger) : r.ledger[n].status \in Terminal =>
           \E i \in 1..Len(r.events) : r.events[i].attempt = n
    BY <1>1, <2>3, <2>4 DEF EventsConsistent
  <2>7. /\ \A i, k \in 1..Len(r.events) :
              r.events[i].attempt = r.events[k].attempt => i = k
        /\ \A i \in 1..Len(r.events) :
              r.events[i].attempt = None => r.status = "cancelled"
    BY <1>1, <2>1, <2>4 DEF EventsConsistent
  <2> QED BY <2>5, <2>6, <2>7 DEF EventsConsistent
<1> QED
  BY <1>1, <1>6, <1>7, <1>8 DEF RowConsistent

\* A new event for an attempt that has none is appended, and keeps the events of a
\* row consistent with a ledger in which exactly that attempt has been closed.
LEMMA AppendEvent ==
    ASSUME NEW row \in Row, EventsConsistent(row), ClaimConsistent(row),
           row.status = "running",
           NEW type \in Requested, NEW status \in Terminal, NEW r \in Row,
           r.ledger = CloseAttempt(row.ledger, row.fencing_token, status),
           r.events = RecordNext(row.events, [type |-> type, attempt |-> Len(row.ledger)])
    PROVE  EventsConsistent(r)
<1> DEFINE last == Len(row.ledger)
           event == [type |-> type, attempt |-> last]
           m == Len(row.events)
<1>1. /\ row.ledger \in Seq(Attempt) /\ last \in Nat
      /\ row.events \in Seq(Event) /\ m \in Nat
  BY DEF Row
<1>2. last \in 1..last /\ row.ledger[last].status = "running"
  BY <1>1 DEF ClaimConsistent
<1>3. /\ Len(r.ledger) = last
      /\ \A n \in 1..last : r.ledger[n].status =
            IF n = last THEN status ELSE row.ledger[n].status
  <2>1. status \in {"abandoned"} \union Terminal
    OBVIOUS
  <2>2. \A n \in 1..last : r.ledger[n].status =
            IF row.status = "running" /\ n = last THEN status ELSE row.ledger[n].status
    BY <2>1, CloseLast
  <2>3. Len(r.ledger) = last
    BY <2>1, CloseLast
  <2> QED BY <2>2, <2>3
<1>4. \A i \in 1..m : row.events[i].attempt # last
  <2>1. "running" \notin Terminal
    BY DEF Terminal
  <2>2. last # None
    BY <1>1, TimersAssumption
  <2> QED BY <1>2, <2>1, <2>2 DEF EventsConsistent
<1>5. event.attempt = last
  OBVIOUS
<1>6. r.events = Append(row.events, event)
  <2>1. DOMAIN row.events = 1..m
    BY <1>1
  <2>2. ~\E i \in DOMAIN row.events : row.events[i] = event
    BY <1>4, <1>5, <2>1
  <2> QED BY <2>2 DEF RecordNext
<1>7. /\ Len(r.events) = m + 1
      /\ r.events[m + 1].attempt = last
      /\ \A i \in 1..m : r.events[i] = row.events[i]
  <2>1. event \in Event
    BY <1>1 DEF Event, Requested, Terminal
  <2> HIDE DEF event
  <2> QED BY <1>1, <1>5, <1>6, <2>1
<1> HIDE DEF event
<1>8. \A i \in 1..m : row.events[i].attempt # None
  BY DEF EventsConsistent
<1>9. \A i \in 1..(m + 1) : i \in 1..m \/ i = m + 1
  BY <1>1
<1>10. last # None
  BY <1>1, TimersAssumption
<1>11. \A i \in 1..Len(r.events) : r.events[i].attempt # None =>
           /\ r.events[i].attempt \in 1..Len(r.ledger)
           /\ r.ledger[r.events[i].attempt].status \in Terminal
  <2> SUFFICES ASSUME NEW i \in 1..(m + 1)
               PROVE  /\ r.events[i].attempt \in 1..last
                      /\ r.ledger[r.events[i].attempt].status \in Terminal
    BY <1>3, <1>7
  <2>1. CASE i \in 1..m
    <3>1. /\ row.events[i].attempt \in 1..last
          /\ row.ledger[row.events[i].attempt].status \in Terminal
      BY <1>8, <2>1 DEF EventsConsistent
    <3>2. row.events[i].attempt # last /\ r.events[i] = row.events[i]
      BY <1>4, <1>7, <2>1
    <3> QED BY <1>3, <3>1, <3>2
  <2>2. CASE i = m + 1
    BY <1>2, <1>3, <1>7, <2>2
  <2> QED BY <1>9, <2>1, <2>2
<1>12. \A n \in 1..Len(r.ledger) : r.ledger[n].status \in Terminal =>
           \E i \in 1..Len(r.events) : r.events[i].attempt = n
  <2> SUFFICES ASSUME NEW n \in 1..last, r.ledger[n].status \in Terminal
               PROVE  \E i \in 1..(m + 1) : r.events[i].attempt = n
    BY <1>3, <1>7
  <2>1. CASE n = last
    BY <1>1, <1>7, <2>1
  <2>2. CASE n # last
    <3>1. row.ledger[n].status \in Terminal
      BY <1>3, <2>2
    <3>2. PICK i \in 1..m : row.events[i].attempt = n
      BY <3>1 DEF EventsConsistent
    <3> QED BY <1>1, <1>7, <3>2
  <2> QED BY <2>1, <2>2
<1>13. \A i, k \in 1..Len(r.events) :
           r.events[i].attempt = r.events[k].attempt => i = k
  <2>1. \A i, k \in 1..m : row.events[i].attempt = row.events[k].attempt => i = k
    BY DEF EventsConsistent
  <2> SUFFICES ASSUME NEW i \in 1..(m + 1), NEW k \in 1..(m + 1),
                      r.events[i].attempt = r.events[k].attempt
               PROVE  i = k
    BY <1>7
  <2>2. CASE i \in 1..m /\ k \in 1..m
    BY <1>7, <2>1, <2>2
  <2>3. CASE i = m + 1 \/ k = m + 1
    BY <1>4, <1>7, <1>9, <2>3
  <2> QED BY <1>9, <2>2, <2>3
<1>14. \A i \in 1..Len(r.events) :
           r.events[i].attempt = None => r.status = "cancelled"
  BY <1>7, <1>8, <1>9, <1>10
<1> QED
  BY <1>11, <1>12, <1>13, <1>14 DEF EventsConsistent

\* complete, fail and cancel_claim.
LEMMA FinalizedRowConsistent ==
    ASSUME NEW j \in Jobs, NEW row \in Row, RowConsistent(j, row),
           row.status = "running",
           NEW requested \in Requested, NEW retryAt \in Timer,
           requested = "retry_wait" => Len(row.ledger) < MaxAttempts[j],
           NEW value \in {Len(row.ledger), None},
           NEW r, r = FinalizedRow(row, Len(row.ledger), requested, value, retryAt)
    PROVE  /\ RowConsistent(j, r) /\ r \in Row
           /\ r.status # "absent" /\ r.fencing_token = None
<1> DEFINE final == Final(row, requested)
           status == IF final = "retry_wait" THEN "failed" ELSE final
           last == Len(row.ledger)
<1>1. row.ledger \in Seq(Attempt) /\ last \in Nat
  BY DEF Row
<1>2. /\ r \in Row
      /\ r.status = final
      /\ r.attempt_count = row.attempt_count
      /\ r.lease_generation = row.lease_generation
      /\ r.fencing_token = None
      /\ r.cancellation_requested = row.cancellation_requested
      /\ r.result = IF final = "succeeded" THEN value ELSE None
      /\ r.events = RecordNext(row.events, [type |-> final, attempt |-> last])
      /\ r.ledger = CloseAttempt(row.ledger, row.fencing_token, status)
  BY <1>1, FinalizedRowFields
<1>3. final \in Requested /\ status \in Terminal
  BY DEF Final, Requested, Terminal
<1>4. /\ Len(r.ledger) = last
      /\ \A n \in 1..last : r.ledger[n].fencing_token = n
      /\ \A n \in 1..last : r.ledger[n].status # "running"
  <2>1. status \in {"abandoned"} \union Terminal /\ ClaimConsistent(row)
    BY <1>3 DEF RowConsistent
  <2> HIDE DEF status
  <2> QED BY <1>2, <2>1, CloseLast
<1>5. ClaimConsistent(r)
  <2>1. r.status # "running"
    BY <1>2, <1>3 DEF Requested
  <2> QED BY <1>2, <1>4, <2>1 DEF RowConsistent, ClaimConsistent
<1>6. StatusConsistent(j, r)
  <2>1. MaxAttempts[j] \in Nat /\ last # None
    BY <1>1, MaxAttemptsAssumption, TimersAssumption
  <2>2. row.attempt_count = last /\ row.attempt_count <= MaxAttempts[j]
    BY DEF RowConsistent, ClaimConsistent, StatusConsistent
  <2>3. r.status \in Queued => last < MaxAttempts[j]
    BY <1>2, <1>3 DEF Queued, Requested, Final
  <2>4. r.cancellation_requested => r.status = "cancelled"
    BY <1>2 DEF Final
  <2>5. r.status # "absent"
    BY <1>2, <1>3 DEF Requested
  <2> QED BY <1>1, <1>2, <1>4, <2>1, <2>2, <2>3, <2>4, <2>5 DEF StatusConsistent
<1>7. EventsConsistent(r)
  BY <1>2, <1>3, AppendEvent DEF RowConsistent
<1>8. r.status # "absent"
  BY <1>2, <1>3 DEF Requested
<1> QED
  BY <1>2, <1>5, <1>6, <1>7, <1>8 DEF RowConsistent

\* recover_expired.
LEMMA RecoveredRowConsistent ==
    ASSUME NEW j \in Jobs, NEW row \in Row, RowConsistent(j, row),
           row.status = "running", NEW r, r = RecoveredRow(row)
    PROVE  /\ RowConsistent(j, r) /\ r \in Row
           /\ r.status # "absent" /\ r.fencing_token = None
<1> DEFINE final == Recovered(row)
           last == Len(row.ledger)
<1>1. row.ledger \in Seq(Attempt) /\ last \in Nat /\ row.attempt_count = last
  BY DEF Row, RowConsistent, ClaimConsistent
<1>2. /\ r \in Row
      /\ r.status = final
      /\ r.attempt_count = row.attempt_count
      /\ r.lease_generation = row.lease_generation
      /\ r.fencing_token = None
      /\ r.cancellation_requested = row.cancellation_requested
      /\ r.result = row.result
      /\ r.events = RecordNext(row.events, [type |-> final, attempt |-> last])
      /\ r.ledger = CloseAttempt(row.ledger, row.fencing_token, final)
  BY <1>1, RecoveredRowFields
<1>3. final \in {"failed", "cancelled"}
  BY DEF Recovered
<1>4. /\ Len(r.ledger) = last
      /\ \A n \in 1..last : r.ledger[n].fencing_token = n
      /\ \A n \in 1..last : r.ledger[n].status # "running"
  BY <1>2, <1>3, CloseLast DEF RowConsistent, Terminal
<1>5. ClaimConsistent(r)
  BY <1>2, <1>3, <1>4 DEF RowConsistent, ClaimConsistent
<1>6. StatusConsistent(j, r)
  <2>1. row.result = None
    BY LiveRow
  <2>2. r.cancellation_requested => r.status = "cancelled"
    BY <1>2 DEF Recovered
  <2> QED BY <1>2, <1>3, <1>4, <2>1, <2>2
          DEF StatusConsistent, RowConsistent, Queued
<1>7. EventsConsistent(r)
  BY <1>2, <1>3, AppendEvent DEF RowConsistent, Requested, Terminal
<1> QED
  BY <1>2, <1>3, <1>5, <1>6, <1>7 DEF RowConsistent

\* request_cancel, of a running and of a queued job.
LEMMA CancelledRowConsistent ==
    ASSUME NEW j \in Jobs, NEW row \in Row, RowConsistent(j, row),
           row.status \in Queued \union {"running"}, NEW r, r = CancelledRow(row)
    PROVE  RowConsistent(j, r)
<1> DEFINE event == [type |-> "cancelled", attempt |-> None]
           m == Len(row.events)
<1>1. /\ r \in Row
      /\ r.status = IF row.status = "running" THEN "running" ELSE "cancelled"
      /\ r.attempt_count = row.attempt_count
      /\ r.lease_generation = row.lease_generation
      /\ r.claimed_by = row.claimed_by
      /\ r.fencing_token = row.fencing_token
      /\ r.lease_expires_at = row.lease_expires_at
      /\ r.cancellation_requested = TRUE
      /\ r.result = row.result
      /\ r.ledger = row.ledger
      /\ r.events = IF row.status = "running" THEN row.events
                    ELSE RecordNext(row.events, event)
  BY CancelledRowFields
<1>2. row.events \in Seq(Event) /\ m \in Nat
  BY DEF Row
<1>3. ClaimConsistent(r)
  BY <1>1 DEF RowConsistent, ClaimConsistent, Queued
<1>4. row.result = None /\ \A i \in 1..m : row.events[i].attempt # None
  BY LiveRow
<1>5. StatusConsistent(j, r)
  BY <1>1, <1>4 DEF RowConsistent, StatusConsistent, Queued
<1>6. CASE row.status = "running"
  <2>1. EventsConsistent(r)
    BY <1>1, <1>4, <1>6 DEF RowConsistent, EventsConsistent
  <2> QED BY <1>3, <1>5, <2>1 DEF RowConsistent
<1>7. CASE row.status # "running"
  <2>1. event.attempt = None
    OBVIOUS
  <2>2. r.events = Append(row.events, event)
    <3>1. DOMAIN row.events = 1..m
      BY <1>2
    <3> QED BY <1>1, <1>4, <1>7, <2>1, <3>1 DEF RecordNext
  <2>3. /\ Len(r.events) = m + 1
        /\ r.events[m + 1].attempt = None
        /\ \A i \in 1..m : r.events[i] = row.events[i]
    <3>1. event \in Event
      BY DEF Event, Terminal
    <3> HIDE DEF event
    <3> QED BY <1>2, <2>1, <2>2, <3>1
  <2>4. \A i \in 1..Len(r.events) : i \in 1..m \/ i = m + 1
    BY <1>2, <2>3
  <2>5. 1..m \subseteq 1..Len(r.events)
    BY <1>2, <2>3
  <2> HIDE DEF event
  <2>6. EventsConsistent(row)
    BY DEF RowConsistent
  <2>7. \A i \in 1..Len(r.events) : r.events[i].attempt # None =>
           /\ r.events[i].attempt \in 1..Len(r.ledger)
           /\ r.ledger[r.events[i].attempt].status \in Terminal
    BY <1>1, <2>3, <2>4, <2>6 DEF EventsConsistent
  <2>8. \A n \in 1..Len(r.ledger) : r.ledger[n].status \in Terminal =>
           \E i \in 1..Len(r.events) : r.events[i].attempt = n
    BY <1>1, <2>3, <2>5, <2>6 DEF EventsConsistent
  <2>9. \A i, k \in 1..Len(r.events) :
           r.events[i].attempt = r.events[k].attempt => i = k
    BY <1>4, <2>3, <2>4, <2>6 DEF EventsConsistent
  <2>10. EventsConsistent(r)
    BY <1>1, <1>7, <2>7, <2>8, <2>9 DEF EventsConsistent
  <2> QED BY <1>3, <1>5, <2>10 DEF RowConsistent
<1> QED
  BY <1>6, <1>7

\* Time, and a heartbeat: the timers of a row are not part of its consistency.
LEMMA TimersInconsequential ==
    ASSUME NEW j \in Jobs, NEW row \in Row, NEW r \in Row,
           r.status = row.status, r.attempt_count = row.attempt_count,
           r.lease_generation = row.lease_generation,
           r.claimed_by = row.claimed_by, r.fencing_token = row.fencing_token,
           r.lease_expires_at = None <=> row.lease_expires_at = None,
           r.cancellation_requested = row.cancellation_requested,
           r.result = row.result, r.ledger = row.ledger, r.events = row.events,
           RowConsistent(j, row)
    PROVE  RowConsistent(j, r)
  BY DEF RowConsistent, ClaimConsistent, StatusConsistent, EventsConsistent

-----------------------------------------------------------------------------
(* The inductive invariant *)

\* A transaction that locks an unfinished row with a consistent version of it.
LEMMA LockConsistent ==
    ASSUME TypeOK, IInv, NEW j \in Jobs, NEW version \in Row,
           RowConsistent(j, version), version.status # "absent",
           job[j].status \in Queued \union {"running"},
           job[j].status = "running" =>
              \/ version.fencing_token \in {None, job[j].fencing_token}
              \/ job[j].lease_expires_at < Skew,
           Lock(j, version)
    PROVE  IInv'
<1>1. /\ job' = job /\ caller' = caller
      /\ tx'[j] = version
      /\ \A k \in Jobs \ {j} : tx'[k] = tx[k]
  BY DEF Lock, TypeOK
<1>2. Inserted' = Inserted
  BY <1>1 DEF Inserted
<1>3. \A k \in Jobs : TxConsistent(k)'
  <2> SUFFICES ASSUME NEW k \in Jobs PROVE TxConsistent(k)'
    OBVIOUS
  <2>1. CASE k = j
    BY <1>1, <2>1 DEF TxConsistent
  <2>2. CASE k # j
    BY <1>1, <2>2 DEF TxConsistent, IInv
  <2> QED BY <2>1, <2>2
<1> QED
  BY <1>1, <1>2, <1>3 DEF IInv, CallerConsistent

\* A finalization with the envelope of attempt n names the running claim, so it
\* is attempt n that runs.
LEMMA EnvelopeCurrent ==
    ASSUME TypeOK, IInv, NEW j \in Jobs, NEW n \in 1..Len(job[j].ledger), NEW w, NEW d,
           OwnsLiveClaim(job[j], w, job[j].ledger[n].fencing_token, d)
    PROVE  n = Len(job[j].ledger) /\ job[j].status = "running"
<1>1. job[j].ledger[n].fencing_token = n
  BY DEF IInv, RowConsistent, ClaimConsistent
<1> QED
  BY <1>1 DEF IInv, RowConsistent, ClaimConsistent, OwnsLiveClaim

\* complete, fail and cancel_claim by any holder of an envelope.
LEMMA FinalizeClaimConsistent ==
    ASSUME TypeOK, IInv, NEW j \in Jobs, NEW n \in 1..Len(job[j].ledger), NEW w,
           NEW requested \in Requested, NEW delay \in Nat, NEW d \in Drift,
           requested = "retry_wait" => n < MaxAttempts[j],
           NEW value \in {n, None},
           FinalizeClaim(w, j, n, job[j].ledger[n].fencing_token, requested, value, delay, d)
    PROVE  IInv'
<1> DEFINE version == FinalizedRow(job[j], n, requested, value, delay - d)
<1>1. job[j] \in Row /\ delay - d \in Timer /\ n \in Nat
  BY SkewAssumption DEF TypeOK, Drift, Timer, Floor
<1>2. n = Len(job[j].ledger) /\ job[j].status = "running"
  BY EnvelopeCurrent DEF FinalizeClaim
<1>3. RowConsistent(j, job[j])
  BY DEF IInv
<1>4. /\ RowConsistent(j, version) /\ version \in Row
      /\ version.status # "absent" /\ version.fencing_token = None
  BY <1>1, <1>2, <1>3, FinalizedRowConsistent
<1>5. Lock(j, version)
  BY DEF FinalizeClaim
<1> HIDE DEF version
<1> QED
  BY <1>2, <1>4, <1>5, LockConsistent

\* A heartbeat, of an unlocked row.
LEMMA HeartbeatConsistent ==
    ASSUME TypeOK, IInv, NEW j \in Jobs, NEW w, NEW token, NEW d \in Drift,
           Heartbeat(w, j, token, d)
    PROVE  IInv'
<1> DEFINE row == [job[j] EXCEPT !.lease_expires_at = LeaseLen - d]
<1>1. /\ job' = [job EXCEPT ![j] = row] /\ tx' = tx /\ caller' = caller /\ tx[j] = None
      /\ job[j].lease_expires_at # None
  BY DEF Heartbeat, Unlocked, OwnsLiveClaim, NotBefore
<1>2. LeaseLen - d \in Timer /\ LeaseLen - d # None /\ job[j] \in Row
  BY TimerRange, TimersAssumption DEF Timer, TypeOK
<1>3. row \in Row /\ row.status = job[j].status
  BY <1>2, HeartbeatRowFields
<1>4. RowConsistent(j, row)
  <2>1. RowConsistent(j, job[j])
    BY DEF IInv
  <2> QED BY <1>1, <1>2, <2>1, HeartbeatRowFields, TimersInconsequential
<1> HIDE DEF row
<1>5. job'[j] = row /\ \A k \in Jobs \ {j} : job'[k] = job[k]
  BY <1>1 DEF TypeOK
<1>6. \A k \in Jobs : job'[k].status = job[k].status
  BY <1>3, <1>5
<1>7. Inserted' = Inserted
  BY <1>6 DEF Inserted
<1>8. \A k \in Jobs : RowConsistent(k, job'[k])
  BY <1>4, <1>5 DEF IInv
<1>9. \A k \in Jobs : TxConsistent(k)'
  BY <1>1, <1>5 DEF IInv, TxConsistent
<1>10. \A k \in Jobs : CallerConsistent(k)'
  BY <1>1, <1>6, <1>7 DEF IInv, CallerConsistent
<1> QED
  BY <1>1, <1>7, <1>8, <1>9, <1>10 DEF IInv

\* The commit of an open transaction.
LEMMA CommitConsistent ==
    ASSUME TypeOK, IInv, NEW j \in Jobs, Commit(j)
    PROVE  IInv'
<1>1. /\ tx[j] # None /\ caller' = caller
      /\ job'[j] = tx[j] /\ \A k \in Jobs \ {j} : job'[k] = job[k]
      /\ tx'[j] = None /\ \A k \in Jobs \ {j} : tx'[k] = tx[k]
  BY DEF Commit, TypeOK
<1>2. /\ RowConsistent(j, tx[j]) /\ tx[j].status # "absent"
      /\ job[j].status # "absent"
  BY <1>1 DEF IInv, TxConsistent, Queued
<1>3. Inserted' = Inserted
  BY <1>1, <1>2 DEF Inserted
<1>4. \A k \in Jobs : RowConsistent(k, job'[k])
  BY <1>1, <1>2 DEF IInv
<1>5. \A k \in Jobs : TxConsistent(k)'
  BY <1>1 DEF IInv, TxConsistent
<1>6. \A k \in Jobs : CallerConsistent(k)'
  BY <1>1, <1>2, <1>3 DEF IInv, CallerConsistent
<1> QED
  BY <1>3, <1>4, <1>5, <1>6 DEF IInv

\* A rollback forgets the version and leaves the row.
LEMMA RollbackConsistent ==
    ASSUME TypeOK, IInv, NEW j \in Jobs, Rollback(j)
    PROVE  IInv'
<1>1. /\ job' = job /\ caller' = caller
      /\ tx'[j] = None /\ \A k \in Jobs \ {j} : tx'[k] = tx[k]
  BY DEF Rollback, TypeOK
<1>2. Inserted' = Inserted
  BY <1>1 DEF Inserted
<1>3. \A k \in Jobs : TxConsistent(k)'
  BY <1>1 DEF IInv, TxConsistent
<1> QED
  BY <1>1, <1>2, <1>3 DEF IInv, CallerConsistent

\* The passing of time.
LEMMA TickConsistent ==
    ASSUME TypeOK, IInv, Tick
    PROVE  IInv'
<1>1. ASSUME NEW j \in Jobs, NEW row \in Row, RowConsistent(j, row)
      PROVE  /\ Aged(row) \in Row /\ RowConsistent(j, Aged(row))
             /\ Aged(row).status = row.status
             /\ Aged(row).fencing_token = row.fencing_token
             /\ row.lease_expires_at \in Timer =>
                  Aged(row).lease_expires_at <= row.lease_expires_at
                  /\ Aged(row).lease_expires_at \in Timer
  <2>1. /\ Aged(row) \in Row
        /\ Aged(row).status = row.status
        /\ Aged(row).fencing_token = row.fencing_token
        /\ Aged(row).lease_expires_at = Older(row.lease_expires_at)
    BY AgedFields
  <2>2. row.lease_expires_at \in Timer \union {None}
    BY DEF Row
  <2>3. RowConsistent(j, Aged(row))
    BY <1>1, <2>2, AgedFields, OlderType, TimersInconsequential
  <2> QED BY <2>1, <2>2, <2>3, OlderType
<1>2. ASSUME NEW j \in Jobs
      PROVE  /\ RowConsistent(j, job'[j]) /\ job'[j].status = job[j].status
             /\ job'[j].fencing_token = job[j].fencing_token
             /\ job[j].lease_expires_at \in Timer =>
                  job'[j].lease_expires_at <= job[j].lease_expires_at
                  /\ job'[j].lease_expires_at \in Timer
  <2>1. job[j] \in Row /\ RowConsistent(j, job[j])
    BY DEF TypeOK, IInv
  <2>2. job'[j] = IF j \in Inserted THEN Aged(job[j]) ELSE job[j]
    BY DEF Tick
  <2>3. job[j].lease_expires_at \in Timer =>
           job[j].lease_expires_at <= job[j].lease_expires_at
    BY DEF Timer
  <2> QED BY <1>1, <2>1, <2>2, <2>3
<1>3. Inserted' = Inserted
  BY <1>2 DEF Inserted
<1>4. ASSUME NEW j \in Jobs PROVE TxConsistent(j)'
  <2>1. CASE tx[j] = None
    BY <2>1 DEF Tick, TxConsistent
  <2>2. CASE tx[j] # None
    <3>1. tx[j] \in Row /\ RowConsistent(j, tx[j]) /\ tx[j].status # "absent"
          /\ tx'[j] = Aged(tx[j]) /\ job[j].status \in Queued \union {"running"}
      BY <2>2 DEF TypeOK, IInv, TxConsistent, Tick
    <3>2. /\ RowConsistent(j, tx'[j]) /\ tx'[j].status # "absent"
          /\ tx'[j].fencing_token = tx[j].fencing_token
      BY <1>1, <3>1
    <3>3. job[j].status = "running" => job[j].lease_expires_at \in Timer
      BY DEF TypeOK, Row, IInv, RowConsistent, ClaimConsistent
    <3>4. ASSUME job[j].status = "running"
          PROVE  \/ tx'[j].fencing_token \in {None, job'[j].fencing_token}
                 \/ job'[j].lease_expires_at < Skew
      <4>1. \/ tx[j].fencing_token \in {None, job[j].fencing_token}
            \/ job[j].lease_expires_at < Skew
        BY <2>2, <3>4 DEF IInv, TxConsistent
      <4>2. /\ job[j].lease_expires_at \in Int /\ job'[j].lease_expires_at \in Int
            /\ job'[j].lease_expires_at <= job[j].lease_expires_at
        BY <1>2, <3>3, <3>4 DEF Timer
      <4>3. job'[j].fencing_token = job[j].fencing_token
        BY <1>2
      <4> QED BY <3>2, <4>1, <4>2, <4>3, SkewAssumption
    <3>5. job'[j].status = job[j].status
      BY <1>2
    <3> QED BY <3>1, <3>2, <3>4, <3>5 DEF TxConsistent
  <2> QED BY <2>1, <2>2
<1>5. \A j \in Jobs : CallerConsistent(j)'
  BY <1>2, <1>3 DEF IInv, CallerConsistent, Tick
<1> QED
  BY <1>2, <1>3, <1>4, <1>5 DEF IInv

\* The look-up of an idempotency key.
LEMMA FindConsistent ==
    ASSUME TypeOK, IInv, NEW j \in Jobs, FindIdempotent(j)
    PROVE  IInv'
<1>1. /\ job' = job /\ tx' = tx /\ caller[j].at = "start"
      /\ \A k \in Jobs \ {j} : caller'[k] = caller[k]
      /\ caller'[j] = IF SameKey(j) = {} THEN [at |-> "missed", receipt |-> None]
                      ELSE [at |-> "done", receipt |-> CHOOSE k \in SameKey(j) : TRUE]
  BY DEF FindIdempotent, TypeOK
<1>2. Inserted' = Inserted
  BY <1>1 DEF Inserted
<1>3. job[j].status = "absent"
  BY <1>1 DEF IInv, CallerConsistent
<1>4. CallerConsistent(j)'
  <2>1. CASE SameKey(j) = {}
    BY <1>1, <1>3, <2>1 DEF CallerConsistent
  <2>2. CASE SameKey(j) # {}
    <3>1. PICK k \in SameKey(j) : caller'[j] = [at |-> "done", receipt |-> k]
      BY <1>1, <2>2
    <3>2. k \in Inserted /\ Key[k] = Key[j]
      BY DEF SameKey
    <3> QED BY <1>2, <3>1, <3>2 DEF CallerConsistent
  <2> QED BY <2>1, <2>2
<1>5. \A k \in Jobs : CallerConsistent(k)'
  BY <1>1, <1>2, <1>4 DEF IInv, CallerConsistent
<1> QED
  BY <1>1, <1>2, <1>5 DEF IInv, TxConsistent

\* The insert, or its failure on the unique constraint.
LEMMA InsertConsistent ==
    ASSUME TypeOK, IInv, NEW j \in Jobs, NEW delay \in Delays, Insert(j, delay)
    PROVE  IInv'
<1>1. caller[j].at = "missed" /\ tx' = tx
  BY DEF Insert
<1>2. job[j].status = "absent" /\ tx[j] = None
  BY <1>1 DEF IInv, CallerConsistent, TxConsistent, Queued
<1>3. CASE SameKey(j) = {}
  <2> DEFINE fresh == [AbsentRow EXCEPT !.status = "pending",
                                        !.position = Cardinality(Inserted) + 1,
                                        !.available_at = delay,
                                        !.deadline = Deadline[j]]
  <2>1. /\ job' = [job EXCEPT ![j] = fresh]
        /\ caller' = [caller EXCEPT ![j] = [at |-> "done", receipt |-> j]]
    BY <1>3 DEF Insert
  <2>2. Cardinality(Inserted) + 1 \in Nat
    <3>1. IsFiniteSet(Inserted)
      BY JobsAssumption, FS_Subset DEF Inserted
    <3> QED BY <3>1, FS_CardinalityType
  <2>3. RowConsistent(j, fresh) /\ fresh.status = "pending"
    BY <2>2, InsertedRowConsistent
  <2> HIDE DEF fresh
  <2>5. /\ job'[j] = fresh /\ \A k \in Jobs \ {j} : job'[k] = job[k]
        /\ caller'[j] = [at |-> "done", receipt |-> j]
        /\ \A k \in Jobs \ {j} : caller'[k] = caller[k]
    BY <2>1 DEF TypeOK
  <2>6. Inserted' = Inserted \union {j}
    BY <2>3, <2>5 DEF Inserted
  <2>7. \A k \in Jobs : RowConsistent(k, job'[k])
    BY <2>3, <2>5 DEF IInv
  <2>8. \A k \in Jobs : TxConsistent(k)'
    BY <1>1, <1>2, <2>5 DEF IInv, TxConsistent
  <2>9. \A k \in Jobs : CallerConsistent(k)'
    BY <2>5, <2>6 DEF IInv, CallerConsistent
  <2>10. \A k, l \in Inserted' : Key[k] = Key[l] /\ Key[k] # None => k = l
    BY <1>3, <2>6 DEF IInv, SameKey
  <2> QED BY <2>7, <2>8, <2>9, <2>10 DEF IInv
<1>4. CASE SameKey(j) # {}
  <2>1. /\ job' = job
        /\ caller' = [caller EXCEPT ![j] =
              [at |-> "done", receipt |-> CHOOSE k \in SameKey(j) : TRUE]]
    BY <1>4 DEF Insert
  <2>2. Inserted' = Inserted
    BY <2>1 DEF Inserted
  <2>3. PICK k \in SameKey(j) : caller'[j] = [at |-> "done", receipt |-> k]
    BY <1>4, <2>1 DEF TypeOK
  <2>4. k \in Inserted /\ Key[k] = Key[j]
    BY DEF SameKey
  <2>5. \A l \in Jobs \ {j} : caller'[l] = caller[l]
    BY <2>1 DEF TypeOK
  <2>6. \A l \in Jobs : CallerConsistent(l)'
    <3> SUFFICES ASSUME NEW l \in Jobs PROVE CallerConsistent(l)'
      OBVIOUS
    <3>1. CASE l = j
      BY <2>2, <2>3, <2>4, <3>1 DEF CallerConsistent
    <3>2. CASE l # j
      BY <2>1, <2>2, <2>5, <3>2 DEF IInv, CallerConsistent
    <3> QED BY <3>1, <3>2
  <2> QED BY <1>1, <2>1, <2>2, <2>6 DEF IInv, TxConsistent
<1> QED
  BY <1>3, <1>4

\* Every step of the queue keeps the invariant.
LEMMA StepConsistent ==
    ASSUME TypeOK, IInv, [Next]_vars
    PROVE  IInv'
<1>1. CASE Tick
  BY <1>1, TickConsistent
<1>2. ASSUME NEW j \in Jobs, JobStep(j) PROVE IInv'
  <2> DEFINE row == job[j]
  <2>0. row \in Row /\ RowConsistent(j, row)
    BY DEF TypeOK, IInv
  <2>1. CASE FindIdempotent(j)
    BY <2>1, FindConsistent
  <2>2. ASSUME NEW delay \in Delays, Insert(j, delay) PROVE IInv'
    BY <2>2, InsertConsistent
  <2>3. ASSUME NEW w \in Workers, NEW d \in Drift, Claim(w, j, d) PROVE IInv'
    <3> DEFINE version == ClaimedRow(row, w, d)
    <3>1. /\ row.status \in Queued \union {"running"}
          /\ row.attempt_count < MaxAttempts[j]
          /\ row.status = "running" => row.lease_expires_at < -d
      BY <2>0, <2>3 DEF Claim, Claimable, Before, RowConsistent, StatusConsistent, Queued
    <3>2. /\ RowConsistent(j, version) /\ version \in Row
          /\ version.status = "running"
      BY <2>0, <3>1, ClaimedRowConsistent
    <3>4. row.status = "running" => row.lease_expires_at < Skew
      <4>1. row.status = "running" => row.lease_expires_at \in Int
        BY <2>0 DEF Row, RowConsistent, ClaimConsistent, Timer
      <4> QED BY <3>1, <4>1, SkewAssumption DEF Drift
    <3>5. Lock(j, version)
      BY <2>3 DEF Claim
    <3> HIDE DEF version
    <3> QED BY <3>1, <3>2, <3>4, <3>5, LockConsistent
  <2>4. ASSUME NEW n \in DOMAIN row.ledger, UseEnvelope(j, n) PROVE IInv'
    <3> DEFINE w == row.ledger[n].worker_id
               token == row.ledger[n].fencing_token
    <3>0. n \in 1..Len(row.ledger) /\ 0 \in Nat
      BY <2>0 DEF Row
    <3>1. ASSUME NEW d \in Drift, Heartbeat(w, j, token, d) PROVE IInv'
      BY <3>1, HeartbeatConsistent
    <3>2. ASSUME NEW d \in Drift, NEW value \in {n, None},
                 Complete(w, j, n, token, value, d)
          PROVE  IInv'
      BY <3>0, <3>2, FinalizeClaimConsistent DEF Complete, Requested
    <3>3. ASSUME NEW d \in Drift, CancelClaim(w, j, n, token, d) PROVE IInv'
      BY <3>0, <3>3, FinalizeClaimConsistent DEF CancelClaim, Requested
    <3>4. ASSUME NEW d \in Drift, NEW retryable \in BOOLEAN, NEW delay \in Delays,
                 NEW d0 \in Drift, Fail(w, j, n, token, retryable, delay, d0, d)
          PROVE IInv'
      <4>1. delay \in Nat
        BY DelaysAssumption
      <4>2. CASE CanRetry(j, n, retryable, d0)
        <5>1. n < MaxAttempts[j]
          BY <4>2 DEF CanRetry
        <5> QED BY <3>0, <3>4, <4>1, <4>2, <5>1, FinalizeClaimConsistent
                DEF Fail, Requested
      <4>3. CASE ~CanRetry(j, n, retryable, d0)
        BY <3>0, <3>4, <4>1, <4>3, FinalizeClaimConsistent DEF Fail, Requested
      <4> QED BY <4>2, <4>3
    <3> QED BY <2>4, <3>1, <3>2, <3>3, <3>4 DEF UseEnvelope
  <2>5. CASE RequestCancel(j)
    <3> DEFINE version == CancelledRow(row)
    <3>1. row.status \in Queued \union {"running"} /\ Lock(j, version)
      BY <2>5 DEF RequestCancel
    <3>2. /\ version \in Row /\ version.status \in {"running", "cancelled"}
          /\ version.fencing_token = row.fencing_token
      BY <2>0, CancelledRowFields
    <3>3. RowConsistent(j, version)
      BY <2>0, <3>1, CancelledRowConsistent
    <3> HIDE DEF version
    <3> QED BY <3>1, <3>2, <3>3, LockConsistent
  <2>6. ASSUME NEW d \in Drift, RecoverExpired(j, d) PROVE IInv'
    <3> DEFINE version == RecoveredRow(row)
    <3>1. row.status = "running" /\ Lock(j, version)
      BY <2>6 DEF RecoverExpired, Unrecoverable
    <3>2. /\ RowConsistent(j, version) /\ version \in Row
          /\ version.status # "absent" /\ version.fencing_token = None
      BY <2>0, <3>1, RecoveredRowConsistent
    <3> HIDE DEF version
    <3> QED BY <3>1, <3>2, LockConsistent
  <2>7. CASE Commit(j)
    BY <2>7, CommitConsistent
  <2>8. CASE Rollback(j)
    BY <2>8, RollbackConsistent
  <2> QED
    BY <1>2, <2>1, <2>2, <2>3, <2>4, <2>5, <2>6, <2>7, <2>8 DEF JobStep
<1>3. CASE UNCHANGED vars
  <2>1. job' = job /\ tx' = tx /\ caller' = caller
    BY <1>3 DEF vars
  <2>2. Inserted' = Inserted
    BY <2>1 DEF Inserted
  <2> QED BY <2>1, <2>2 DEF IInv, TxConsistent, CallerConsistent
<1> QED
  BY <1>1, <1>2, <1>3 DEF Next

\* The inductive invariant holds of the initial state.
LEMMA InitConsistent == Init => IInv
<1> SUFFICES ASSUME Init PROVE IInv
  OBVIOUS
<1>1. \A j \in Jobs : job[j] = AbsentRow /\ tx[j] = None
      /\ caller[j] = [at |-> "start", receipt |-> None]
  BY DEF Init
<1>2. /\ AbsentRow.status = "absent" /\ AbsentRow.attempt_count = 0
      /\ AbsentRow.lease_generation = 0 /\ AbsentRow.fencing_token = None
      /\ AbsentRow.cancellation_requested = FALSE /\ AbsentRow.result = None
      /\ AbsentRow.ledger = <<>> /\ AbsentRow.events = <<>>
  BY DEF AbsentRow
<1>3. Inserted = {}
  BY <1>1, <1>2 DEF Inserted
<1>4. \A j \in Jobs : RowConsistent(j, AbsentRow)
  <2>1. \A j \in Jobs : MaxAttempts[j] \in Nat
    BY MaxAttemptsAssumption
  <2> QED BY <1>2, <2>1 DEF RowConsistent, ClaimConsistent, StatusConsistent,
                            EventsConsistent, Queued
<1>5. \A j \in Jobs : TxConsistent(j) /\ CallerConsistent(j)
  BY <1>1, <1>2 DEF TxConsistent, CallerConsistent
<1> QED
  BY <1>1, <1>3, <1>4, <1>5 DEF IInv

\* The counters, the ledger, the events, the open transaction and the submitter
\* of every job stay consistent with its row, whoever calls what and when.
THEOREM QueueConsistent == Spec => []IInv
<1>1. TypeOK /\ IInv /\ [Next]_vars => IInv'
  BY StepConsistent
<1> QED
  BY <1>1, InitConsistent, TypeCorrect, PTL DEF Spec

-----------------------------------------------------------------------------
(* What the invariant implies *)

\* claim_next, fail and recover_expired never start an attempt beyond the budget.
THEOREM AttemptsWithinBudget == Spec => []AttemptBudget
<1>1. IInv => AttemptBudget
  BY DEF IInv, RowConsistent, StatusConsistent, AttemptBudget
<1> QED
  BY <1>1, QueueConsistent, PTL

\* The row and the attempt ledger agree in every reachable state.
THEOREM LedgerAgreement == Spec => []LedgerAgrees
<1>1. TypeOK /\ IInv => LedgerAgrees
  <2> SUFFICES ASSUME TypeOK, IInv, NEW j \in Inserted
               PROVE  LET row == job[j]
                          last == Len(row.ledger)
                      IN  /\ last = row.attempt_count
                          /\ \A n \in 1..(last - 1) : row.ledger[n].status # "running"
                          /\ (last > 0 /\ row.ledger[last].status = "running")
                                <=> row.status = "running"
                          /\ row.status = "running" =>
                                /\ row.ledger[last].worker_id = row.claimed_by
                                /\ row.ledger[last].fencing_token = row.fencing_token
    BY DEF LedgerAgrees
  <2>1. ClaimConsistent(job[j]) /\ Len(job[j].ledger) \in Nat
    BY DEF IInv, RowConsistent, Inserted, TypeOK, Row
  <2> QED BY <2>1 DEF ClaimConsistent
<1> QED
  BY <1>1, QueueConsistent, TypeCorrect, PTL

\* Every outcome has exactly one event in the outbox.
THEOREM EventsExact == Spec => []OneEventPerOutcome
<1>1. TypeOK /\ IInv => OneEventPerOutcome
  <2> SUFFICES ASSUME TypeOK, IInv, NEW j \in Jobs
               PROVE  LET row == job[j]
                          finalized == {n \in DOMAIN row.ledger :
                                           row.ledger[n].status \in Terminal}
                          told == {row.events[i].attempt : i \in DOMAIN row.events}
                      IN  /\ \A i, k \in DOMAIN row.events :
                                row.events[i].attempt = row.events[k].attempt => i = k
                          /\ told \ {None} = finalized
                          /\ None \in told => row.status = "cancelled"
    BY DEF OneEventPerOutcome
  <2>1. /\ EventsConsistent(job[j])
        /\ DOMAIN job[j].ledger = 1..Len(job[j].ledger) /\ Len(job[j].ledger) \in Nat
        /\ DOMAIN job[j].events = 1..Len(job[j].events)
    BY DEF IInv, RowConsistent, TypeOK, Row
  <2>2. \A n \in 1..Len(job[j].ledger) : n # None
    BY <2>1, TimersAssumption
  <2> DEFINE row == job[j]
             finalized == {n \in 1..Len(row.ledger) : row.ledger[n].status \in Terminal}
             told == {row.events[i].attempt : i \in 1..Len(row.events)}
  <2>3. ASSUME NEW a \in told, a # None PROVE a \in finalized
    BY <2>1, <2>3 DEF EventsConsistent
  <2>4. ASSUME NEW n \in finalized PROVE n \in told /\ n # None
    BY <2>1, <2>2, <2>4 DEF EventsConsistent
  <2>5. told \ {None} = finalized
    BY <2>3, <2>4
  <2>6. None \in told => row.status = "cancelled"
    BY <2>1 DEF EventsConsistent
  <2>7. \A i, k \in 1..Len(row.events) :
           row.events[i].attempt = row.events[k].attempt => i = k
    BY <2>1 DEF EventsConsistent
  <2> QED BY <2>1, <2>5, <2>6, <2>7
<1> QED
  BY <1>1, QueueConsistent, TypeCorrect, PTL

\* An acknowledged cancellation is never overridden.
THEOREM CancellationFinal == Spec => []CancellationSticks
<1>1. IInv => CancellationSticks
  BY DEF IInv, RowConsistent, StatusConsistent, CancellationSticks
<1> QED
  BY <1>1, QueueConsistent, PTL

\* A stored result is that of the last attempt.
THEOREM ResultSound == Spec => []ResultOfLastAttempt
<1>1. IInv => ResultOfLastAttempt
  BY DEF IInv, RowConsistent, StatusConsistent, ResultOfLastAttempt
<1> QED
  BY <1>1, QueueConsistent, PTL

\* Submission is idempotent, whatever the order of look-ups and inserts.
THEOREM SubmissionIdempotent == Spec => []IdempotentSubmission
<1>1. IInv => IdempotentSubmission
  BY DEF IInv, CallerConsistent, IdempotentSubmission
<1> QED
  BY <1>1, QueueConsistent, PTL

\* Finished jobs do not change.
THEOREM OutcomeFinal == Spec => TerminalFrozen
<1>1. ASSUME TypeOK, IInv, [Next]_vars, NEW j \in Jobs, job[j].status \in Terminal
      PROVE  /\ job'[j].status = job[j].status
             /\ job'[j].result = job[j].result
             /\ job'[j].ledger = job[j].ledger
             /\ job'[j].events = job[j].events
  <2>1. tx[j] = None
    BY <1>1 DEF IInv, TxConsistent, Terminal, Queued
  <2>2. CASE Tick
    <3>1. job[j] \in Row /\ job'[j] \in {job[j], Aged(job[j])}
      BY <1>1, <2>2 DEF Tick, TypeOK
    <3> QED BY <3>1, AgedFields
  <2>3. ASSUME NEW k \in Jobs, JobStep(k) PROVE job'[j] = job[j]
    <3>1. CASE UNCHANGED job
      BY <3>1
    <3>2. ASSUME NEW delay \in Delays, Insert(k, delay) PROVE job'[j] = job[j]
      <4>1. job[k].status = "absent"
        BY <1>1, <3>2 DEF Insert, IInv, CallerConsistent
      <4>2. j # k
        BY <1>1, <4>1 DEF Terminal
      <4> QED BY <1>1, <3>2, <4>2 DEF Insert, TypeOK
    <3>3. CASE Commit(k)
      BY <1>1, <2>1, <3>3 DEF Commit, TypeOK
    <3>4. ASSUME NEW w, NEW token, NEW d, Heartbeat(w, k, token, d)
          PROVE job'[j] = job[j]
      <4>1. j # k
        BY <1>1, <3>4 DEF Heartbeat, OwnsLiveClaim, Terminal
      <4> QED BY <1>1, <3>4, <4>1 DEF Heartbeat, TypeOK
    <3> QED BY <2>3, <3>1, <3>2, <3>3, <3>4 DEF JobStep, UseEnvelope, FindIdempotent,
              Claim, Complete, CancelClaim, Fail, FinalizeClaim, RequestCancel,
              RecoverExpired, Lock, Rollback
  <2>4. CASE UNCHANGED vars
    BY <2>4 DEF vars
  <2> QED BY <1>1, <2>2, <2>3, <2>4 DEF Next
<1>2. TypeOK /\ IInv /\ [Next]_vars =>
        [\A j \in Jobs : job[j].status \in Terminal =>
            /\ job'[j].status = job[j].status
            /\ job'[j].result = job[j].result
            /\ job'[j].ledger = job[j].ledger
            /\ job'[j].events = job[j].events]_vars
  BY <1>1
<1> QED
  BY <1>2, QueueConsistent, TypeCorrect, PTL DEF Spec, TerminalFrozen

\* A live claim is not handed over.
THEOREM LiveClaimKept == Spec => LiveClaimRespected
<1>1. ASSUME TypeOK, IInv, [Next]_vars, NEW j \in Jobs, job[j].status = "running",
             job[j].lease_expires_at >= Skew,
             job'[j].fencing_token # job[j].fencing_token
      PROVE  job'[j].fencing_token = None
  <2>1. CASE Tick
    <3>1. job[j] \in Row /\ job'[j] \in {job[j], Aged(job[j])}
      BY <1>1, <2>1 DEF Tick, TypeOK
    <3> QED BY <1>1, <3>1, AgedFields
  <2>2. ASSUME NEW k \in Jobs, JobStep(k)
        PROVE job'[j] = job[j] \/ job'[j].fencing_token \in {None, job[j].fencing_token}
    <3>1. CASE UNCHANGED job
      BY <3>1
    <3>2. ASSUME NEW delay \in Delays, Insert(k, delay) PROVE job'[j] = job[j]
      <4>1. job[k].status = "absent"
        BY <1>1, <3>2 DEF Insert, IInv, CallerConsistent
      <4> QED BY <1>1, <3>2, <4>1 DEF Insert, TypeOK
    <3>3. CASE Commit(k)
      <4>1. CASE j # k
        BY <1>1, <3>3, <4>1 DEF Commit, TypeOK
      <4>2. CASE j = k
        <5>1. tx[j] # None /\ job'[j] = tx[j]
          BY <1>1, <3>3, <4>2 DEF Commit, TypeOK
        <5>2. job[j].lease_expires_at \in Int
          BY <1>1 DEF TypeOK, Row, Timer, IInv, RowConsistent, ClaimConsistent
        <5>3. ~(job[j].lease_expires_at < Skew)
          BY <1>1, <5>2, SkewAssumption
        <5> QED BY <1>1, <5>1, <5>3 DEF IInv, TxConsistent
      <4> QED BY <4>1, <4>2
    <3>4. ASSUME NEW w, NEW token, NEW d \in Drift, Heartbeat(w, k, token, d)
          PROVE job'[j] = job[j] \/ job'[j].fencing_token = job[j].fencing_token
      <4>1. CASE j # k
        BY <1>1, <3>4, <4>1 DEF Heartbeat, TypeOK
      <4>2. CASE j = k
        <5>1. job[j] \in Row /\ job'[j] = [job[j] EXCEPT !.lease_expires_at = LeaseLen - d]
          BY <1>1, <3>4, <4>2 DEF Heartbeat, TypeOK
        <5> QED BY <5>1, HeartbeatRowFields, TimerRange
      <4> QED BY <4>1, <4>2
    <3> QED BY <2>2, <3>1, <3>2, <3>3, <3>4 DEF JobStep, UseEnvelope, FindIdempotent,
              Claim, Complete, CancelClaim, Fail, FinalizeClaim, RequestCancel,
              RecoverExpired, Lock, Rollback
  <2>3. CASE UNCHANGED vars
    BY <1>1, <2>3 DEF vars
  <2> QED BY <1>1, <2>1, <2>2, <2>3 DEF Next
<1>2. TypeOK /\ IInv /\ [Next]_vars =>
        [\A j \in Jobs :
            /\ job[j].status = "running"
            /\ job[j].lease_expires_at >= Skew
            /\ job'[j].fencing_token # job[j].fencing_token
            => job'[j].fencing_token = None]_vars
  BY <1>1
<1> QED
  BY <1>2, QueueConsistent, TypeCorrect, PTL DEF Spec, LiveClaimRespected

-----------------------------------------------------------------------------
(* The queue implements JobLifecycle *)

\* What the commit of a new version of a row means to those who submit jobs.
Move(j, old, new) ==
    \/ \* claim_next: a start or a restart
       /\ old.status \in Queued \union {"running"} /\ new.status = "running"
       /\ old.attempt_count < MaxAttempts[j] /\ new.attempt_count = old.attempt_count + 1
       /\ new.cancellation_requested = old.cancellation_requested
       /\ Len(new.events) = Len(old.events)
    \/ \* fail: a retry
       /\ old.status = "running" /\ new.status = "retry_wait"
       /\ old.attempt_count < MaxAttempts[j] /\ new.attempt_count = old.attempt_count
       /\ ~old.cancellation_requested
       /\ new.cancellation_requested = old.cancellation_requested
       /\ Len(new.events) = Len(old.events) + 1
    \/ \* complete, fail, cancel and recover_expired: the end of a running job
       /\ old.status = "running" /\ new.status \in Terminal
       /\ new.attempt_count = old.attempt_count
       /\ old.cancellation_requested => new.status = "cancelled"
       /\ new.cancellation_requested = old.cancellation_requested
       /\ Len(new.events) = Len(old.events) + 1
    \/ \* request_cancel of a running job
       /\ old.status = "running" /\ new.status = "running"
       /\ new.attempt_count = old.attempt_count
       /\ new.cancellation_requested = TRUE
       /\ Len(new.events) = Len(old.events)
    \/ \* request_cancel of a queued job
       /\ old.status \in Queued /\ new.status = "cancelled"
       /\ new.attempt_count = old.attempt_count
       /\ new.cancellation_requested = TRUE
       /\ Len(new.events) = Len(old.events) + 1

\* Every open transaction is about to make such a move: its lock keeps the row what
\* it was when the new version was computed.
Moves == \A j \in Jobs : tx[j] # None => Move(j, job[j], tx[j])

\* An event with a key of its own makes the stream longer by one.
LEMMA NewEvent ==
    ASSUME NEW row \in Row, NEW event \in Event,
           \A i \in 1..Len(row.events) : row.events[i].attempt # event.attempt
    PROVE  Len(RecordNext(row.events, event)) = Len(row.events) + 1
<1>1. row.events \in Seq(Event)
  BY DEF Row
<1>2. \A i \in DOMAIN row.events : row.events[i] # event
  BY <1>1
<1> QED
  BY <1>1, <1>2 DEF RecordNext

\* Nothing has been announced about the attempt that runs.
LEMMA RunningUnannounced ==
    ASSUME NEW j \in Jobs, NEW row \in Row, RowConsistent(j, row), row.status = "running"
    PROVE  \A i \in 1..Len(row.events) : row.events[i].attempt # Len(row.ledger)
<1>0. Len(row.ledger) \in Nat
  BY DEF Row
<1>1. Len(row.ledger) \in Nat /\ Len(row.ledger) # None
  BY <1>0, TimersAssumption
<1>2. Len(row.ledger) > 0 /\ row.ledger[Len(row.ledger)].status = "running"
  BY <1>1 DEF RowConsistent, ClaimConsistent
<1> QED
  BY <1>1, <1>2 DEF RowConsistent, EventsConsistent, Terminal

\* claim_next computes a move.
LEMMA ClaimMoves ==
    ASSUME NEW j \in Jobs, NEW row \in Row, row.status \in Queued \union {"running"},
           row.attempt_count < MaxAttempts[j], NEW w \in Workers, NEW d \in Drift
    PROVE  Move(j, row, ClaimedRow(row, w, d))
<1>1. PICK r : r = ClaimedRow(row, w, d)
  OBVIOUS
<1>2. /\ r.status = "running"
      /\ r.attempt_count = row.attempt_count + 1
      /\ r.cancellation_requested = row.cancellation_requested
      /\ r.events = row.events
      /\ r.ledger = Append(CloseAttempt(row.ledger, row.fencing_token, "abandoned"),
                           [worker_id |-> w,
                            fencing_token |-> row.lease_generation + 1,
                            status |-> "running"])
  BY <1>1, ClaimedRowFields
<1>3. Move(j, row, r)
  BY <1>2 DEF Move
<1> QED
  BY <1>1, <1>3

\* _finalize_claim computes a move.
LEMMA FinalizeMoves ==
    ASSUME NEW j \in Jobs, NEW row \in Row, RowConsistent(j, row), row.status = "running",
           NEW requested \in Requested, NEW retryAt \in Timer,
           requested = "retry_wait" => Len(row.ledger) < MaxAttempts[j],
           NEW value \in {Len(row.ledger), None}
    PROVE  Move(j, row, FinalizedRow(row, Len(row.ledger), requested, value, retryAt))
<1> DEFINE n == Len(row.ledger)
           r == FinalizedRow(row, n, requested, value, retryAt)
           event == [type |-> Final(row, requested), attempt |-> n]
<1>1. n \in Nat /\ row.attempt_count = n
  BY DEF Row, RowConsistent, ClaimConsistent
<1>2. event \in Event
  BY <1>1 DEF Event, Final, Requested, Terminal
<1>3. /\ r.status = Final(row, requested) /\ r.attempt_count = row.attempt_count
      /\ r.cancellation_requested = row.cancellation_requested
      /\ r.events = RecordNext(row.events, event)
  <2> HIDE DEF n
  <2> QED BY <1>1, FinalizedRowFields DEF n
<1>4. Len(r.events) = Len(row.events) + 1
  <2>1. \A i \in 1..Len(row.events) : row.events[i].attempt # event.attempt
    BY RunningUnannounced
  <2> QED BY <1>2, <1>3, <2>1, NewEvent
<1> HIDE DEF r, event
<1>5. Move(j, row, r)
  BY <1>1, <1>3, <1>4 DEF Move, Final, Requested, Terminal
<1> QED
  BY <1>5 DEF r

\* recover_expired computes a move.
LEMMA RecoverMoves ==
    ASSUME NEW j \in Jobs, NEW row \in Row, RowConsistent(j, row), row.status = "running"
    PROVE  Move(j, row, RecoveredRow(row))
<1> DEFINE r == RecoveredRow(row)
           event == [type |-> Recovered(row), attempt |-> row.attempt_count]
<1>1. row.attempt_count \in Nat /\ row.attempt_count = Len(row.ledger)
  BY DEF Row, RowConsistent, ClaimConsistent
<1>2. event \in Event
  BY <1>1 DEF Event, Recovered, Terminal
<1>3. /\ r.status = Recovered(row) /\ r.attempt_count = row.attempt_count
      /\ r.cancellation_requested = row.cancellation_requested
      /\ r.events = RecordNext(row.events, event)
  BY RecoveredRowFields
<1>4. Len(r.events) = Len(row.events) + 1
  <2>1. \A i \in 1..Len(row.events) : row.events[i].attempt # event.attempt
    BY <1>1, RunningUnannounced
  <2> QED BY <1>2, <1>3, <2>1, NewEvent
<1> HIDE DEF r, event
<1>5. Move(j, row, r)
  BY <1>3, <1>4 DEF Move, Recovered, Terminal
<1> QED
  BY <1>5 DEF r

\* request_cancel computes a move.
LEMMA CancelMoves ==
    ASSUME NEW j \in Jobs, NEW row \in Row, RowConsistent(j, row),
           row.status \in Queued \union {"running"}
    PROVE  Move(j, row, CancelledRow(row))
<1> DEFINE r == CancelledRow(row)
           event == [type |-> "cancelled", attempt |-> None]
<1>1. /\ r.status = IF row.status = "running" THEN "running" ELSE "cancelled"
      /\ r.attempt_count = row.attempt_count /\ r.cancellation_requested = TRUE
      /\ r.events = IF row.status = "running" THEN row.events
                    ELSE RecordNext(row.events, event)
  BY CancelledRowFields
<1>2. Len(RecordNext(row.events, event)) = Len(row.events) + 1
  <2>1. event \in Event
    BY DEF Event, Terminal
  <2>2. \A i \in 1..Len(row.events) : row.events[i].attempt # event.attempt
    BY LiveRow
  <2> QED BY <2>1, <2>2, NewEvent
<1> HIDE DEF r, event
<1>3. Move(j, row, r)
  BY <1>1, <1>2 DEF Move, Queued
<1> QED
  BY <1>3 DEF r

\* The fields a move speaks of.
SameView(old, new) ==
    /\ new.status = old.status /\ new.attempt_count = old.attempt_count
    /\ new.cancellation_requested = old.cancellation_requested
    /\ new.events = old.events

\* Every transaction that is opened is about to make a move.
LEMMA LockMoves ==
    ASSUME TypeOK, IInv, Moves, NEW j \in Jobs, NEW version, Lock(j, version),
           Move(j, job[j], version)
    PROVE  Moves'
  BY DEF Lock, Moves, TypeOK

\* The step of the holder of an envelope, as far as moves are concerned.
LEMMA EnvelopeMoves ==
    ASSUME TypeOK, IInv, Moves, NEW j \in Jobs, NEW n \in 1..Len(job[j].ledger), NEW w,
           NEW requested \in Requested, NEW delay \in Nat, NEW d \in Drift,
           requested = "retry_wait" => n < MaxAttempts[j], NEW value \in {n, None},
           FinalizeClaim(w, j, n, job[j].ledger[n].fencing_token, requested, value, delay, d)
    PROVE  Moves'
<1>1. job[j] \in Row /\ RowConsistent(j, job[j])
  BY DEF TypeOK, IInv
<1>2. n = Len(job[j].ledger) /\ job[j].status = "running"
  BY EnvelopeCurrent DEF FinalizeClaim
<1>3. delay - d \in Timer
  BY SkewAssumption DEF Drift, Timer, Floor
<1>4. Move(j, job[j], FinalizedRow(job[j], n, requested, value, delay - d))
  BY <1>1, <1>2, <1>3, FinalizeMoves
<1> QED
  BY <1>4, LockMoves DEF FinalizeClaim

\* Open transactions stay about to make their moves.
LEMMA MovesStep ==
    ASSUME TypeOK, IInv, Moves, [Next]_vars
    PROVE  Moves'
<1>1. ASSUME NEW j \in Jobs PROVE job[j] \in Row /\ RowConsistent(j, job[j])
  BY DEF TypeOK, IInv
<1>2. CASE Tick
  <2> SUFFICES ASSUME NEW j \in Jobs, tx'[j] # None PROVE Move(j, job'[j], tx'[j])
    BY DEF Moves
  <2>1. tx[j] # None /\ tx[j] \in Row /\ tx'[j] = Aged(tx[j])
    BY <1>2 DEF Tick, TypeOK
  <2>2. job'[j] \in {job[j], Aged(job[j])}
    BY <1>2 DEF Tick
  <2>3. SameView(job[j], job'[j]) /\ SameView(tx[j], tx'[j])
    BY <1>1, <2>1, <2>2, AgedFields DEF SameView
  <2>4. Move(j, job[j], tx[j])
    BY <2>1 DEF Moves
  <2> QED
    BY <2>3, <2>4 DEF Move, SameView
<1>3. ASSUME NEW j \in Jobs, JobStep(j) PROVE Moves'
  <2> DEFINE row == job[j]
  <2>1. CASE FindIdempotent(j)
    BY <2>1 DEF FindIdempotent, Moves
  <2>2. ASSUME NEW delay \in Delays, Insert(j, delay) PROVE Moves'
    <3>1. tx' = tx /\ \A k \in Jobs \ {j} : job'[k] = job[k]
      BY <2>2 DEF Insert, TypeOK
    <3>2. job[j].status = "absent"
      BY <2>2 DEF Insert, IInv, CallerConsistent
    <3>3. tx[j] = None
      BY <3>2 DEF IInv, TxConsistent, Queued
    <3> QED
      BY <3>1, <3>3 DEF Moves
  <2>3. ASSUME NEW w \in Workers, NEW d \in Drift, Claim(w, j, d) PROVE Moves'
    <3>1. /\ row.status \in Queued \union {"running"}
          /\ row.attempt_count < MaxAttempts[j]
      BY <1>1, <2>3 DEF Claim, Claimable, RowConsistent, StatusConsistent, Queued
    <3>2. Move(j, job[j], ClaimedRow(job[j], w, d))
      BY <1>1, <3>1, ClaimMoves
    <3> QED
      BY <2>3, <3>2, LockMoves DEF Claim
  <2>4. ASSUME NEW n \in DOMAIN row.ledger, UseEnvelope(j, n) PROVE Moves'
    <3> DEFINE w == row.ledger[n].worker_id
               token == row.ledger[n].fencing_token
    <3>0. n \in 1..Len(row.ledger) /\ 0 \in Nat
      BY <1>1 DEF Row
    <3>1. ASSUME NEW d \in Drift, Heartbeat(w, j, token, d) PROVE Moves'
      BY <3>1 DEF Heartbeat, Unlocked, Moves, TypeOK
    <3>2. ASSUME NEW d \in Drift, NEW value \in {n, None},
                 Complete(w, j, n, token, value, d)
          PROVE  Moves'
      BY <3>0, <3>2, EnvelopeMoves DEF Complete, Requested
    <3>3. ASSUME NEW d \in Drift, CancelClaim(w, j, n, token, d) PROVE Moves'
      BY <3>0, <3>3, EnvelopeMoves DEF CancelClaim, Requested
    <3>4. ASSUME NEW d \in Drift, NEW retryable \in BOOLEAN, NEW delay \in Delays,
                 NEW d0 \in Drift, Fail(w, j, n, token, retryable, delay, d0, d)
          PROVE  Moves'
      <4>1. delay \in Nat
        BY DelaysAssumption
      <4>2. CASE CanRetry(j, n, retryable, d0)
        <5>1. n < MaxAttempts[j]
          BY <4>2 DEF CanRetry
        <5> QED BY <3>0, <3>4, <4>1, <4>2, <5>1, EnvelopeMoves DEF Fail, Requested
      <4>3. CASE ~CanRetry(j, n, retryable, d0)
        BY <3>0, <3>4, <4>1, <4>3, EnvelopeMoves DEF Fail, Requested
      <4> QED BY <4>2, <4>3
    <3> QED BY <2>4, <3>1, <3>2, <3>3, <3>4 DEF UseEnvelope
  <2>5. CASE RequestCancel(j)
    BY <1>1, <2>5, CancelMoves, LockMoves DEF RequestCancel
  <2>6. ASSUME NEW d \in Drift, RecoverExpired(j, d) PROVE Moves'
    BY <1>1, <2>6, RecoverMoves, LockMoves DEF RecoverExpired, Unrecoverable
  <2>7. CASE Commit(j) \/ Rollback(j)
    BY <2>7 DEF Commit, Rollback, Moves, TypeOK
  <2> QED
    BY <1>3, <2>1, <2>2, <2>3, <2>4, <2>5, <2>6, <2>7 DEF JobStep
<1>4. CASE UNCHANGED vars
  BY <1>4 DEF vars, Moves
<1> QED
  BY <1>2, <1>3, <1>4 DEF Next

\* A commit is a step of the lifecycle.
LEMMA CommitIsStep ==
    ASSUME TypeOK, IInv, Moves, NEW j \in Jobs, Commit(j)
    PROVE  Lifecycle!LNext
<1>1. /\ tx[j] # None /\ tx[j] \in Row /\ job \in [Jobs -> Row]
      /\ job' = [job EXCEPT ![j] = tx[j]]
  BY DEF Commit, TypeOK
<1>2. Move(j, job[j], tx[j])
  BY <1>1 DEF Moves
<1>3. job'[j] = tx[j] /\ \A k \in Jobs \ {j} : job'[k] = job[k]
  BY <1>1
<1> USE DEF Phase, Queued, Terminal
<1>4. CASE /\ job[j].status \in Queued \union {"running"} /\ tx[j].status = "running"
           /\ job[j].attempt_count < MaxAttempts[j]
           /\ tx[j].attempt_count = job[j].attempt_count + 1
           /\ tx[j].cancellation_requested = job[j].cancellation_requested
           /\ Len(tx[j].events) = Len(job[j].events)
  <2>1. Lifecycle!Start(j)
    BY <1>3, <1>4 DEF Lifecycle!Start, Lifecycle!Enter
  <2> QED BY <2>1 DEF Lifecycle!LNext
<1>5. CASE /\ job[j].status = "running" /\ tx[j].status = "retry_wait"
           /\ job[j].attempt_count < MaxAttempts[j]
           /\ tx[j].attempt_count = job[j].attempt_count
           /\ ~job[j].cancellation_requested
           /\ tx[j].cancellation_requested = job[j].cancellation_requested
           /\ Len(tx[j].events) = Len(job[j].events) + 1
  <2>1. Lifecycle!RetryLater(j)
    BY <1>3, <1>5 DEF Lifecycle!RetryLater, Lifecycle!Enter, Lifecycle!Announce
  <2> QED BY <2>1 DEF Lifecycle!LNext
<1>6. CASE /\ job[j].status = "running" /\ tx[j].status \in Terminal
           /\ tx[j].attempt_count = job[j].attempt_count
           /\ job[j].cancellation_requested => tx[j].status = "cancelled"
           /\ tx[j].cancellation_requested = job[j].cancellation_requested
           /\ Len(tx[j].events) = Len(job[j].events) + 1
  <2>1. PICK how \in {"succeeded", "failed", "cancelled"} : how = tx[j].status
    BY <1>6
  <2>2. Lifecycle!Finish(j, how)
    BY <1>3, <1>6, <2>1 DEF Lifecycle!Finish, Lifecycle!Enter, Lifecycle!Announce
  <2> QED BY <2>2 DEF Lifecycle!LNext
<1>7. CASE /\ job[j].status = "running" /\ tx[j].status = "running"
           /\ tx[j].attempt_count = job[j].attempt_count
           /\ tx[j].cancellation_requested = TRUE
           /\ Len(tx[j].events) = Len(job[j].events)
  <2>1. Lifecycle!AskCancel(j)
    BY <1>3, <1>7 DEF Lifecycle!AskCancel
  <2> QED BY <2>1 DEF Lifecycle!LNext
<1>8. CASE /\ job[j].status \in Queued /\ tx[j].status = "cancelled"
           /\ tx[j].attempt_count = job[j].attempt_count
           /\ tx[j].cancellation_requested = TRUE
           /\ Len(tx[j].events) = Len(job[j].events) + 1
  <2>1. Lifecycle!CancelWaiting(j)
    BY <1>3, <1>8 DEF Lifecycle!CancelWaiting, Lifecycle!Enter, Lifecycle!Announce
  <2> QED BY <2>1 DEF Lifecycle!LNext
<1> QED
  BY <1>2, <1>4, <1>5, <1>6, <1>7, <1>8 DEF Move

\* Every step of the queue is a step of the lifecycle, or changes nothing in its view.
LEMMA StepRefines ==
    ASSUME TypeOK, IInv, Moves, [Next]_vars
    PROVE  [Lifecycle!LNext]_Lifecycle!lifecycle
<1>0. job \in [Jobs -> Row]
  BY DEF TypeOK
<1>1. ASSUME \A j \in Jobs : SameView(job[j], job'[j]) PROVE UNCHANGED Lifecycle!lifecycle
  BY <1>1 DEF SameView, Lifecycle!lifecycle, Phase
<1>2. CASE Tick
  <2>1. \A j \in Jobs : job'[j] \in {job[j], Aged(job[j])}
    BY <1>2 DEF Tick
  <2>2. \A j \in Jobs : SameView(job[j], job'[j])
    BY <1>0, <2>1, AgedFields DEF SameView
  <2> QED
    BY <1>1, <2>2
<1>3. ASSUME NEW j \in Jobs, JobStep(j) PROVE [Lifecycle!LNext]_Lifecycle!lifecycle
  <2>1. CASE UNCHANGED job
    <3>1. \A k \in Jobs : SameView(job[k], job'[k])
      BY <2>1 DEF SameView
    <3> QED BY <1>1, <3>1
  <2>2. ASSUME NEW delay \in Delays, Insert(j, delay), job' # job PROVE Lifecycle!LNext
    <3>1. job[j].status = "absent" /\ RowConsistent(j, job[j])
      BY <2>2 DEF Insert, IInv, CallerConsistent
    <3>2. PICK r : /\ job' = [job EXCEPT ![j] = r]
                   /\ r = [AbsentRow EXCEPT !.status = "pending",
                                            !.position = Cardinality(Inserted) + 1,
                                            !.available_at = delay,
                                            !.deadline = Deadline[j]]
      BY <2>2, Zenon DEF Insert
    <3>3. /\ r.status = "pending" /\ r.attempt_count = 0 /\ r.cancellation_requested = FALSE
          /\ r.events = <<>>
      BY <3>2 DEF AbsentRow
    <3>4. /\ job[j].attempt_count = 0 /\ job[j].cancellation_requested = FALSE
          /\ Len(job[j].events) = 0
      BY <1>0, <3>1 DEF RowConsistent, ClaimConsistent, StatusConsistent, Row
    <3>5. job'[j] = r /\ \A k \in Jobs \ {j} : job'[k] = job[k]
      BY <1>0, <3>2
    <3>6. /\ r.cancellation_requested = job[j].cancellation_requested
          /\ r.attempt_count = job[j].attempt_count
          /\ Len(r.events) = Len(job[j].events)
      BY <3>3, <3>4
    <3>7. Lifecycle!Submit(j)
      BY <3>1, <3>3, <3>5, <3>6 DEF Lifecycle!Submit, Lifecycle!Enter, Phase, Queued, Terminal
    <3> QED
      BY <3>7 DEF Lifecycle!LNext
  <2>3. CASE Commit(j)
    BY <2>3, CommitIsStep
  <2>4. ASSUME NEW w, NEW token, NEW d \in Drift, Heartbeat(w, j, token, d)
        PROVE  UNCHANGED Lifecycle!lifecycle
    <3>1. /\ job'[j] = [job[j] EXCEPT !.lease_expires_at = LeaseLen - d]
          /\ \A k \in Jobs \ {j} : job'[k] = job[k]
      BY <1>0, <2>4 DEF Heartbeat
    <3>2. SameView(job[j], job'[j])
      BY <1>0, <3>1, HeartbeatRowFields, TimerRange DEF SameView
    <3>3. \A k \in Jobs : SameView(job[k], job'[k])
      BY <3>1, <3>2 DEF SameView
    <3> QED BY <1>1, <3>3
  <2> QED
    BY <1>3, <2>1, <2>2, <2>3, <2>4
       DEF JobStep, UseEnvelope, FindIdempotent, Claim, Complete, CancelClaim, Fail,
           FinalizeClaim, RequestCancel, RecoverExpired, Lock, Rollback
<1>4. CASE UNCHANGED vars
  <2>1. \A k \in Jobs : SameView(job[k], job'[k])
    BY <1>4 DEF SameView, vars
  <2> QED BY <1>1, <2>1
<1> QED
  BY <1>2, <1>3, <1>4 DEF Next

\* The queue implements JobLifecycle: at most max_attempts starts, one end, cancelled if
\* its cancellation was accepted in time, and one event for every retry and every end,
\* for every interleaving of the transactions of claim_next, heartbeat,
\* _finalize_claim, request_cancel and recover_expired.
THEOREM PromiseKept == Spec => KeepsPromise
<1>1. Init => Lifecycle!LInit /\ Moves
  <2> SUFFICES ASSUME Init PROVE Lifecycle!LInit /\ Moves
    OBVIOUS
  <2>1. \A j \in Jobs : job[j] = AbsentRow /\ tx[j] = None
    BY DEF Init
  <2>2. /\ AbsentRow.status = "absent" /\ AbsentRow.attempt_count = 0
        /\ AbsentRow.cancellation_requested = FALSE /\ Len(AbsentRow.events) = 0
    BY DEF AbsentRow
  <2>3. \A j \in Jobs : Phase(job[j]) = "new" /\ job[j].status \notin Terminal
    BY <2>1, <2>2 DEF Phase, Terminal
  <2>4. Lifecycle!LInit
    BY <2>1, <2>2, <2>3 DEF Lifecycle!LInit
  <2> QED
    BY <2>1, <2>4 DEF Moves
<1>2. TypeOK /\ IInv /\ Moves /\ [Next]_vars => Moves'
  BY MovesStep
<1>3. TypeOK /\ IInv /\ Moves /\ [Next]_vars => [Lifecycle!LNext]_Lifecycle!lifecycle
  BY StepRefines
<1> QED
  BY <1>1, <1>2, <1>3, QueueConsistent, TypeCorrect, PTL DEF Spec, KeepsPromise, Lifecycle!LSpec
=============================================================================
