------------------------ MODULE WorkerRuntimeProofs ------------------------
(***************************************************************************)
(* Proofs about WorkerRuntime, for all sets of jobs and workers, all       *)
(* registries of handlers, budgets, delays, lease lengths, clock errors    *)
(* and bounds on faults.  The workers are shown to use the queue as its    *)
(* clients may, so the theorems of JobQueueProofs hold of the runtime; the *)
(* invariant that shows it also ties every worker's memory to the rows.    *)
(***************************************************************************)
EXTENDS WorkerRuntime, JobQueueProofs

-----------------------------------------------------------------------------
(* The history of a row only grows *)

\* An event is in a stream, and all events of one stream are in another.
Tells(events, event) == \E k \in 1..Len(events) : events[k] = event
TellsAll(old, new) == \A i \in 1..Len(old) : Tells(new, old[i])

\* What is written about an attempt that has ended, and every event, stays.
Later(old, new) ==
    /\ Len(old.ledger) <= Len(new.ledger)
    /\ \A n \in 1..Len(old.ledger) :
          /\ new.ledger[n].worker_id = old.ledger[n].worker_id
          /\ new.ledger[n].fencing_token = old.ledger[n].fencing_token
          /\ old.ledger[n].status # "running" =>
                new.ledger[n].status = old.ledger[n].status
    /\ TellsAll(old.events, new.events)

\* An open transaction only adds to the history of its row.
Histories == \A j \in Jobs : tx[j] # None => Later(job[j], tx[j])

-----------------------------------------------------------------------------
(* The invariant of the workers *)

Ended == {"retry_wait"} \union Terminal

\* The row knows the claim that an envelope names.
Envelope(row, w, n, token) ==
    /\ n \in 1..Len(row.ledger)
    /\ row.ledger[n].worker_id = w
    /\ row.ledger[n].fencing_token = token

\* The row holds the outcome of attempt n.
Reported(row, w, status, n) ==
    /\ n \in 1..Len(row.ledger)
    /\ row.ledger[n].worker_id = w
    /\ row.ledger[n].status = (IF status = "retry_wait" THEN "failed" ELSE status)
    /\ Tells(row.events, [type |-> status, attempt |-> n])

\* A worker's memory agrees with the rows: with the version its transaction has
\* written, with the claim it holds, and with the outcome it has reported.
WorkerSound(w) ==
    /\ HoldsTx(w) => wk[w].on \in Jobs /\ tx[wk[w].on] # None
    /\ At(w, "claiming") =>
          tx[wk[w].on].status = "running" /\ tx[wk[w].on].claimed_by = w
    /\ HoldsClaim(w) =>
          wk[w].on \in Jobs /\ Envelope(job[wk[w].on], w, wk[w].attempt, wk[w].token)
    /\ At(w, "committing") =>
          /\ tx[wk[w].on].status \in Ended
          /\ Reported(tx[wk[w].on], w, tx[wk[w].on].status, wk[w].attempt)
    /\ report[w].status \in Ended =>
          /\ report[w].on \in Jobs
          /\ Reported(job[report[w].on], w, report[w].status, report[w].attempt)

\* A row has at most one worker in a transaction.
LocksExclusive ==
    \A v, w \in Workers : HoldsTx(v) /\ HoldsTx(w) /\ wk[v].on = wk[w].on => v = w

SameClaim(old, new) ==
    /\ old.status = "running" /\ new.status = "running"
    /\ new.claimed_by = old.claimed_by
    /\ new.fencing_token = old.fencing_token
    /\ new.lease_expires_at = old.lease_expires_at

\* A transaction that leaves its row running is a claim by the worker that is
\* making it, or leaves the claim as it is.
ClaimsByWorkers ==
    \A j \in Jobs : tx[j] # None /\ tx[j].status = "running" =>
        \/ \E v \in Workers : At(v, "claiming") /\ wk[v].on = j
        \/ SameClaim(job[j], tx[j])

HoldsClaimOf(w, j, token) ==
    w \in Workers /\ HoldsClaim(w) /\ wk[w].on = j /\ wk[w].token = token

\* Every claim is held by its worker, unless its lease has run out on some clock
\* or its process has crashed.
ClaimsHeld ==
    \A j \in Jobs : job[j].status = "running" =>
        \/ HoldsClaimOf(job[j].claimed_by, j, job[j].fencing_token)
        \/ job[j].lease_expires_at < Skew
        \/ <<j, job[j].fencing_token>> \in orphans

WorkersInv ==
    /\ \A w \in Workers : WorkerSound(w)
    /\ LocksExclusive
    /\ ClaimsByWorkers
    /\ ClaimsHeld

\* The invariant of the runtime.
RInv == TypeOK /\ IInv /\ Histories /\ RuntimeTypeOK /\ WorkersInv

-----------------------------------------------------------------------------
(* Histories *)

\* A row that keeps its ledger and its events, or its claim's timers only, has
\* the same history.
LEMMA SameHistory ==
    ASSUME NEW old \in Row, NEW new \in Row,
           new.ledger = old.ledger, new.events = old.events
    PROVE  Later(old, new)
<1>1. Len(old.ledger) \in Nat /\ Len(old.events) \in Nat
  BY DEF Row
<1> QED
  BY <1>1 DEF Later, Tells, TellsAll

\* record_next keeps every event and adds the new one.
LEMMA EventsKept ==
    ASSUME NEW events \in Seq(Event), NEW event \in Event, NEW told,
           told = RecordNext(events, event)
    PROVE  /\ told \in Seq(Event)
           /\ TellsAll(events, told)
           /\ Tells(told, event)
<1>1. CASE \E i \in DOMAIN events : events[i] = event
  BY <1>1 DEF RecordNext, Tells, TellsAll
<1>2. CASE ~\E i \in DOMAIN events : events[i] = event
  <2>1. told = Append(events, event)
    BY <1>2 DEF RecordNext
  <2>2. /\ Len(told) = Len(events) + 1 /\ Len(events) \in Nat
        /\ \A i \in 1..Len(events) : told[i] = events[i]
        /\ told[Len(events) + 1] = event
    BY <2>1
  <2>3. told \in Seq(Event)
    BY <2>1
  <2>4. ASSUME NEW i \in 1..Len(events) PROVE \E k \in 1..Len(told) : told[k] = events[i]
    <3>1. i \in 1..Len(told) /\ told[i] = events[i]
      BY <2>2
    <3> QED BY <3>1
  <2>5. Len(events) + 1 \in 1..Len(told)
    BY <2>2
  <2> QED BY <2>2, <2>3, <2>4, <2>5 DEF Tells, TellsAll
<1> QED BY <1>1, <1>2

\* A claim adds an attempt.
LEMMA ClaimLater ==
    ASSUME NEW j \in Jobs, NEW row \in Row, RowConsistent(j, row),
           NEW w \in Workers, NEW d \in Drift, NEW r, r = ClaimedRow(row, w, d)
    PROVE  Later(row, r)
<1> DEFINE closed == CloseAttempt(row.ledger, row.fencing_token, "abandoned")
           entry == [worker_id |-> w, fencing_token |-> row.lease_generation + 1,
                     status |-> "running"]
<1>1. r \in Row /\ r.events = row.events /\ r.ledger = Append(closed, entry)
  BY ClaimedRowFields
<1>2. /\ closed \in Seq(Attempt) /\ Len(closed) = Len(row.ledger)
      /\ \A n \in 1..Len(row.ledger) :
           /\ closed[n].fencing_token = n
           /\ closed[n].worker_id = row.ledger[n].worker_id
           /\ closed[n].status = IF row.status = "running" /\ n = Len(row.ledger)
                                 THEN "abandoned" ELSE row.ledger[n].status
  BY CloseLast DEF RowConsistent
<1>3. \A n \in 1..Len(row.ledger) :
        /\ row.ledger[n].fencing_token = n
        /\ row.ledger[n].status = "running" <=>
             row.status = "running" /\ n = Len(row.ledger)
  BY DEF RowConsistent, ClaimConsistent
<1>4. Len(row.ledger) \in Nat /\ Len(row.events) \in Nat
  BY DEF Row
<1> HIDE DEF closed, entry
<1>5. /\ Len(r.ledger) = Len(row.ledger) + 1
      /\ \A n \in 1..Len(row.ledger) : r.ledger[n] = closed[n]
  BY <1>1, <1>2, <1>4
<1>6. \A n \in 1..Len(row.ledger) :
        /\ r.ledger[n].worker_id = row.ledger[n].worker_id
        /\ r.ledger[n].fencing_token = row.ledger[n].fencing_token
        /\ row.ledger[n].status # "running" => r.ledger[n].status = row.ledger[n].status
  BY <1>2, <1>3, <1>5
<1> QED
  BY <1>1, <1>4, <1>5, <1>6 DEF Later, Tells, TellsAll

\* The end of an attempt closes it and tells of it.
LEMMA EndLater ==
    ASSUME NEW j \in Jobs, NEW row \in Row, RowConsistent(j, row),
           NEW status \in Terminal, NEW event \in Event, NEW r \in Row,
           r.ledger = CloseAttempt(row.ledger, row.fencing_token, status),
           r.events = RecordNext(row.events, event)
    PROVE  /\ Later(row, r)
           /\ Len(r.ledger) = Len(row.ledger)
           /\ Tells(r.events, event)
           /\ row.status = "running" => r.ledger[Len(row.ledger)].status = status
<1>1. /\ Len(r.ledger) = Len(row.ledger)
      /\ \A n \in 1..Len(row.ledger) :
           /\ r.ledger[n].fencing_token = n
           /\ r.ledger[n].worker_id = row.ledger[n].worker_id
           /\ r.ledger[n].status = IF row.status = "running" /\ n = Len(row.ledger)
                                   THEN status ELSE row.ledger[n].status
  <2>1. ClaimConsistent(row) /\ status \in {"abandoned"} \union Terminal
    BY DEF RowConsistent
  <2> DEFINE c == r.ledger
  <2>2. c = CloseAttempt(row.ledger, row.fencing_token, status)
    OBVIOUS
  <2> HIDE DEF c
  <2>3. /\ Len(c) = Len(row.ledger)
        /\ \A n \in 1..Len(row.ledger) :
             /\ c[n].fencing_token = n
             /\ c[n].worker_id = row.ledger[n].worker_id
             /\ c[n].status = IF row.status = "running" /\ n = Len(row.ledger)
                              THEN status ELSE row.ledger[n].status
    BY <2>1, <2>2, CloseLast
  <2> QED BY <2>3 DEF c
<1>2. \A n \in 1..Len(row.ledger) :
        /\ row.ledger[n].fencing_token = n
        /\ row.ledger[n].status = "running" <=>
             row.status = "running" /\ n = Len(row.ledger)
  BY DEF RowConsistent, ClaimConsistent
<1>3. Len(row.ledger) \in Nat /\ row.events \in Seq(Event)
  BY DEF Row
<1>4. row.status = "running" => Len(row.ledger) \in 1..Len(row.ledger)
  BY <1>3 DEF RowConsistent, ClaimConsistent
<1>5. TellsAll(row.events, r.events) /\ Tells(r.events, event)
  BY <1>3, EventsKept
<1> QED
  BY <1>1, <1>2, <1>3, <1>4, <1>5 DEF Later

\* complete, fail and cancel_claim: the outcome is written, and told of.
LEMMA FinalizeLater ==
    ASSUME NEW j \in Jobs, NEW row \in Row, RowConsistent(j, row), row.status = "running",
           NEW requested \in Requested, NEW n, n = Len(row.ledger),
           NEW value \in {n, None}, NEW retryAt \in Timer, NEW r,
           r = FinalizedRow(row, n, requested, value, retryAt)
    PROVE  /\ Later(row, r) /\ r \in Row /\ r.status \in Ended
           /\ Reported(r, row.claimed_by, r.status, n)
<1> DEFINE final == Final(row, requested)
           status == IF final = "retry_wait" THEN "failed" ELSE final
           event == [type |-> final, attempt |-> n]
<1>1. n \in Nat
  BY DEF Row
<1>2. /\ r \in Row /\ r.status = final
      /\ r.ledger = CloseAttempt(row.ledger, row.fencing_token, status)
      /\ r.events = RecordNext(row.events, event)
  BY <1>1, FinalizedRowFields
<1>3. final \in Ended /\ status \in Terminal
  BY DEF Final, Requested, Ended, Terminal
<1>4. event \in Event
  BY <1>1, <1>3 DEF Event, Ended
<1>5. /\ n \in 1..Len(row.ledger)
      /\ row.ledger[n].worker_id = row.claimed_by
  BY <1>1 DEF RowConsistent, ClaimConsistent
<1> HIDE DEF final, status, event
<1>6. /\ Later(row, r)
      /\ Len(r.ledger) = Len(row.ledger)
      /\ Tells(r.events, event)
      /\ r.ledger[n].status = status
  BY <1>2, <1>3, <1>4, EndLater
<1> QED
  BY <1>2, <1>3, <1>5, <1>6 DEF Reported, Later, status, event

\* recover_expired.
LEMMA RecoverLater ==
    ASSUME NEW j \in Jobs, NEW row \in Row, RowConsistent(j, row), NEW r,
           r = RecoveredRow(row)
    PROVE  Later(row, r) /\ r.status \in Terminal
<1>1. Recovered(row) \in Terminal
  BY DEF Recovered, Terminal
<1>2. [type |-> Recovered(row), attempt |-> row.attempt_count] \in Event
  BY <1>1 DEF Event, Row
<1> QED
  BY <1>1, <1>2, RecoveredRowFields, EndLater

\* request_cancel.
LEMMA CancelLater ==
    ASSUME NEW j \in Jobs, NEW row \in Row, RowConsistent(j, row), NEW r,
           r = CancelledRow(row)
    PROVE  Later(row, r)
<1> DEFINE event == [type |-> "cancelled", attempt |-> None]
<1>1. event \in Event
  BY DEF Event, Terminal
<1>2. /\ r \in Row /\ r.ledger = row.ledger
      /\ r.events = IF row.status = "running" THEN row.events
                    ELSE RecordNext(row.events, event)
  BY CancelledRowFields
<1>3. CASE row.status = "running"
  BY <1>2, <1>3, SameHistory
<1>4. CASE row.status # "running"
  <2>1. row.events \in Seq(Event) /\ Len(row.ledger) \in Nat
    BY DEF Row
  <2>2. TellsAll(row.events, r.events)
    BY <1>1, <1>2, <1>4, <2>1, EventsKept
  <2> QED BY <1>2, <2>1, <2>2 DEF Later
<1> QED BY <1>3, <1>4

\* A transaction that is opened adds to the history of its row.
LEMMA LockHistory ==
    ASSUME TypeOK, Histories, NEW j \in Jobs, NEW version, Lock(j, version),
           Later(job[j], version)
    PROVE  Histories'
  BY DEF Lock, Histories, TypeOK

\* complete, fail and cancel_claim by any holder of an envelope.
LEMMA EnvelopeHistory ==
    ASSUME TypeOK, IInv, Histories, NEW j \in Jobs, NEW n \in 1..Len(job[j].ledger), NEW w,
           NEW requested \in Requested, NEW delay \in Nat, NEW d \in Drift,
           NEW value \in {n, None},
           FinalizeClaim(w, j, n, job[j].ledger[n].fencing_token, requested, value, delay, d)
    PROVE  Histories'
<1>1. job[j] \in Row /\ RowConsistent(j, job[j])
  BY DEF TypeOK, IInv
<1>2. n = Len(job[j].ledger) /\ job[j].status = "running"
  BY EnvelopeCurrent DEF FinalizeClaim
<1>3. delay - d \in Timer
  BY SkewAssumption DEF Drift, Timer, Floor
<1>4. Later(job[j], FinalizedRow(job[j], n, requested, value, delay - d))
  BY <1>1, <1>2, <1>3, FinalizeLater
<1> QED
  BY <1>4, LockHistory DEF FinalizeClaim

\* Open transactions go on adding to the history of their rows.
LEMMA HistoriesStep ==
    ASSUME TypeOK, IInv, Histories, [Next]_vars
    PROVE  Histories'
<1>1. ASSUME NEW j \in Jobs PROVE job[j] \in Row /\ RowConsistent(j, job[j])
  BY DEF TypeOK, IInv
<1>2. CASE Tick
  <2> SUFFICES ASSUME NEW j \in Jobs, tx'[j] # None PROVE Later(job'[j], tx'[j])
    BY DEF Histories
  <2>1. tx[j] # None /\ tx[j] \in Row /\ tx'[j] = Aged(tx[j])
    BY <1>2 DEF Tick, TypeOK
  <2>2. job'[j] \in {job[j], Aged(job[j])}
    BY <1>2 DEF Tick
  <2>3. /\ job'[j].ledger = job[j].ledger /\ job'[j].events = job[j].events
        /\ tx'[j].ledger = tx[j].ledger /\ tx'[j].events = tx[j].events
    BY <1>1, <2>1, <2>2, AgedFields
  <2>4. Later(job[j], tx[j])
    BY <2>1 DEF Histories
  <2> QED
    BY <2>3, <2>4 DEF Later
<1>3. ASSUME NEW j \in Jobs, JobStep(j) PROVE Histories'
  <2> DEFINE row == job[j]
  <2>1. CASE FindIdempotent(j)
    BY <2>1 DEF FindIdempotent, Histories
  <2>2. ASSUME NEW delay \in Delays, Insert(j, delay) PROVE Histories'
    <3>1. tx' = tx /\ \A k \in Jobs \ {j} : job'[k] = job[k]
      BY <2>2 DEF Insert, TypeOK
    <3>2. job[j].status = "absent"
      BY <2>2 DEF Insert, IInv, CallerConsistent
    <3>3. tx[j] = None
      BY <3>2 DEF IInv, TxConsistent, Queued
    <3> QED
      BY <3>1, <3>3 DEF Histories
  <2>3. ASSUME NEW w \in Workers, NEW d \in Drift, Claim(w, j, d) PROVE Histories'
    BY <1>1, <2>3, ClaimLater, LockHistory DEF Claim
  <2>4. ASSUME NEW n \in DOMAIN row.ledger, UseEnvelope(j, n) PROVE Histories'
    <3> DEFINE w == row.ledger[n].worker_id
               token == row.ledger[n].fencing_token
    <3>0. n \in 1..Len(row.ledger) /\ 0 \in Nat
      BY <1>1 DEF Row
    <3>1. ASSUME NEW d \in Drift, Heartbeat(w, j, token, d) PROVE Histories'
      BY <3>1 DEF Heartbeat, Unlocked, Histories, TypeOK
    <3>2. ASSUME NEW d \in Drift, NEW value \in {n, None},
                 Complete(w, j, n, token, value, d)
          PROVE  Histories'
      BY <3>0, <3>2, EnvelopeHistory DEF Complete, Requested
    <3>3. ASSUME NEW d \in Drift, CancelClaim(w, j, n, token, d) PROVE Histories'
      BY <3>0, <3>3, EnvelopeHistory DEF CancelClaim, Requested
    <3>4. ASSUME NEW d \in Drift, NEW retryable \in BOOLEAN, NEW delay \in Delays,
                 NEW d0 \in Drift, Fail(w, j, n, token, retryable, delay, d0, d)
          PROVE  Histories'
      <4>1. delay \in Nat
        BY DelaysAssumption
      <4> QED BY <3>0, <3>4, <4>1, EnvelopeHistory DEF Fail, Requested
    <3> QED BY <2>4, <3>1, <3>2, <3>3, <3>4 DEF UseEnvelope
  <2>5. CASE RequestCancel(j)
    BY <1>1, <2>5, CancelLater, LockHistory DEF RequestCancel
  <2>6. ASSUME NEW d \in Drift, RecoverExpired(j, d) PROVE Histories'
    BY <1>1, <2>6, RecoverLater, LockHistory DEF RecoverExpired
  <2>7. CASE Commit(j) \/ Rollback(j)
    BY <2>7 DEF Commit, Rollback, Histories, TypeOK
  <2> QED
    BY <1>3, <2>1, <2>2, <2>3, <2>4, <2>5, <2>6, <2>7 DEF JobStep
<1>4. CASE UNCHANGED vars
  BY <1>4 DEF vars, Histories
<1> QED
  BY <1>2, <1>3, <1>4 DEF Next

\* The history of every row only grows.
LEMMA HistoryGrows ==
    ASSUME TypeOK, IInv, Histories, [Next]_vars, NEW j \in Jobs
    PROVE  Later(job[j], job'[j])
<1>1. job[j] \in Row /\ job'[j] \in Row
  BY TypeStep DEF TypeOK
<1>2. CASE job'[j] = job[j]
  BY <1>1, <1>2, SameHistory
<1>3. CASE Tick
  <2>1. job'[j] \in {job[j], Aged(job[j])}
    BY <1>3 DEF Tick
  <2> QED
    BY <1>1, <2>1, AgedFields, SameHistory
<1>4. ASSUME NEW k \in Jobs, JobStep(k), job'[j] # job[j] PROVE Later(job[j], job'[j])
  <2>1. ASSUME NEW delay \in Delays, Insert(k, delay) PROVE Later(job[j], job'[j])
    <3>1. k = j
      BY <1>4, <2>1 DEF Insert, TypeOK
    <3>2. job[j].status = "absent"
      BY <2>1, <3>1 DEF Insert, IInv, CallerConsistent
    <3>3. Len(job[j].ledger) = 0 /\ Len(job[j].events) = 0 /\ Len(job'[j].ledger) \in Nat
      BY <1>1, <3>2 DEF IInv, RowConsistent, StatusConsistent, Row
    <3> QED BY <3>3 DEF Later, TellsAll
  <2>2. CASE Commit(k)
    <3>1. k = j
      BY <1>4, <2>2 DEF Commit, TypeOK
    <3> QED BY <2>2, <3>1 DEF Commit, Histories, TypeOK
  <2>3. ASSUME NEW w, NEW token, NEW d \in Drift, Heartbeat(w, k, token, d)
        PROVE  Later(job[j], job'[j])
    <3>1. k = j
      BY <1>4, <2>3 DEF Heartbeat, TypeOK
    <3>2. job'[j] = [job[j] EXCEPT !.lease_expires_at = LeaseLen - d]
      BY <2>3, <3>1 DEF Heartbeat, TypeOK
    <3> QED BY <1>1, <3>2, HeartbeatRowFields, TimerRange, SameHistory
  <2>4. CASE UNCHANGED job
    BY <1>4, <2>4
  <2> QED
    BY <1>4, <2>1, <2>2, <2>3, <2>4 DEF JobStep, UseEnvelope, FindIdempotent,
       Claim, Complete, CancelClaim, Fail, FinalizeClaim, RequestCancel,
       RecoverExpired, Lock, Rollback
<1>5. CASE UNCHANGED vars
  BY <1>2, <1>5 DEF vars
<1> QED
  BY <1>2, <1>3, <1>4, <1>5 DEF Next

\* The history of a row keeps what an envelope says of it.
LEMMA EnvelopeKept ==
    ASSUME NEW old \in Row, NEW new \in Row, Later(old, new), NEW w, NEW n, NEW token,
           Envelope(old, w, n, token)
    PROVE  Envelope(new, w, n, token)
<1>1. Len(old.ledger) \in Nat /\ Len(new.ledger) \in Nat
  BY DEF Row
<1> QED
  BY <1>1 DEF Later, Envelope

\* The history of a row keeps what a report says of it.
LEMMA ReportKept ==
    ASSUME NEW old \in Row, NEW new \in Row, Later(old, new), NEW w, NEW n,
           NEW status \in Ended, Reported(old, w, status, n)
    PROVE  Reported(new, w, status, n)
<1>1. Len(old.ledger) \in Nat /\ Len(new.ledger) \in Nat
  BY DEF Row
<1>2. old.ledger[n].status # "running"
  BY DEF Reported, Ended, Terminal
<1>3. n \in 1..Len(old.ledger) /\ n \in 1..Len(new.ledger)
  BY <1>1 DEF Later, Reported
<1>4. Tells(new.events, [type |-> status, attempt |-> n])
  <2> DEFINE event == [type |-> status, attempt |-> n]
  <2>1. Tells(old.events, event)
    BY DEF Reported
  <2> HIDE DEF event
  <2>2. PICK i \in 1..Len(old.events) : old.events[i] = event
    BY <2>1 DEF Tells
  <2>3. Tells(new.events, old.events[i])
    BY DEF Later, TellsAll
  <2> QED BY <2>2, <2>3 DEF event
<1> QED
  BY <1>2, <1>3, <1>4 DEF Later, Reported

-----------------------------------------------------------------------------
(* Every step of the runtime is a step of the queue *)

\* A worker that holds a claim may use its envelope.
LEMMA HolderUsesEnvelope ==
    ASSUME TypeOK, NEW w \in Workers, WorkerSound(w), HoldsClaim(w),
           NEW j, j = wk[w].on, UseEnvelope(j, wk[w].attempt)
    PROVE  Next
<1>1. j \in Jobs /\ wk[w].attempt \in DOMAIN job[j].ledger
  <2>1. j \in Jobs /\ wk[w].attempt \in 1..Len(job[j].ledger)
    BY DEF WorkerSound, Envelope
  <2>2. job[j].ledger \in Seq(Attempt)
    BY <2>1 DEF TypeOK, Row
  <2> QED BY <2>1, <2>2
<1> QED
  BY <1>1 DEF Next, JobStep

\* A probe that finds the claim alive is a heartbeat.
LEMMA ProbeUsesQueue ==
    ASSUME TypeOK, NEW w \in Workers, WorkerSound(w), HoldsClaim(w), NEW d \in Drift,
           Heartbeat(w, wk[w].on, wk[w].token, d)
    PROVE  Next
<1> DEFINE j == wk[w].on
           n == wk[w].attempt
<1>1. /\ job[j].ledger[n].worker_id = w
      /\ job[j].ledger[n].fencing_token = wk[w].token
  BY DEF WorkerSound, Envelope
<1>2. UseEnvelope(j, n)
  BY <1>1 DEF UseEnvelope
<1> QED
  BY <1>2, HolderUsesEnvelope

\* A worker that holds a claim has started it within the job's budget, so the
\* retry policy has a delay for it.
LEMMA HolderDelay ==
    ASSUME TypeOK, IInv, NEW w \in Workers, WorkerSound(w), HoldsClaim(w)
    PROVE  DelayFor(wk[w].attempt) \in Delays
<1> DEFINE j == wk[w].on
           n == wk[w].attempt
<1>1. j \in Jobs /\ n \in 1..Len(job[j].ledger)
  BY DEF WorkerSound, Envelope
<1>2. /\ Len(job[j].ledger) = job[j].attempt_count /\ job[j].attempt_count <= MaxAttempts[j]
      /\ Len(job[j].ledger) \in Nat /\ MaxAttempts[j] \in Nat
  BY <1>1, MaxAttemptsAssumption
     DEF IInv, RowConsistent, ClaimConsistent, StatusConsistent, TypeOK, Row
<1>3. n \in 1..MaxAttempts[j]
  BY <1>1, <1>2
<1> HIDE DEF n, j
<1>4. DelayFor(n) \in Delays
  BY <1>1, <1>3, DelayAssumption
<1> QED BY <1>4 DEF n

\* What Finalize writes is what a finalization of the claim's attempt writes.
LEMMA FinalizeUsesQueue ==
    ASSUME TypeOK, IInv, NEW w \in Workers, WorkerSound(w), At(w, "finalize"),
           NEW d0 \in Drift, NEW d \in Drift, NEW j, j = wk[w].on,
           NEW n, n = wk[w].attempt, NEW token, token = wk[w].token,
           NEW call, call = wk[w].call,
           \/ call = "complete" /\ \E value \in {n, None} : Complete(w, j, n, token, value, d)
           \/ call = "cancel" /\ CancelClaim(w, j, n, token, d)
           \/ /\ call \in {"retryable", "fatal"}
              /\ Fail(w, j, n, token, call = "retryable", DelayFor(n), d0, d)
    PROVE  /\ Next
           /\ \E requested \in Requested, value \in {n, None}, delay \in Nat :
                FinalizeClaim(w, j, n, token, requested, value, delay, d)
<1>1. HoldsClaim(w)
  BY DEF At, HoldsClaim
<1>2. /\ job[j].ledger[n].worker_id = w
      /\ job[j].ledger[n].fencing_token = token
  BY <1>1 DEF WorkerSound, Envelope
<1>3. DelayFor(n) \in Delays /\ DelayFor(n) \in Nat
  BY <1>1, HolderDelay, DelaysAssumption
<1>4. CASE \E value \in {n, None} : Complete(w, j, n, token, value, d)
  <2>1. UseEnvelope(j, n)
    BY <1>2, <1>4 DEF UseEnvelope
  <2> QED BY <1>1, <1>4, <2>1, HolderUsesEnvelope DEF Complete, Requested
<1>5. CASE CancelClaim(w, j, n, token, d)
  <2>1. UseEnvelope(j, n)
    BY <1>2, <1>5 DEF UseEnvelope
  <2> QED BY <1>1, <1>5, <2>1, HolderUsesEnvelope DEF CancelClaim, Requested
<1>6. CASE Fail(w, j, n, token, call = "retryable", DelayFor(n), d0, d)
  <2> DEFINE retryable == call = "retryable"
             delay == DelayFor(n)
  <2>1. retryable \in BOOLEAN /\ Fail(w, j, n, token, retryable, delay, d0, d)
        /\ delay \in Delays /\ delay \in Nat
    BY <1>3, <1>6
  <2> HIDE DEF retryable, delay
  <2>2. UseEnvelope(j, n)
    BY <1>2, <2>1 DEF UseEnvelope
  <2>3. \E requested \in Requested : FinalizeClaim(w, j, n, token, requested, None, delay, d)
    BY <2>1 DEF Fail, Requested
  <2> QED BY <1>1, <2>1, <2>2, <2>3, HolderUsesEnvelope
<1> QED BY <1>4, <1>5, <1>6

-----------------------------------------------------------------------------
(* What keeps the conjuncts of the invariant *)

\* The worker remembers the same claim.
SameMemory(old, new) ==
    new.on = old.on /\ new.attempt = old.attempt /\ new.token = old.token

\* A worker that opens no transaction, makes no claim and reports no outcome in a
\* step, and whose open transaction nobody else touches, stays sound.
LEMMA SoundKept ==
    ASSUME TypeOK, IInv, Histories, [Next]_vars, NEW v \in Workers, WorkerSound(v),
           HoldsTx(v)' =>
              /\ wk'[v].at = wk[v].at /\ SameMemory(wk[v], wk'[v])
              /\ tx'[wk[v].on] \in {tx[wk[v].on], Aged(tx[wk[v].on])},
           HoldsClaim(v)' => HoldsClaim(v) /\ SameMemory(wk[v], wk'[v]),
           report'[v] = report[v] \/ report'[v].status \notin Ended
    PROVE  WorkerSound(v)'
<1>0. \A j \in Jobs : /\ job[j] \in Row /\ job'[j] \in Row
                      /\ Later(job[j], job'[j])
                      /\ tx[j] # None => tx[j] \in Row
  BY TypeStep, HistoryGrows DEF TypeOK
<1>1. ASSUME HoldsTx(v)'
      PROVE  /\ wk'[v].on \in Jobs /\ tx'[wk'[v].on] # None
             /\ At(v, "claiming")' =>
                   tx'[wk'[v].on].status = "running" /\ tx'[wk'[v].on].claimed_by = v
             /\ At(v, "committing")' =>
                   /\ tx'[wk'[v].on].status \in Ended
                   /\ Reported(tx'[wk'[v].on], v, tx'[wk'[v].on].status, wk'[v].attempt)
  <2> DEFINE j == wk[v].on
  <2>1. HoldsTx(v) /\ wk'[v].at = wk[v].at /\ SameMemory(wk[v], wk'[v])
    BY <1>1 DEF HoldsTx
  <2>2. j \in Jobs /\ tx[j] # None /\ wk'[v].on = j
    BY <2>1 DEF WorkerSound, SameMemory
  <2>3. /\ tx[j] \in Row /\ tx'[j] \in {tx[j], Aged(tx[j])}
    BY <1>0, <1>1, <2>2
  <2>5. /\ tx'[j].status = tx[j].status /\ tx'[j].claimed_by = tx[j].claimed_by
        /\ tx'[j].ledger = tx[j].ledger /\ tx'[j].events = tx[j].events
        /\ tx'[j] \in Row
    BY <2>3, AgedFields
  <2>6. tx'[j] # None
    BY <2>5, NullAssumption
  <2> HIDE DEF j
  <2>7. At(v, "claiming")' => tx'[j].status = "running" /\ tx'[j].claimed_by = v
    BY <2>1, <2>5 DEF At, WorkerSound, j
  <2>8. At(v, "committing")' =>
          tx'[j].status \in Ended /\ Reported(tx'[j], v, tx'[j].status, wk'[v].attempt)
    BY <2>1, <2>5 DEF At, WorkerSound, SameMemory, Reported, j
  <2> QED BY <2>2, <2>6, <2>7, <2>8
<1>2. ASSUME HoldsClaim(v)'
      PROVE  wk'[v].on \in Jobs
             /\ Envelope(job'[wk'[v].on], v, wk'[v].attempt, wk'[v].token)
  <2>1. /\ HoldsClaim(v) /\ wk'[v].on = wk[v].on /\ wk'[v].attempt = wk[v].attempt
        /\ wk'[v].token = wk[v].token
    BY <1>2 DEF SameMemory
  <2>2. wk[v].on \in Jobs /\ Envelope(job[wk[v].on], v, wk[v].attempt, wk[v].token)
    BY <2>1 DEF WorkerSound
  <2> QED BY <1>0, <2>1, <2>2, EnvelopeKept
<1>3. ASSUME report'[v].status \in Ended
      PROVE  /\ report'[v].on \in Jobs
             /\ Reported(job'[report'[v].on], v, report'[v].status, report'[v].attempt)
  <2>1. report'[v] = report[v]
    BY <1>3
  <2>2. /\ report[v].on \in Jobs
        /\ Reported(job[report[v].on], v, report[v].status, report[v].attempt)
    BY <1>3, <2>1 DEF WorkerSound
  <2> QED BY <1>0, <1>3, <2>1, <2>2, ReportKept
<1>4. At(v, "claiming")' \/ At(v, "committing")' => HoldsTx(v)'
  BY DEF At, HoldsTx
<1> QED
  BY <1>1, <1>2, <1>3, <1>4 DEF WorkerSound

\* Locks stay exclusive when nobody opens a transaction.
LEMMA ExclusiveKept ==
    ASSUME LocksExclusive,
           \A v \in Workers : HoldsTx(v)' => HoldsTx(v) /\ wk'[v].on = wk[v].on
    PROVE  LocksExclusive'
  BY DEF LocksExclusive

\* The transactions that stay open stay claims of workers, or leave the claim.
LEMMA ClaimsByWorkersKept ==
    ASSUME ClaimsByWorkers,
           \A j \in Jobs : tx'[j] # None => tx'[j] = tx[j] /\ job'[j] = job[j],
           \A v \in Workers : At(v, "claiming") =>
              \/ At(v, "claiming")' /\ wk'[v].on = wk[v].on
              \/ tx'[wk[v].on] = None
    PROVE  ClaimsByWorkers'
<1> SUFFICES ASSUME NEW j \in Jobs, tx'[j] # None, tx'[j].status = "running"
             PROVE  \/ \E v \in Workers : At(v, "claiming")' /\ wk'[v].on = j
                    \/ SameClaim(job'[j], tx'[j])
  BY DEF ClaimsByWorkers
<1>1. tx'[j] = tx[j] /\ job'[j] = job[j]
  OBVIOUS
<1>2. CASE \E v \in Workers : At(v, "claiming") /\ wk[v].on = j
  BY <1>2
<1>3. CASE SameClaim(job[j], tx[j])
  BY <1>1, <1>3
<1> QED BY <1>1, <1>2, <1>3 DEF ClaimsByWorkers

\* If the worker holds the row's claim, the lease has run out on some clock.
Lapsed(w) ==
    LET row == job[wk[w].on]
    IN  row.status = "running" /\ row.claimed_by = w /\ row.fencing_token = wk[w].token
        => row.lease_expires_at < Skew

\* Claims stay held when no worker drops one that is alive.
LEMMA ClaimsHeldKept ==
    ASSUME ClaimsHeld, orphans \subseteq orphans',
           \A j \in Jobs : job'[j].status = "running" =>
              \/ HoldsClaimOf(job[j].claimed_by, j, job[j].fencing_token)'
              \/ /\ job[j].status = "running"
                 /\ job'[j].claimed_by = job[j].claimed_by
                 /\ job'[j].fencing_token = job[j].fencing_token
                 /\ job[j].lease_expires_at < Skew => job'[j].lease_expires_at < Skew,
           \A v \in Workers : HoldsClaim(v) =>
              \/ HoldsClaim(v)' /\ wk'[v].on = wk[v].on /\ wk'[v].token = wk[v].token
              \/ <<wk[v].on, wk[v].token>> \in orphans'
              \/ Lapsed(v)
    PROVE  ClaimsHeld'
<1> SUFFICES ASSUME NEW j \in Jobs, job'[j].status = "running",
                    ~HoldsClaimOf(job[j].claimed_by, j, job[j].fencing_token)'
             PROVE  \/ job'[j].lease_expires_at < Skew
                    \/ <<j, job'[j].fencing_token>> \in orphans'
  BY DEF ClaimsHeld
<1>1. /\ job[j].status = "running"
      /\ job'[j].claimed_by = job[j].claimed_by
      /\ job'[j].fencing_token = job[j].fencing_token
      /\ job[j].lease_expires_at < Skew => job'[j].lease_expires_at < Skew
  OBVIOUS
<1>2. CASE HoldsClaimOf(job[j].claimed_by, j, job[j].fencing_token)
  <2> DEFINE v == job[j].claimed_by
  <2>1. v \in Workers /\ HoldsClaim(v) /\ wk[v].on = j /\ wk[v].token = job[j].fencing_token
    BY <1>2 DEF HoldsClaimOf
  <2>2. CASE HoldsClaim(v)' /\ wk'[v].on = wk[v].on /\ wk'[v].token = wk[v].token
    BY <1>1, <2>1, <2>2 DEF HoldsClaimOf
  <2>3. CASE <<wk[v].on, wk[v].token>> \in orphans'
    BY <1>1, <2>1, <2>3
  <2>4. CASE Lapsed(v)
    BY <1>1, <2>1, <2>4 DEF Lapsed
  <2> QED BY <2>1, <2>2, <2>3, <2>4
<1>3. CASE job[j].lease_expires_at < Skew
  BY <1>1, <1>3
<1>4. CASE <<j, job[j].fencing_token>> \in orphans
  BY <1>1, <1>4
<1> QED BY <1>1, <1>2, <1>3, <1>4 DEF ClaimsHeld

-----------------------------------------------------------------------------
(* The steps of a worker preserve the invariant *)

\* The places where a worker has a transaction open, and where it only has a claim.
InTx == {"recovering", "claiming", "committing"}
WithClaim == {"claimed", "running", "returned", "finalize"}

\* Reading one worker's new state.
LEMMA Becomes ==
    ASSUME RuntimeTypeOK, NEW w \in Workers, NEW q \in Worker,
           wk' = [wk EXCEPT ![w] = q]
    PROVE  /\ wk' \in [Workers -> Worker]
           /\ wk'[w] = q
           /\ \A v \in Workers : v # w => wk'[v] = wk[v]
  BY DEF RuntimeTypeOK

\* A step of a worker that leaves the queue alone.
LEMMA QuietStep ==
    ASSUME RInv, NEW w \in Workers, NEW q \in Worker, QueueUnchanged,
           wk' = [wk EXCEPT ![w] = q], orphans \subseteq orphans',
           \A v \in Workers : report'[v] = report[v] \/ report'[v].status \notin Ended,
           \/ q.at = wk[w].at /\ SameMemory(wk[w], q)
           \/ /\ ~HoldsTx(w) /\ q.at \notin InTx
              /\ q.at \in WithClaim => HoldsClaim(w) /\ SameMemory(wk[w], q)
              /\ HoldsClaim(w) => \/ q.at \in WithClaim
                                  \/ <<wk[w].on, wk[w].token>> \in orphans'
                                  \/ Lapsed(w)
    PROVE  WorkersInv'
<1>1. job' = job /\ tx' = tx /\ [Next]_vars
  BY DEF QueueUnchanged, vars
<1>2. wk'[w] = q /\ \A v \in Workers : v # w => wk'[v] = wk[v]
  BY Becomes DEF RInv
<1>3. ASSUME NEW v \in Workers
      PROVE  /\ HoldsTx(v)' => wk'[v].at = wk[v].at /\ SameMemory(wk[v], wk'[v])
             /\ HoldsClaim(v)' => HoldsClaim(v) /\ SameMemory(wk[v], wk'[v])
             /\ At(v, "claiming") => At(v, "claiming")' /\ wk'[v].on = wk[v].on
             /\ HoldsClaim(v) =>
                  \/ HoldsClaim(v)' /\ wk'[v].on = wk[v].on /\ wk'[v].token = wk[v].token
                  \/ <<wk[v].on, wk[v].token>> \in orphans'
                  \/ Lapsed(v)
  <2>1. CASE v # w
    BY <1>2, <2>1 DEF HoldsTx, HoldsClaim, At, SameMemory
  <2>2. CASE v = w /\ q.at = wk[w].at /\ SameMemory(wk[w], q)
    BY <1>2, <2>2 DEF HoldsTx, HoldsClaim, At, SameMemory
  <2>3. CASE /\ v = w /\ ~HoldsTx(w) /\ q.at \notin InTx
             /\ q.at \in WithClaim => HoldsClaim(w) /\ SameMemory(wk[w], q)
             /\ HoldsClaim(w) => \/ q.at \in WithClaim
                                 \/ <<wk[w].on, wk[w].token>> \in orphans'
                                 \/ Lapsed(w)
    BY <1>2, <2>3 DEF HoldsTx, HoldsClaim, At, SameMemory, InTx, WithClaim
  <2> QED BY <2>1, <2>2, <2>3
<1>4. \A v \in Workers : WorkerSound(v)'
  <2> SUFFICES ASSUME NEW v \in Workers PROVE WorkerSound(v)'
    OBVIOUS
  <2>1. WorkerSound(v)
    BY DEF RInv, WorkersInv
  <2> QED BY <1>1, <1>3, <2>1, SoundKept DEF RInv
<1>5. LocksExclusive'
  <2>1. \A v \in Workers : HoldsTx(v)' => HoldsTx(v) /\ wk'[v].on = wk[v].on
    BY <1>3 DEF HoldsTx, SameMemory
  <2> QED BY <2>1, ExclusiveKept DEF RInv, WorkersInv
<1>6. ClaimsByWorkers'
  BY <1>1, <1>3, ClaimsByWorkersKept DEF RInv, WorkersInv
<1>7. ClaimsHeld'
  BY <1>1, <1>3, ClaimsHeldKept DEF RInv, WorkersInv
<1> QED
  BY <1>4, <1>5, <1>6, <1>7 DEF WorkersInv

\* A step of a worker that locks a row with a new version.
LEMMA LockStep ==
    ASSUME RInv, [Next]_vars, NEW w \in Workers, NEW q \in Worker, NEW j \in Jobs,
           NEW version \in Row, Lock(j, version),
           wk' = [wk EXCEPT ![w] = q], report' = report, orphans' = orphans,
           ~HoldsTx(w), q.on = j,
           \/ /\ q.at = "recovering" /\ ~HoldsClaim(w) /\ version.status # "running"
           \/ /\ q.at = "claiming" /\ ~HoldsClaim(w)
              /\ version.status = "running" /\ version.claimed_by = w
           \/ /\ q.at = "committing" /\ HoldsClaim(w) /\ SameMemory(wk[w], q)
              /\ version.status \in Ended
              /\ Reported(version, w, version.status, q.attempt)
    PROVE  WorkersInv'
<1>1. /\ tx[j] = None /\ job' = job /\ tx'[j] = version
      /\ \A k \in Jobs \ {j} : tx'[k] = tx[k]
  BY DEF Lock, Unlocked, RInv, TypeOK
<1>2. wk'[w] = q /\ \A v \in Workers : v # w => wk'[v] = wk[v]
  BY Becomes DEF RInv
<1>3. \A v \in Workers : WorkerSound(v)
  BY DEF RInv, WorkersInv
<1>4. \A v \in Workers : HoldsTx(v) => wk[v].on \in Jobs \ {j}
  BY <1>1, <1>3 DEF WorkerSound
<1>5. ASSUME NEW v \in Workers, v # w PROVE WorkerSound(v)'
  <2>1. wk'[v] = wk[v]
    BY <1>2, <1>5
  <2>2. HoldsTx(v)' => tx'[wk[v].on] = tx[wk[v].on]
    BY <1>1, <1>4, <2>1 DEF HoldsTx
  <2> QED BY <1>3, <2>1, <2>2, SoundKept DEF RInv, HoldsTx, HoldsClaim, SameMemory
<1>6. WorkerSound(w)'
  <2>1. version # None
    BY NullAssumption
  <2>2. HoldsClaim(w)' =>
          HoldsClaim(w) /\ SameMemory(wk[w], q)
    BY <1>2 DEF HoldsClaim
  <2>3. HoldsClaim(w)' =>
          wk'[w].on \in Jobs /\ Envelope(job'[wk'[w].on], w, wk'[w].attempt, wk'[w].token)
    BY <1>1, <1>2, <1>3, <2>2 DEF WorkerSound, SameMemory
  <2>4. At(w, "claiming")' =>
          tx'[wk'[w].on].status = "running" /\ tx'[wk'[w].on].claimed_by = w
    BY <1>1, <1>2 DEF At, Ended
  <2>5. At(w, "committing")' =>
          /\ tx'[wk'[w].on].status \in Ended
          /\ Reported(tx'[wk'[w].on], w, tx'[wk'[w].on].status, wk'[w].attempt)
    BY <1>1, <1>2 DEF At
  <2>6. report'[w].status \in Ended =>
          /\ report'[w].on \in Jobs
          /\ Reported(job'[report'[w].on], w, report'[w].status, report'[w].attempt)
    BY <1>1, <1>3 DEF WorkerSound
  <2>7. wk'[w].on \in Jobs /\ tx'[wk'[w].on] # None
    BY <1>1, <1>2, <2>1
  <2> QED BY <2>3, <2>4, <2>5, <2>6, <2>7 DEF WorkerSound
<1>7. LocksExclusive'
  <2> SUFFICES ASSUME NEW u \in Workers, NEW v \in Workers, HoldsTx(u)', HoldsTx(v)',
                      wk'[u].on = wk'[v].on
               PROVE  u = v
    BY DEF LocksExclusive
  <2>1. \A x \in Workers : x # w /\ HoldsTx(x)' => HoldsTx(x) /\ wk'[x].on = wk[x].on
    BY <1>2 DEF HoldsTx
  <2> QED BY <1>2, <1>4, <2>1 DEF RInv, WorkersInv, LocksExclusive
<1>8. ClaimsByWorkers'
  <2> SUFFICES ASSUME NEW k \in Jobs, tx'[k] # None, tx'[k].status = "running"
               PROVE  \/ \E v \in Workers : At(v, "claiming")' /\ wk'[v].on = k
                      \/ SameClaim(job'[k], tx'[k])
    BY DEF ClaimsByWorkers
  <2>1. CASE k = j
    BY <1>1, <1>2, <2>1 DEF At, Ended, Terminal
  <2>2. CASE k # j
    <3>1. tx'[k] = tx[k] /\ job'[k] = job[k]
      BY <1>1, <2>2
    <3>2. ASSUME NEW v \in Workers, At(v, "claiming"), wk[v].on = k
          PROVE  At(v, "claiming")' /\ wk'[v].on = k
      BY <1>2, <3>2 DEF At, HoldsTx
    <3> QED BY <3>1, <3>2 DEF RInv, WorkersInv, ClaimsByWorkers
  <2> QED BY <2>1, <2>2
<1>9. ClaimsHeld'
  <2>1. ASSUME NEW v \in Workers, HoldsClaim(v)
        PROVE  HoldsClaim(v)' /\ wk'[v].on = wk[v].on /\ wk'[v].token = wk[v].token
    BY <1>2, <2>1 DEF HoldsClaim, SameMemory
  <2> QED BY <1>1, <2>1, ClaimsHeldKept DEF RInv, WorkersInv
<1> QED
  BY <1>3, <1>5, <1>6, <1>7, <1>8, <1>9 DEF WorkersInv

\* A worker whose transaction ends is the only one that had the row locked.
LEMMA EndStep ==
    ASSUME RInv, [Next]_vars, NEW w \in Workers, NEW q \in Worker, HoldsTx(w),
           wk' = [wk EXCEPT ![w] = q], q.at \notin InTx,
           tx' = [tx EXCEPT ![wk[w].on] = None],
           \A k \in Jobs \ {wk[w].on} : job'[k] = job[k],
           \A v \in Workers : v # w => report'[v] = report[v]
    PROVE  /\ \A v \in Workers : v # w => WorkerSound(v)'
           /\ LocksExclusive'
           /\ ClaimsByWorkers'
<1> DEFINE j == wk[w].on
<1>1. wk'[w] = q /\ \A v \in Workers : v # w => wk'[v] = wk[v]
  BY Becomes DEF RInv
<1>2. j \in Jobs
  BY DEF RInv, WorkersInv, WorkerSound
<1>3. tx'[j] = None /\ \A k \in Jobs \ {j} : tx'[k] = tx[k]
  BY <1>2 DEF RInv, TypeOK
<1>4. ASSUME NEW v \in Workers, v # w, HoldsTx(v)
      PROVE  wk[v].on \in Jobs \ {j} /\ tx'[wk[v].on] = tx[wk[v].on]
  <2>1. wk[v].on \in Jobs /\ wk[v].on # j
    BY <1>4 DEF RInv, WorkersInv, WorkerSound, LocksExclusive
  <2> QED BY <1>3, <2>1
<1>5. ASSUME NEW v \in Workers, v # w PROVE WorkerSound(v)'
  <2>1. wk'[v] = wk[v] /\ WorkerSound(v)
    BY <1>1, <1>5 DEF RInv, WorkersInv
  <2>2. HoldsTx(v)' => tx'[wk[v].on] = tx[wk[v].on]
    BY <1>4, <1>5, <2>1 DEF HoldsTx
  <2> QED BY <1>5, <2>1, <2>2, SoundKept DEF RInv, HoldsTx, HoldsClaim, SameMemory
<1>6. LocksExclusive'
  <2>1. \A v \in Workers : HoldsTx(v)' => HoldsTx(v) /\ wk'[v].on = wk[v].on
    BY <1>1 DEF HoldsTx, InTx
  <2> QED BY <2>1, ExclusiveKept DEF RInv, WorkersInv
<1>7. ClaimsByWorkers'
  <2>1. \A k \in Jobs : tx'[k] # None => tx'[k] = tx[k] /\ job'[k] = job[k]
    BY <1>3
  <2>2. \A v \in Workers : At(v, "claiming") =>
              \/ At(v, "claiming")' /\ wk'[v].on = wk[v].on
              \/ tx'[wk[v].on] = None
    BY <1>1, <1>3 DEF At
  <2> QED BY <2>1, <2>2, ClaimsByWorkersKept DEF RInv, WorkersInv
<1> QED
  BY <1>5, <1>6, <1>7

\* A process that dies in a transaction.
LEMMA CrashStep ==
    ASSUME RInv, [Next]_vars, NEW w \in Workers, NEW q \in Worker, HoldsTx(w),
           wk' = [wk EXCEPT ![w] = q], q.at = "down", Rollback(wk[w].on),
           report' = report, orphans \subseteq orphans',
           HoldsClaim(w) => <<wk[w].on, wk[w].token>> \in orphans'
    PROVE  WorkersInv'
<1>1. wk'[w] = q /\ \A v \in Workers : v # w => wk'[v] = wk[v]
  BY Becomes DEF RInv
<1>2. job' = job /\ tx' = [tx EXCEPT ![wk[w].on] = None]
  BY DEF Rollback
<1>3. /\ \A v \in Workers : v # w => WorkerSound(v)'
      /\ LocksExclusive'
      /\ ClaimsByWorkers'
  BY <1>2, EndStep DEF InTx
<1>4. WorkerSound(w)'
  <2>1. ~HoldsTx(w)' /\ ~HoldsClaim(w)' /\ WorkerSound(w)
    BY <1>1 DEF HoldsTx, HoldsClaim, RInv, WorkersInv
  <2> QED BY <2>1, SoundKept DEF RInv
<1>5. ClaimsHeld'
  <2>1. ASSUME NEW v \in Workers, HoldsClaim(v)
        PROVE  \/ HoldsClaim(v)' /\ wk'[v].on = wk[v].on /\ wk'[v].token = wk[v].token
               \/ <<wk[v].on, wk[v].token>> \in orphans'
    BY <1>1, <2>1 DEF HoldsClaim
  <2> QED BY <1>2, <2>1, ClaimsHeldKept DEF RInv, WorkersInv
<1> QED
  BY <1>3, <1>4, <1>5 DEF WorkersInv

\* The commit of a round of recover_expired.
LEMMA RecoverCommitStep ==
    ASSUME RInv, [Next]_vars, NEW w \in Workers, RecoverCommit(w)
    PROVE  WorkersInv'
<1> DEFINE j == wk[w].on
           q == [wk[w] EXCEPT !.at = "recover", !.on = None]
<1>1. q \in Worker /\ q.at = "recover" /\ HoldsTx(w) /\ ~HoldsClaim(w)
  BY DEF RecoverCommit, At, HoldsTx, HoldsClaim, RInv, RuntimeTypeOK, Worker
<1>2. /\ wk' = [wk EXCEPT ![w] = q] /\ report' = report /\ orphans' = orphans
      /\ tx' = [tx EXCEPT ![j] = None] /\ job' = [job EXCEPT ![j] = tx[j]]
      /\ tx[j] # None /\ At(w, "recovering")
  BY DEF RecoverCommit, Commit, Become, Environment
<1> HIDE DEF q
<1>3. wk'[w] = q /\ \A v \in Workers : v # w => wk'[v] = wk[v]
  BY <1>1, <1>2, Becomes DEF RInv
<1>4. j \in Jobs
  BY <1>1 DEF RInv, WorkersInv, WorkerSound
<1>5. job'[j] = tx[j] /\ \A k \in Jobs \ {j} : job'[k] = job[k]
  BY <1>2, <1>4 DEF RInv, TypeOK
<1>6. /\ \A v \in Workers : v # w => WorkerSound(v)'
      /\ LocksExclusive'
      /\ ClaimsByWorkers'
  <2>1. q.at \notin InTx
    BY <1>1 DEF InTx
  <2> QED BY <1>1, <1>2, <1>5, <2>1, EndStep
<1>7. WorkerSound(w)'
  <2>1. ~HoldsTx(w)' /\ ~HoldsClaim(w)' /\ WorkerSound(w)
    BY <1>1, <1>3 DEF HoldsTx, HoldsClaim, RInv, WorkersInv
  <2> QED BY <1>2, <2>1, SoundKept DEF RInv
<1>8. ClaimsHeld'
  <2>1. ASSUME tx[j].status = "running" PROVE SameClaim(job[j], tx[j])
    <3>1. ~\E v \in Workers : At(v, "claiming") /\ wk[v].on = j
      BY <1>1, <1>2 DEF RInv, WorkersInv, LocksExclusive, At, HoldsTx
    <3> QED BY <1>2, <1>4, <2>1, <3>1 DEF RInv, WorkersInv, ClaimsByWorkers
  <2>2. ASSUME NEW k \in Jobs, job'[k].status = "running"
        PROVE  /\ job[k].status = "running"
               /\ job'[k].claimed_by = job[k].claimed_by
               /\ job'[k].fencing_token = job[k].fencing_token
               /\ job'[k].lease_expires_at = job[k].lease_expires_at
    BY <1>5, <2>1, <2>2 DEF SameClaim
  <2>3. \A v \in Workers : HoldsClaim(v) =>
          HoldsClaim(v)' /\ wk'[v].on = wk[v].on /\ wk'[v].token = wk[v].token
    BY <1>1, <1>3 DEF HoldsClaim
  <2> QED BY <1>2, <2>2, <2>3, ClaimsHeldKept DEF RInv, WorkersInv
<1> QED
  BY <1>6, <1>7, <1>8 DEF WorkersInv

\* The commit of a claim: its envelope is the worker's.
LEMMA ClaimCommitStep ==
    ASSUME RInv, [Next]_vars, NEW w \in Workers, ClaimCommit(w)
    PROVE  wk' \in [Workers -> Worker] /\ WorkersInv'
<1> DEFINE j == wk[w].on
           n == tx[j].attempt_count
           token == tx[j].fencing_token
           q == [wk[w] EXCEPT !.at = "claimed", !.attempt = n, !.token = token]
<1>0. HoldsTx(w) /\ ~HoldsClaim(w) /\ At(w, "claiming") /\ wk[w] \in Worker
  BY DEF ClaimCommit, At, HoldsTx, HoldsClaim, RInv, RuntimeTypeOK
<1>1. /\ j \in Jobs /\ tx[j] # None /\ tx[j] \in Row
      /\ tx[j].status = "running" /\ tx[j].claimed_by = w
  BY <1>0 DEF RInv, WorkersInv, WorkerSound, TypeOK
<1>2. RowConsistent(j, tx[j])
  BY <1>1 DEF RInv, IInv, TxConsistent
<1>3. /\ n = Len(tx[j].ledger) /\ token = Len(tx[j].ledger)
      /\ n \in Nat /\ n > 0 /\ token \in Nat
      /\ tx[j].ledger[n].worker_id = w /\ tx[j].ledger[n].fencing_token = token
  BY <1>1, <1>2 DEF RowConsistent, ClaimConsistent, Row
<1>4. /\ wk' = [wk EXCEPT ![w] = q] /\ report' = report /\ orphans' = orphans
      /\ tx' = [tx EXCEPT ![j] = None] /\ job' = [job EXCEPT ![j] = tx[j]]
  BY DEF ClaimCommit, Commit, Become, Environment
<1>5. /\ q \in Worker /\ q.at = "claimed" /\ q.on = j /\ q.attempt = n /\ q.token = token
  <2> HIDE DEF n, token
  <2> QED BY <1>0, <1>3 DEF Worker
<1> HIDE DEF q
<1>6. /\ wk' \in [Workers -> Worker]
      /\ wk'[w] = q /\ \A v \in Workers : v # w => wk'[v] = wk[v]
  BY <1>4, <1>5, Becomes DEF RInv
<1>7. job'[j] = tx[j] /\ \A k \in Jobs \ {j} : job'[k] = job[k]
  BY <1>1, <1>4 DEF RInv, TypeOK
<1>8. /\ \A v \in Workers : v # w => WorkerSound(v)'
      /\ LocksExclusive'
      /\ ClaimsByWorkers'
  <2>1. q.at \notin InTx
    BY <1>5 DEF InTx
  <2> QED BY <1>0, <1>4, <1>5, <1>7, <2>1, EndStep
<1>9. WorkerSound(w)'
  <2>1. Envelope(tx[j], w, n, token)
    BY <1>3 DEF Envelope
  <2>2. ~HoldsTx(w)' /\ ~At(w, "claiming")' /\ ~At(w, "committing")'
    BY <1>5, <1>6 DEF HoldsTx, At
  <2>3. wk'[w].on \in Jobs /\ Envelope(job'[wk'[w].on], w, wk'[w].attempt, wk'[w].token)
    BY <1>1, <1>5, <1>6, <1>7, <2>1
  <2>4. report'[w].status \in Ended =>
          /\ report'[w].on \in Jobs
          /\ Reported(job'[report'[w].on], w, report'[w].status, report'[w].attempt)
    <3> SUFFICES ASSUME report[w].status \in Ended
                 PROVE  /\ report[w].on \in Jobs
                        /\ Reported(job'[report[w].on], w, report[w].status, report[w].attempt)
      BY <1>4
    <3>1. /\ report[w].on \in Jobs
          /\ Reported(job[report[w].on], w, report[w].status, report[w].attempt)
      BY DEF RInv, WorkersInv, WorkerSound
    <3>2. /\ job[report[w].on] \in Row /\ job'[report[w].on] \in Row
          /\ Later(job[report[w].on], job'[report[w].on])
      BY <3>1, TypeStep, HistoryGrows DEF RInv, TypeOK
    <3> QED BY <3>1, <3>2, ReportKept
  <2> QED BY <2>2, <2>3, <2>4 DEF WorkerSound
<1>10. ClaimsHeld'
  <2>2. \A v \in Workers : HoldsClaim(v) =>
          HoldsClaim(v)' /\ wk'[v].on = wk[v].on /\ wk'[v].token = wk[v].token
    BY <1>0, <1>6 DEF HoldsClaim
  <2>3. \A k \in Jobs : job'[k].status = "running" =>
              \/ HoldsClaimOf(job[k].claimed_by, k, job[k].fencing_token)'
              \/ job'[k] = job[k]
    <3> SUFFICES ASSUME NEW k \in Jobs
                 PROVE  \/ HoldsClaimOf(job[k].claimed_by, k, job[k].fencing_token)'
                        \/ job'[k] = job[k]
      OBVIOUS
    <3>1. CASE k = j
      <4>1. job'[k].claimed_by = w /\ job'[k].fencing_token = token
        BY <1>1, <1>7, <3>1
      <4> QED BY <1>5, <1>6, <3>1, <4>1 DEF HoldsClaimOf, HoldsClaim
    <3>2. CASE k # j
      BY <1>7, <3>2
    <3> QED BY <3>1, <3>2
  <2>4. ClaimsHeld /\ orphans' = orphans
    BY <1>4 DEF RInv, WorkersInv
  <2> QED BY <2>2, <2>3, <2>4, ClaimsHeldKept
<1> QED
  BY <1>6, <1>8, <1>9, <1>10 DEF WorkersInv

\* The commit of an outcome: it is reported, and the claim is over.
LEMMA FinalizeCommitStep ==
    ASSUME RInv, [Next]_vars, NEW w \in Workers, FinalizeCommit(w)
    PROVE  RuntimeTypeOK' /\ WorkersInv'
<1> DEFINE j == wk[w].on
           status == tx[j].status
           q == [Polling EXCEPT !.at = IF wk[w].stop THEN "down" ELSE "recover",
                                !.stop = wk[w].stop]
           told == [status |-> status, on |-> j, attempt |-> wk[w].attempt]
<1>0. /\ HoldsTx(w) /\ HoldsClaim(w) /\ At(w, "committing") /\ wk[w] \in Worker
      /\ report \in [Workers -> Report]
  BY DEF FinalizeCommit, At, HoldsTx, HoldsClaim, RInv, RuntimeTypeOK
<1>1. /\ j \in Jobs /\ tx[j] # None /\ tx[j] \in Row
      /\ status \in Ended /\ Reported(tx[j], w, status, wk[w].attempt)
  BY <1>0 DEF RInv, WorkersInv, WorkerSound, TypeOK
<1>2. /\ wk' = [wk EXCEPT ![w] = q] /\ report' = [report EXCEPT ![w] = told]
      /\ UNCHANGED <<faults, cancels, orphans>>
      /\ tx' = [tx EXCEPT ![j] = None] /\ job' = [job EXCEPT ![j] = tx[j]]
  BY DEF FinalizeCommit, Commit, EndCycle, Become, Environment
<1>3. q \in Worker /\ q.at \in {"down", "recover"}
  BY <1>0 DEF Worker, Polling
<1>4. told \in Report
  <2> HIDE DEF status
  <2> QED BY <1>0, <1>1 DEF Report, Ended, Worker
<1> HIDE DEF q
<1>5. /\ wk' \in [Workers -> Worker]
      /\ wk'[w] = q /\ \A v \in Workers : v # w => wk'[v] = wk[v]
  BY <1>2, <1>3, Becomes DEF RInv
<1>6. job'[j] = tx[j] /\ \A k \in Jobs \ {j} : job'[k] = job[k]
  BY <1>1, <1>2 DEF RInv, TypeOK
<1>7. /\ report' \in [Workers -> Report] /\ report'[w] = told
      /\ \A v \in Workers : v # w => report'[v] = report[v]
  <2> HIDE DEF told
  <2> QED BY <1>0, <1>2, <1>4
<1>8. /\ \A v \in Workers : v # w => WorkerSound(v)'
      /\ LocksExclusive'
      /\ ClaimsByWorkers'
  <2>1. q.at \notin InTx
    BY <1>3 DEF InTx
  <2> QED BY <1>0, <1>2, <1>3, <1>6, <1>7, <2>1, EndStep
<1>9. WorkerSound(w)'
  <2>1. ~HoldsTx(w)' /\ ~At(w, "claiming")' /\ ~At(w, "committing")' /\ ~HoldsClaim(w)'
    BY <1>3, <1>5 DEF HoldsTx, At, HoldsClaim
  <2>2. /\ report'[w].on \in Jobs
        /\ Reported(job'[report'[w].on], w, report'[w].status, report'[w].attempt)
    <3>1. /\ report'[w].on = j /\ report'[w].status = status
          /\ report'[w].attempt = wk[w].attempt
      BY <1>7
    <3> QED BY <1>1, <1>6, <3>1
  <2> QED BY <2>1, <2>2 DEF WorkerSound
<1>10. ClaimsHeld'
  <2>1. status # "running"
    BY <1>1 DEF Ended, Terminal
  <2>2. ASSUME NEW k \in Jobs, job'[k].status = "running"
        PROVE  job'[k] = job[k] /\ k # j
    BY <1>6, <2>1, <2>2
  <2> SUFFICES ASSUME NEW k \in Jobs, job'[k].status = "running"
               PROVE  \/ HoldsClaimOf(job[k].claimed_by, k, job[k].fencing_token)'
                      \/ job'[k].lease_expires_at < Skew
                      \/ <<k, job'[k].fencing_token>> \in orphans'
    BY DEF ClaimsHeld
  <2>3. job'[k] = job[k] /\ k # j /\ orphans' = orphans
    BY <1>2, <2>2
  <2>4. \/ HoldsClaimOf(job[k].claimed_by, k, job[k].fencing_token)
        \/ job[k].lease_expires_at < Skew
        \/ <<k, job[k].fencing_token>> \in orphans
    BY <2>3 DEF RInv, WorkersInv, ClaimsHeld
  <2>5. ASSUME HoldsClaimOf(job[k].claimed_by, k, job[k].fencing_token)
        PROVE  HoldsClaimOf(job[k].claimed_by, k, job[k].fencing_token)'
    BY <1>5, <2>3, <2>5 DEF HoldsClaimOf, HoldsClaim
  <2> QED BY <2>3, <2>4, <2>5
<1>11. RuntimeTypeOK'
  BY <1>2, <1>5, <1>7 DEF RInv, RuntimeTypeOK
<1> QED
  BY <1>8, <1>9, <1>10, <1>11 DEF WorkersInv

\* A heartbeat that is answered: the worker holds the claim whose lease it extends.
LEMMA BeatStep ==
    ASSUME RInv, [Next]_vars, NEW w \in Workers, NEW q \in Worker, NEW d \in Drift,
           HoldsClaim(w), ~HoldsTx(w), Heartbeat(w, wk[w].on, wk[w].token, d),
           wk' = [wk EXCEPT ![w] = q], q.at \in WithClaim, SameMemory(wk[w], q),
           report' = report, orphans' = orphans
    PROVE  WorkersInv'
<1> DEFINE j == wk[w].on
<1>1. /\ tx' = tx /\ tx[j] = None
      /\ job' = [job EXCEPT ![j] = [job[j] EXCEPT !.lease_expires_at = LeaseLen - d]]
      /\ job[j].claimed_by = w /\ job[j].fencing_token = wk[w].token
  BY DEF Heartbeat, Unlocked, OwnsLiveClaim
<1>2. j \in Jobs
  BY DEF RInv, WorkersInv, WorkerSound
<1>3. wk'[w] = q /\ \A v \in Workers : v # w => wk'[v] = wk[v]
  BY Becomes DEF RInv
<1>4. /\ job'[j].claimed_by = job[j].claimed_by
      /\ job'[j].fencing_token = job[j].fencing_token
      /\ \A k \in Jobs \ {j} : job'[k] = job[k]
  BY <1>1, <1>2, HeartbeatRowFields, TimerRange DEF RInv, TypeOK
<1>5. ASSUME NEW v \in Workers
      PROVE  /\ HoldsTx(v)' => v # w /\ HoldsTx(v) /\ wk'[v] = wk[v]
             /\ HoldsClaim(v)' => HoldsClaim(v) /\ SameMemory(wk[v], wk'[v])
             /\ HoldsClaim(v) => HoldsClaim(v)' /\ SameMemory(wk[v], wk'[v])
             /\ At(v, "claiming") => At(v, "claiming")' /\ wk'[v].on = wk[v].on
  BY <1>3 DEF HoldsTx, HoldsClaim, At, SameMemory, WithClaim
<1>6. \A v \in Workers : WorkerSound(v)'
  <2> SUFFICES ASSUME NEW v \in Workers PROVE WorkerSound(v)'
    OBVIOUS
  <2>1. WorkerSound(v)
    BY DEF RInv, WorkersInv
  <2>2. HoldsTx(v)' => /\ wk'[v].at = wk[v].at /\ SameMemory(wk[v], wk'[v])
                       /\ tx'[wk[v].on] = tx[wk[v].on]
    BY <1>1, <1>5 DEF SameMemory
  <2> QED BY <1>5, <2>1, <2>2, SoundKept DEF RInv
<1>7. LocksExclusive'
  BY <1>5, ExclusiveKept DEF RInv, WorkersInv
<1>8. ClaimsByWorkers'
  <2>1. \A k \in Jobs : tx'[k] # None => tx'[k] = tx[k] /\ job'[k] = job[k]
    BY <1>1, <1>4
  <2> QED BY <1>5, <2>1, ClaimsByWorkersKept DEF RInv, WorkersInv
<1>9. ClaimsHeld'
  <2>1. \A k \in Jobs : job'[k].status = "running" =>
              \/ HoldsClaimOf(job[k].claimed_by, k, job[k].fencing_token)'
              \/ job'[k] = job[k]
    <3> SUFFICES ASSUME NEW k \in Jobs
                 PROVE  \/ HoldsClaimOf(job[k].claimed_by, k, job[k].fencing_token)'
                        \/ job'[k] = job[k]
      OBVIOUS
    <3>1. CASE k = j
      <4>1. job'[k].claimed_by = w /\ job'[k].fencing_token = wk[w].token
        BY <1>1, <1>4, <3>1
      <4>2. HoldsClaim(w)' /\ wk'[w].on = k /\ wk'[w].token = wk[w].token
        BY <1>5, <3>1 DEF SameMemory
      <4> QED BY <4>1, <4>2 DEF HoldsClaimOf
    <3>2. CASE k # j
      BY <1>4, <3>2
    <3> QED BY <3>1, <3>2
  <2>2. \A v \in Workers : HoldsClaim(v) =>
          HoldsClaim(v)' /\ wk'[v].on = wk[v].on /\ wk'[v].token = wk[v].token
    BY <1>5 DEF SameMemory
  <2>3. ClaimsHeld
    BY DEF RInv, WorkersInv
  <2> QED BY <2>1, <2>2, <2>3, ClaimsHeldKept
<1> QED
  BY <1>6, <1>7, <1>8, <1>9 DEF WorkersInv

-----------------------------------------------------------------------------
(* The steps of the other processes, and time, preserve the invariant *)

\* What the workers remember stays sound while their transactions are left alone.
LEMMA OthersStep ==
    ASSUME RInv, [Next]_vars, UNCHANGED <<wk, report>>,
           \A w \in Workers : HoldsTx(w) =>
              tx'[wk[w].on] \in {tx[wk[w].on], Aged(tx[wk[w].on])}
    PROVE  (\A w \in Workers : WorkerSound(w)') /\ LocksExclusive'
<1>1. ASSUME NEW w \in Workers PROVE WorkerSound(w)'
  <2>1. WorkerSound(w)
    BY DEF RInv, WorkersInv
  <2> QED BY <2>1, SoundKept DEF RInv, HoldsTx, HoldsClaim, SameMemory
<1>2. LocksExclusive'
  BY DEF RInv, WorkersInv, LocksExclusive, HoldsTx
<1> QED BY <1>1, <1>2

\* A claim stays held by a worker that is left alone.
LEMMA HeldByOthers ==
    ASSUME RInv, UNCHANGED <<wk, orphans>>,
           \A j \in Jobs : job'[j].status = "running" =>
                 /\ job[j].status = "running"
                 /\ job'[j].claimed_by = job[j].claimed_by
                 /\ job'[j].fencing_token = job[j].fencing_token
                 /\ job[j].lease_expires_at < Skew => job'[j].lease_expires_at < Skew
    PROVE  ClaimsHeld'
<1>1. \A v \in Workers : HoldsClaim(v) =>
        HoldsClaim(v)' /\ wk'[v].on = wk[v].on /\ wk'[v].token = wk[v].token
  BY DEF HoldsClaim
<1>2. ClaimsHeld
  BY DEF RInv, WorkersInv
<1> QED BY <1>1, <1>2, ClaimsHeldKept

\* Time makes no lease later and no claim another.
LEMMA TickStep ==
    ASSUME RInv, [Next]_vars, RuntimeTick
    PROVE  WorkersInv'
<1>1. Tick /\ UNCHANGED <<wk, report, orphans>>
  BY DEF RuntimeTick, Environment
<1>2. ASSUME NEW j \in Jobs
      PROVE  /\ job[j] \in Row /\ job'[j] = IF j \in Inserted THEN Aged(job[j]) ELSE job[j]
             /\ tx[j] # None => tx[j] \in Row /\ tx'[j] = Aged(tx[j])
             /\ tx[j] = None => tx'[j] = None
  BY <1>1 DEF Tick, RInv, TypeOK
<1>3. (\A w \in Workers : WorkerSound(w)') /\ LocksExclusive'
  <2>1. ASSUME NEW w \in Workers, HoldsTx(w)
        PROVE  tx'[wk[w].on] \in {tx[wk[w].on], Aged(tx[wk[w].on])}
    <3>1. wk[w].on \in Jobs
      BY <2>1 DEF RInv, WorkersInv, WorkerSound
    <3> QED BY <1>2, <3>1
  <2> QED BY <1>1, <2>1, OthersStep
<1>4. ClaimsByWorkers'
  <2> SUFFICES ASSUME NEW j \in Jobs, tx'[j] # None, tx'[j].status = "running"
               PROVE  \/ \E v \in Workers : At(v, "claiming")' /\ wk'[v].on = j
                      \/ SameClaim(job'[j], tx'[j])
    BY DEF ClaimsByWorkers
  <2>1. tx[j] # None /\ tx[j] \in Row /\ tx'[j] = Aged(tx[j])
    BY <1>2
  <2>2. /\ tx[j].status = "running" /\ tx'[j].claimed_by = tx[j].claimed_by
        /\ tx'[j].fencing_token = tx[j].fencing_token
        /\ tx'[j].lease_expires_at = Older(tx[j].lease_expires_at)
    BY <2>1, AgedFields
  <2>3. CASE SameClaim(job[j], tx[j])
    <3>1. job'[j] = Aged(job[j]) /\ job[j] \in Row
      BY <1>2, <2>3 DEF SameClaim, Inserted
    <3>2. /\ job'[j].status = job[j].status /\ job'[j].claimed_by = job[j].claimed_by
          /\ job'[j].fencing_token = job[j].fencing_token
          /\ job'[j].lease_expires_at = Older(job[j].lease_expires_at)
      BY <3>1, AgedFields
    <3> QED BY <2>2, <2>3, <3>2 DEF SameClaim
  <2>4. CASE \E v \in Workers : At(v, "claiming") /\ wk[v].on = j
    BY <1>1, <2>4 DEF At
  <2> QED BY <2>1, <2>2, <2>3, <2>4 DEF RInv, WorkersInv, ClaimsByWorkers
<1>5. ClaimsHeld'
  <2>1. ASSUME NEW j \in Jobs, job'[j].status = "running"
        PROVE  /\ job[j].status = "running"
               /\ job'[j].claimed_by = job[j].claimed_by
               /\ job'[j].fencing_token = job[j].fencing_token
               /\ job[j].lease_expires_at < Skew => job'[j].lease_expires_at < Skew
    <3>1. CASE job'[j] = job[j]
      BY <2>1, <3>1
    <3>2. CASE job'[j] = Aged(job[j])
      <4>1. /\ job'[j].status = job[j].status /\ job'[j].claimed_by = job[j].claimed_by
            /\ job'[j].fencing_token = job[j].fencing_token
            /\ job'[j].lease_expires_at = Older(job[j].lease_expires_at)
        BY <1>2, <3>2, AgedFields
      <4>2. job[j].lease_expires_at \in Timer
        BY <1>2, <2>1, <4>1 DEF RInv, IInv, RowConsistent, ClaimConsistent, Row
      <4>3. /\ Older(job[j].lease_expires_at) <= job[j].lease_expires_at
            /\ Older(job[j].lease_expires_at) \in Int /\ job[j].lease_expires_at \in Int
        BY <4>2, OlderType DEF Timer
      <4> QED BY <2>1, <4>1, <4>3, SkewAssumption
    <3> QED BY <1>2, <3>1, <3>2
  <2> QED BY <1>1, <2>1, HeldByOthers
<1> QED
  BY <1>3, <1>4, <1>5 DEF WorkersInv

\* Submitters touch no row that exists.
LEMMA SubmitterKeeps ==
    ASSUME RInv, [Next]_vars, NEW j \in Jobs, SubmitterStep(j)
    PROVE  WorkersInv'
<1>1. UNCHANGED <<wk, report, orphans, tx>>
  BY DEF SubmitterStep, FindIdempotent, Insert, Environment
<1>2. ASSUME NEW k \in Jobs
      PROVE  job'[k] = job[k] \/ (job[k].status = "absent" /\ job'[k].status = "pending")
  <2>1. CASE FindIdempotent(j)
    BY <2>1 DEF FindIdempotent
  <2>2. ASSUME NEW delay \in Delays, Insert(j, delay)
        PROVE  job'[k] = job[k] \/ (job[k].status = "absent" /\ job'[k].status = "pending")
    <3>1. job[j].status = "absent"
      BY <2>2 DEF Insert, RInv, IInv, CallerConsistent
    <3>2. CASE SameKey(j) = {} /\ k = j
      BY <2>2, <3>1, <3>2 DEF Insert, RInv, TypeOK, AbsentRow
    <3>3. CASE ~(SameKey(j) = {} /\ k = j)
      BY <2>2, <3>3 DEF Insert, RInv, TypeOK
    <3> QED BY <3>2, <3>3
  <2> QED BY <2>1, <2>2 DEF SubmitterStep
<1>3. (\A w \in Workers : WorkerSound(w)') /\ LocksExclusive'
  BY <1>1, OthersStep
<1>4. ClaimsByWorkers'
  <2>1. ASSUME NEW k \in Jobs, tx'[k] # None PROVE tx'[k] = tx[k] /\ job'[k] = job[k]
    <3>1. job[k].status # "absent"
      BY <1>1, <2>1 DEF RInv, IInv, TxConsistent, Queued
    <3> QED BY <1>1, <1>2, <3>1
  <2> QED BY <1>1, <2>1, ClaimsByWorkersKept DEF RInv, WorkersInv, At
<1>5. ClaimsHeld'
  BY <1>1, <1>2, HeldByOthers
<1> QED
  BY <1>3, <1>4, <1>5 DEF WorkersInv

\* request_cancel leaves the claim of a running row as it is.
LEMMA CancellerBeginsKeeps ==
    ASSUME RInv, [Next]_vars, NEW j \in Jobs, CancellerBegins(j)
    PROVE  WorkersInv'
<1> DEFINE version == CancelledRow(job[j])
<1>1. UNCHANGED <<wk, report, orphans, job>> /\ Lock(j, version) /\ job[j] \in Row
  BY DEF CancellerBegins, RequestCancel, Lock, RInv, TypeOK
<1>2. /\ version.status = IF job[j].status = "running" THEN "running" ELSE "cancelled"
      /\ version.claimed_by = job[j].claimed_by
      /\ version.fencing_token = job[j].fencing_token
      /\ version.lease_expires_at = job[j].lease_expires_at
  BY <1>1, CancelledRowFields
<1> HIDE DEF version
<1>3. /\ tx[j] = None /\ tx'[j] = version
      /\ \A k \in Jobs \ {j} : tx'[k] = tx[k]
  BY <1>1 DEF Lock, Unlocked, RInv, TypeOK
<1>4. (\A w \in Workers : WorkerSound(w)') /\ LocksExclusive'
  <2>1. ASSUME NEW w \in Workers, HoldsTx(w) PROVE tx'[wk[w].on] = tx[wk[w].on]
    BY <1>3, <2>1 DEF RInv, WorkersInv, WorkerSound
  <2> QED BY <1>1, <2>1, OthersStep
<1>5. ClaimsByWorkers'
  <2> SUFFICES ASSUME NEW k \in Jobs, tx'[k] # None, tx'[k].status = "running"
               PROVE  \/ \E v \in Workers : At(v, "claiming")' /\ wk'[v].on = k
                      \/ SameClaim(job'[k], tx'[k])
    BY DEF ClaimsByWorkers
  <2>1. CASE k = j
    BY <1>1, <1>2, <1>3, <2>1 DEF SameClaim
  <2>2. CASE k # j
    BY <1>1, <1>3, <2>2 DEF RInv, WorkersInv, ClaimsByWorkers, At
  <2> QED BY <2>1, <2>2
<1>6. ClaimsHeld'
  BY <1>1, HeldByOthers
<1> QED
  BY <1>4, <1>5, <1>6 DEF WorkersInv

\* The end of a canceller's transaction, which is nobody else's.
LEMMA CancellerEndsKeeps ==
    ASSUME RInv, [Next]_vars, NEW j \in Jobs, CancellerEnds(j)
    PROVE  WorkersInv'
<1>1. /\ UNCHANGED <<wk, report, orphans>> /\ tx' = [tx EXCEPT ![j] = None] /\ tx[j] # None
      /\ job' = job \/ job' = [job EXCEPT ![j] = tx[j]]
      /\ \A w \in Workers : ~(HoldsTx(w) /\ wk[w].on = j)
  BY DEF CancellerEnds, Commit, Rollback, Environment
<1>2. /\ tx'[j] = None /\ \A k \in Jobs \ {j} : tx'[k] = tx[k] /\ job'[k] = job[k]
      /\ job'[j] \in {job[j], tx[j]}
  BY <1>1 DEF RInv, TypeOK
<1>3. (\A w \in Workers : WorkerSound(w)') /\ LocksExclusive'
  <2>1. ASSUME NEW w \in Workers, HoldsTx(w) PROVE tx'[wk[w].on] = tx[wk[w].on]
    BY <1>1, <1>2, <2>1 DEF RInv, WorkersInv, WorkerSound
  <2> QED BY <1>1, <2>1, OthersStep
<1>4. ClaimsByWorkers'
  <2>1. \A k \in Jobs : tx'[k] # None => tx'[k] = tx[k] /\ job'[k] = job[k]
    BY <1>2
  <2> QED BY <1>1, <2>1, ClaimsByWorkersKept DEF RInv, WorkersInv, At
<1>5. ClaimsHeld'
  <2>1. tx[j].status = "running" => SameClaim(job[j], tx[j])
    <3>1. ~\E v \in Workers : At(v, "claiming") /\ wk[v].on = j
      BY <1>1 DEF At, HoldsTx
    <3> QED BY <1>1, <3>1 DEF RInv, WorkersInv, ClaimsByWorkers
  <2>2. ASSUME NEW k \in Jobs, job'[k].status = "running"
        PROVE  /\ job[k].status = "running"
               /\ job'[k].claimed_by = job[k].claimed_by
               /\ job'[k].fencing_token = job[k].fencing_token
               /\ job'[k].lease_expires_at = job[k].lease_expires_at
    BY <1>2, <2>1, <2>2 DEF SameClaim
  <2> QED BY <1>1, <2>2, HeldByOthers
<1> QED
  BY <1>3, <1>4, <1>5 DEF WorkersInv

-----------------------------------------------------------------------------
(* Every step *)

\* A cycle that ends without an outcome, with no live claim left behind.
LEMMA CycleEnds ==
    ASSUME RInv, NEW w \in Workers, NEW status \in {"idle", "stale"}, EndCycle(w, status),
           QueueUnchanged, UNCHANGED Environment, ~HoldsTx(w), HoldsClaim(w) => Lapsed(w)
    PROVE  [Next]_vars /\ RuntimeTypeOK' /\ WorkersInv'
<1> DEFINE q == [Polling EXCEPT !.at = IF wk[w].stop THEN "down" ELSE "recover",
                                !.stop = wk[w].stop]
           told == [status |-> status, on |-> wk[w].on, attempt |-> wk[w].attempt]
<1>1. wk[w] \in Worker /\ report \in [Workers -> Report]
  BY DEF RInv, RuntimeTypeOK
<1>2. wk' = [wk EXCEPT ![w] = q] /\ report' = [report EXCEPT ![w] = told]
  BY DEF EndCycle, Become
<1>3. q \in Worker /\ q.at \in {"down", "recover"}
  BY <1>1 DEF Worker, Polling
<1>4. told \in Report /\ told.status \notin Ended
  BY <1>1 DEF Report, Ended, Terminal, Worker
<1> HIDE DEF q, told
<1>5. wk' \in [Workers -> Worker]
  BY <1>2, <1>3, Becomes DEF RInv
<1>6. report' \in [Workers -> Report]
      /\ \A v \in Workers : report'[v] = report[v] \/ report'[v].status \notin Ended
  BY <1>1, <1>2, <1>4
<1>7. orphans' = orphans /\ faults' = faults /\ cancels' = cancels
  BY DEF Environment
<1>8. WorkersInv'
  <2>1. q.at \notin InTx /\ q.at \notin WithClaim
    BY <1>3 DEF InTx, WithClaim
  <2> QED BY <1>2, <1>3, <1>6, <1>7, <2>1, QuietStep
<1>9. [Next]_vars
  BY DEF QueueUnchanged, vars
<1>10. RuntimeTypeOK'
  BY <1>5, <1>6, <1>7 DEF RInv, RuntimeTypeOK
<1> QED
  BY <1>8, <1>9, <1>10

\* A step of a worker that only changes its own state, and keeps its claim.
LEMMA WorkerGoesOn ==
    ASSUME RInv, NEW w \in Workers, NEW q \in Worker, wk' = [wk EXCEPT ![w] = q],
           QueueUnchanged, UNCHANGED <<report, Environment>>, ~HoldsTx(w),
           \/ HoldsClaim(w) /\ q.at \in WithClaim /\ SameMemory(wk[w], q)
           \/ ~HoldsClaim(w) /\ q.at \in {"recover", "claim", "down"}
    PROVE  [Next]_vars /\ RuntimeTypeOK' /\ WorkersInv'
<1>1. orphans' = orphans /\ faults' = faults /\ cancels' = cancels /\ report' = report
  BY DEF Environment
<1>2. wk' \in [Workers -> Worker]
  BY Becomes DEF RInv
<1>3. WorkersInv'
  <2>1. /\ q.at \notin InTx
        /\ q.at \in WithClaim => HoldsClaim(w) /\ SameMemory(wk[w], q)
        /\ HoldsClaim(w) => q.at \in WithClaim
    BY DEF InTx, WithClaim
  <2> QED BY <1>1, <2>1, QuietStep
<1>4. [Next]_vars
  BY DEF QueueUnchanged, vars
<1>5. RuntimeTypeOK'
  BY <1>1, <1>2 DEF RInv, RuntimeTypeOK
<1> QED
  BY <1>3, <1>4, <1>5

\* A probe that is answered "authoritative".
LEMMA ProbeAnswered ==
    ASSUME RInv, NEW w \in Workers, NEW d \in Drift, NEW q \in Worker,
           wk' = [wk EXCEPT ![w] = q], HoldsClaim(w), ~HoldsTx(w),
           Heartbeat(w, wk[w].on, wk[w].token, d),
           q.at \in WithClaim, SameMemory(wk[w], q), UNCHANGED <<report, Environment>>
    PROVE  [Next]_vars /\ RuntimeTypeOK' /\ WorkersInv'
<1>1. orphans' = orphans /\ faults' = faults /\ cancels' = cancels /\ report' = report
  BY DEF Environment
<1>2. wk' \in [Workers -> Worker]
  BY Becomes DEF RInv
<1>3. [Next]_vars
  BY ProbeUsesQueue DEF RInv, WorkersInv
<1>4. WorkersInv'
  BY <1>1, <1>3, BeatStep
<1>5. RuntimeTypeOK'
  BY <1>1, <1>2 DEF RInv, RuntimeTypeOK
<1> QED
  BY <1>3, <1>4, <1>5

\* A probe whose answer is that the claim is lost: the lease, if the claim is still
\* the worker's, has run out on the clock that said so.
LEMMA ProbeRefused ==
    ASSUME RInv, NEW w \in Workers, NEW d \in Drift, HoldsClaim(w), ~HoldsTx(w),
           ~OwnsLiveClaim(job[wk[w].on], w, wk[w].token, d),
           EndCycle(w, "stale"), QueueUnchanged, UNCHANGED Environment
    PROVE  [Next]_vars /\ RuntimeTypeOK' /\ WorkersInv'
<1>1. Lapsed(w)
  <2> DEFINE row == job[wk[w].on]
  <2> SUFFICES ASSUME row.status = "running", row.claimed_by = w,
                      row.fencing_token = wk[w].token
               PROVE  row.lease_expires_at < Skew
    BY DEF Lapsed
  <2>1. wk[w].on \in Jobs
    BY DEF RInv, WorkersInv, WorkerSound
  <2>2. row \in Row /\ RowConsistent(wk[w].on, row)
    BY <2>1 DEF RInv, TypeOK, IInv
  <2>3. row.lease_expires_at \in Int /\ row.lease_expires_at # None
    BY <2>2 DEF Row, RowConsistent, ClaimConsistent, Timer
  <2>4. row.lease_expires_at < -d
    BY <2>3 DEF OwnsLiveClaim, NotBefore, Drift
  <2> QED BY <2>3, <2>4, SkewAssumption DEF Drift
<1> QED
  BY <1>1, CycleEnds

\* Moving on with the same claim.
LEMMA SameClaimGoesOn ==
    ASSUME RuntimeTypeOK, NEW w \in Workers, NEW q,
           \/ \E place \in WithClaim : q = [wk[w] EXCEPT !.at = place]
           \/ \E call \in {"complete", "retryable", "fatal", "cancel"} :
                q = [wk[w] EXCEPT !.at = "finalize", !.call = call]
           \/ \E outcome \in {"value", "invalid", "error"} :
                q = [wk[w] EXCEPT !.at = "returned", !.outcome = outcome]
    PROVE  q \in Worker /\ q.at \in WithClaim /\ SameMemory(wk[w], q)
<1>1. wk[w] \in Worker
  BY DEF RuntimeTypeOK
<1> QED
  BY <1>1 DEF Worker, WithClaim, SameMemory

\* A claimed row is running, and its worker's.
LEMMA ClaimedRowHolder ==
    ASSUME NEW row \in Row, NEW w \in Workers, NEW d \in Drift, NEW r,
           r = ClaimedRow(row, w, d)
    PROVE  r \in Row /\ r.status = "running" /\ r.claimed_by = w
<1>1. r \in Row
  BY ClaimedRowFields
<1>2. r.status = "running" /\ r.claimed_by = w
  BY ONLY r = ClaimedRow(row, w, d), row \in Row DEF ClaimedRow, Row
<1> QED BY <1>1, <1>2

\* The poll cycle up to the claim.
LEMMA PollStep ==
    ASSUME RInv, NEW w \in Workers, NEW d \in Drift, Recover(w, d) \/ ClaimNext(w, d)
    PROVE  [Next]_vars /\ RuntimeTypeOK' /\ WorkersInv'
<1>0. wk[w] \in Worker
  BY DEF RInv, RuntimeTypeOK
<1>1. ASSUME NEW j \in Jobs, NEW version \in Row, Lock(j, version), [Next]_vars,
             NEW q, NEW place,
             \/ /\ place = "recovering" /\ At(w, "recover") /\ version.status # "running"
             \/ /\ place = "claiming" /\ At(w, "claim")
                /\ version.status = "running" /\ version.claimed_by = w,
             q = [wk[w] EXCEPT !.at = place, !.on = j],
             wk' = [wk EXCEPT ![w] = q], UNCHANGED <<report, Environment>>
      PROVE  [Next]_vars /\ RuntimeTypeOK' /\ WorkersInv'
  <2>1. q \in Worker /\ q.at = place /\ q.on = j
    BY <1>0, <1>1 DEF Worker
  <2>2. ~HoldsClaim(w) /\ ~HoldsTx(w)
    BY <1>1 DEF At, HoldsClaim, HoldsTx
  <2>3. orphans' = orphans /\ faults' = faults /\ cancels' = cancels /\ report' = report
    BY <1>1 DEF Environment
  <2>4. WorkersInv'
    BY <1>1, <2>1, <2>2, <2>3, LockStep
  <2>5. wk' \in [Workers -> Worker]
    BY <1>1, <2>1, Becomes DEF RInv
  <2> QED BY <1>1, <2>3, <2>4, <2>5 DEF RInv, RuntimeTypeOK
<1>2. ASSUME Recover(w, d) PROVE [Next]_vars /\ RuntimeTypeOK' /\ WorkersInv'
  <2>1. ASSUME NEW j \in Jobs, RecoverExpired(j, d),
               Become(w, [wk[w] EXCEPT !.at = "recovering", !.on = j])
        PROVE  [Next]_vars /\ RuntimeTypeOK' /\ WorkersInv'
    <3> DEFINE version == RecoveredRow(job[j])
    <3>1. Lock(j, version) /\ At(w, "recover") /\ UNCHANGED <<report, Environment>>
      BY <1>2, <2>1 DEF Recover, RecoverExpired
    <3>2. version \in Row /\ version.status # "running"
      <4>1. job[j] \in Row /\ RowConsistent(j, job[j])
        BY DEF RInv, TypeOK, IInv
      <4> QED BY <4>1, RecoveredRowFields, RecoverLater DEF Terminal
    <3>3. [Next]_vars
      BY <2>1 DEF Next, JobStep
    <3> HIDE DEF version
    <3> QED BY <1>1, <2>1, <3>1, <3>2, <3>3 DEF Become
  <2>2. ASSUME Goto(w, "claim"), QueueUnchanged
        PROVE  [Next]_vars /\ RuntimeTypeOK' /\ WorkersInv'
    <3> DEFINE q == [wk[w] EXCEPT !.at = "claim"]
    <3>1. q \in Worker /\ q.at = "claim" /\ wk' = [wk EXCEPT ![w] = q]
      BY <1>0, <2>2 DEF Worker, Goto, Become
    <3>2. ~HoldsClaim(w) /\ ~HoldsTx(w) /\ UNCHANGED <<report, Environment>>
      BY <1>2 DEF Recover, At, HoldsClaim, HoldsTx
    <3> HIDE DEF q
    <3> QED BY <2>2, <3>1, <3>2, WorkerGoesOn
  <2> QED BY <1>2, <2>1, <2>2 DEF Recover
<1>3. ASSUME ClaimNext(w, d) PROVE [Next]_vars /\ RuntimeTypeOK' /\ WorkersInv'
  <2>1. ASSUME NEW j \in Jobs, Claim(w, j, d), UNCHANGED report,
               Become(w, [wk[w] EXCEPT !.at = "claiming", !.on = j])
        PROVE  [Next]_vars /\ RuntimeTypeOK' /\ WorkersInv'
    <3> DEFINE version == ClaimedRow(job[j], w, d)
    <3>1. Lock(j, version) /\ At(w, "claim") /\ UNCHANGED <<report, Environment>>
      BY <1>3, <2>1 DEF ClaimNext, Claim
    <3>2. version \in Row /\ version.status = "running" /\ version.claimed_by = w
      <4>1. job[j] \in Row
        BY DEF RInv, TypeOK
      <4> QED BY <4>1, ClaimedRowHolder
    <3>3. [Next]_vars
      BY <2>1 DEF Next, JobStep
    <3> HIDE DEF version
    <3> QED BY <1>1, <2>1, <3>1, <3>2, <3>3 DEF Become
  <2>2. ASSUME EndCycle(w, "idle"), QueueUnchanged
        PROVE  [Next]_vars /\ RuntimeTypeOK' /\ WorkersInv'
    <3>1. ~HoldsClaim(w) /\ ~HoldsTx(w) /\ UNCHANGED Environment
      BY <1>3 DEF ClaimNext, At, HoldsClaim, HoldsTx
    <3> QED BY <2>2, <3>1, CycleEnds
  <2> QED BY <1>3, <2>1, <2>2 DEF ClaimNext
<1> QED BY <1>2, <1>3

\* Between the claim and its finalization.
LEMMA ClaimedStep ==
    ASSUME RInv, NEW w \in Workers, NEW d \in Drift,
           CheckClaim(w, d) \/ Beat(w, d) \/ Return(w, d)
    PROVE  [Next]_vars /\ RuntimeTypeOK' /\ WorkersInv'
<1>1. HoldsClaim(w) /\ ~HoldsTx(w) /\ RuntimeTypeOK
  BY DEF CheckClaim, Beat, Return, At, HoldsClaim, HoldsTx, RInv
<1>2. ASSUME ~OwnsLiveClaim(job[wk[w].on], w, wk[w].token, d),
             EndCycle(w, "stale"), QueueUnchanged, UNCHANGED Environment
      PROVE  [Next]_vars /\ RuntimeTypeOK' /\ WorkersInv'
  BY <1>1, <1>2, ProbeRefused
<1>3. ASSUME Heartbeat(w, wk[w].on, wk[w].token, d), UNCHANGED <<report, Environment>>,
             \/ \E place \in WithClaim : Goto(w, place)
             \/ \E call \in {"complete", "retryable", "fatal", "cancel"} : Decide(w, call)
      PROVE  [Next]_vars /\ RuntimeTypeOK' /\ WorkersInv'
  <2>1. PICK q : /\ wk' = [wk EXCEPT ![w] = q]
                 /\ \/ \E place \in WithClaim : q = [wk[w] EXCEPT !.at = place]
                    \/ \E call \in {"complete", "retryable", "fatal", "cancel"} :
                         q = [wk[w] EXCEPT !.at = "finalize", !.call = call]
    BY <1>3 DEF Goto, Decide, Become
  <2>2. q \in Worker /\ q.at \in WithClaim /\ SameMemory(wk[w], q)
    BY <1>1, <2>1, SameClaimGoesOn
  <2> QED BY <1>1, <1>3, <2>1, <2>2, ProbeAnswered
<1>4. CASE CheckClaim(w, d)
  <2>1. Start(w) => \/ \E place \in WithClaim : Goto(w, place)
                    \/ \E call \in {"complete", "retryable", "fatal", "cancel"} : Decide(w, call)
    BY DEF Start, WithClaim
  <2> QED BY <1>2, <1>3, <1>4, <2>1 DEF CheckClaim, Probe
<1>5. CASE Beat(w, d)
  <2>1. Resume(w) => \E place \in WithClaim : Goto(w, place)
    BY DEF Resume, WithClaim
  <2> QED BY <1>2, <1>3, <1>5, <2>1 DEF Beat, Probe
<1>6. CASE Return(w, d)
  <2>1. CASE Decide(w, "retryable") /\ QueueUnchanged /\ UNCHANGED <<report, Environment>>
    <3> DEFINE q == [wk[w] EXCEPT !.at = "finalize", !.call = "retryable"]
    <3>1. wk' = [wk EXCEPT ![w] = q]
      BY <2>1 DEF Decide, Become
    <3>2. q \in Worker /\ q.at \in WithClaim /\ SameMemory(wk[w], q)
      BY <1>1, SameClaimGoesOn
    <3> HIDE DEF q
    <3> QED BY <1>1, <2>1, <3>1, <3>2, WorkerGoesOn
  <2>2. Settle(w) => \E call \in {"complete", "retryable", "fatal", "cancel"} : Decide(w, call)
    BY DEF Settle
  <2> QED BY <1>2, <1>3, <1>6, <2>1, <2>2 DEF Return, Probe
<1> QED BY <1>4, <1>5, <1>6

\* complete, fail and cancel_claim.
LEMMA FinalizeStep ==
    ASSUME RInv, NEW w \in Workers, NEW d0 \in Drift, NEW d \in Drift, Finalize(w, d0, d)
    PROVE  [Next]_vars /\ RuntimeTypeOK' /\ WorkersInv'
<1> DEFINE j == wk[w].on
           n == wk[w].attempt
           token == wk[w].token
           call == wk[w].call
<1>0. HoldsClaim(w) /\ ~HoldsTx(w) /\ wk[w] \in Worker /\ WorkerSound(w) /\ At(w, "finalize")
  BY DEF Finalize, At, HoldsClaim, HoldsTx, RInv, RuntimeTypeOK, WorkersInv
<1>1. CASE ~OwnsLiveClaim(job[j], w, token, d) /\ EndCycle(w, "stale")
           /\ QueueUnchanged /\ UNCHANGED Environment
  BY <1>0, <1>1, ProbeRefused
<1>2. CASE /\ \/ call = "complete" /\ \E value \in {n, None} : Complete(w, j, n, token, value, d)
              \/ call = "cancel" /\ CancelClaim(w, j, n, token, d)
              \/ /\ call \in {"retryable", "fatal"}
                 /\ Fail(w, j, n, token, call = "retryable", DelayFor(n), d0, d)
           /\ Goto(w, "committing") /\ UNCHANGED <<report, Environment>>
  <2>1. /\ Next
        /\ \E requested \in Requested, value \in {n, None}, delay \in Nat :
             FinalizeClaim(w, j, n, token, requested, value, delay, d)
    <3> HIDE DEF j, n, token, call
    <3> QED BY <1>0, <1>2, FinalizeUsesQueue DEF RInv, j, n, token, call
  <2>2. PICK requested \in Requested, value \in {n, None}, delay \in Nat :
             FinalizeClaim(w, j, n, token, requested, value, delay, d)
    BY <2>1
  <2> DEFINE version == FinalizedRow(job[j], n, requested, value, delay - d)
             q == [wk[w] EXCEPT !.at = "committing"]
  <2>3. Lock(j, version) /\ OwnsLiveClaim(job[j], w, token, d)
    BY <2>2 DEF FinalizeClaim
  <2>4. j \in Jobs /\ n \in 1..Len(job[j].ledger) /\ job[j].ledger[n].fencing_token = token
    BY <1>0 DEF WorkerSound, Envelope
  <2>5. job[j] \in Row /\ RowConsistent(j, job[j]) /\ delay - d \in Timer
    BY <2>4, SkewAssumption DEF RInv, TypeOK, IInv, Drift, Timer, Floor
  <2>6. n = Len(job[j].ledger) /\ job[j].status = "running" /\ job[j].claimed_by = w
    BY <2>3, <2>4, EnvelopeCurrent DEF RInv, OwnsLiveClaim
  <2>7. version \in Row /\ version.status \in Ended /\ Reported(version, w, version.status, n)
    <3> HIDE DEF j, n
    <3> QED BY <2>4, <2>5, <2>6, FinalizeLater
  <2>8. /\ q \in Worker /\ q.at = "committing" /\ q.on = j /\ q.attempt = n
        /\ SameMemory(wk[w], q) /\ wk' = [wk EXCEPT ![w] = q]
    BY <1>0, <1>2 DEF Worker, SameMemory, Goto, Become
  <2>9. orphans' = orphans /\ faults' = faults /\ cancels' = cancels /\ report' = report
    BY <1>2 DEF Environment
  <2> HIDE DEF version, q
  <2>10. WorkersInv'
    <3>1. Reported(version, w, version.status, q.attempt)
      BY <2>7, <2>8
    <3> QED BY <1>0, <2>1, <2>3, <2>4, <2>7, <2>8, <2>9, <3>1, LockStep
  <2>11. wk' \in [Workers -> Worker]
    BY <2>8, Becomes DEF RInv
  <2> QED BY <2>1, <2>9, <2>10, <2>11 DEF RInv, RuntimeTypeOK
<1> QED BY <1>1, <1>2 DEF Finalize

\* The handler, a request to stop, the end of the loop and a new process.
LEMMA LocalStep ==
    ASSUME RInv, NEW w \in Workers, HandlerStep(w) \/ Stop(w) \/ Exit(w) \/ Boot(w)
    PROVE  [Next]_vars /\ RuntimeTypeOK' /\ WorkersInv'
<1>0. wk[w] \in Worker /\ RuntimeTypeOK
  BY DEF RInv, RuntimeTypeOK
<1>1. CASE HandlerStep(w)
  <2>1. /\ HoldsClaim(w) /\ ~HoldsTx(w)
        /\ QueueUnchanged /\ UNCHANGED <<report, Environment>>
    BY <1>1 DEF HandlerStep, HandlerEnds, GiveUp, At, HoldsClaim, HoldsTx
  <2>2. PICK q : /\ wk' = [wk EXCEPT ![w] = q]
                 /\ \/ \E outcome \in {"value", "invalid", "error"} :
                         q = [wk[w] EXCEPT !.at = "returned", !.outcome = outcome]
                    \/ \E call \in {"complete", "retryable", "fatal", "cancel"} :
                         q = [wk[w] EXCEPT !.at = "finalize", !.call = call]
    BY <1>1 DEF HandlerStep, HandlerEnds, GiveUp, Decide, Become
  <2>3. q \in Worker /\ q.at \in WithClaim /\ SameMemory(wk[w], q)
    BY <1>0, <2>2, SameClaimGoesOn
  <2> QED BY <2>1, <2>2, <2>3, WorkerGoesOn
<1>2. CASE Stop(w)
  <2> DEFINE q == [wk[w] EXCEPT !.stop = TRUE]
  <2>1. /\ q \in Worker /\ q.at = wk[w].at /\ SameMemory(wk[w], q)
        /\ wk' = [wk EXCEPT ![w] = q]
    BY <1>0, <1>2 DEF Worker, SameMemory, Stop, Become
  <2>2. /\ QueueUnchanged /\ report' = report /\ cancels' = cancels /\ orphans' = orphans
        /\ faults < MaxFaults /\ faults' = faults + 1
    BY <1>2 DEF Stop
  <2> HIDE DEF q
  <2>3. WorkersInv'
    BY <2>1, <2>2, QuietStep
  <2>4. wk' \in [Workers -> Worker]
    BY <1>0, <2>1, Becomes
  <2>5. faults' \in 0..MaxFaults
    BY <1>0, <2>2, RuntimeAssumption DEF RuntimeTypeOK
  <2>6. [Next]_vars
    BY <2>2 DEF QueueUnchanged, vars
  <2> QED BY <1>0, <2>2, <2>3, <2>4, <2>5, <2>6 DEF RuntimeTypeOK
<1>3. CASE Exit(w)
  <2> DEFINE q == [wk[w] EXCEPT !.at = "down"]
  <2>1. q \in Worker /\ q.at = "down" /\ wk' = [wk EXCEPT ![w] = q]
    BY <1>0, <1>3 DEF Worker, Exit, Goto, Become
  <2>2. /\ ~HoldsClaim(w) /\ ~HoldsTx(w)
        /\ QueueUnchanged /\ UNCHANGED <<report, Environment>>
    BY <1>3 DEF Exit, At, HoldsClaim, HoldsTx
  <2> HIDE DEF q
  <2> QED BY <2>1, <2>2, WorkerGoesOn
<1>4. CASE Boot(w)
  <2>1. Polling \in Worker /\ Polling.at = "recover" /\ wk' = [wk EXCEPT ![w] = Polling]
    BY <1>4 DEF Worker, Polling, Boot, Become
  <2>2. /\ ~HoldsClaim(w) /\ ~HoldsTx(w)
        /\ QueueUnchanged /\ UNCHANGED <<report, Environment>>
    BY <1>4 DEF Boot, At, HoldsClaim, HoldsTx
  <2> QED BY <2>1, <2>2, WorkerGoesOn
<1> QED BY <1>1, <1>2, <1>3, <1>4

\* A crash, in a transaction or not.
LEMMA CrashKeeps ==
    ASSUME RInv, NEW w \in Workers, Crash(w)
    PROVE  [Next]_vars /\ RuntimeTypeOK' /\ WorkersInv'
<1> DEFINE q == [Polling EXCEPT !.at = "down"]
           claim == <<wk[w].on, wk[w].token>>
<1>0. wk[w] \in Worker /\ RuntimeTypeOK /\ WorkerSound(w)
  BY DEF RInv, RuntimeTypeOK, WorkersInv
<1>1. q \in Worker /\ q.at = "down" /\ wk' = [wk EXCEPT ![w] = q]
  BY DEF Worker, Polling, Crash, Become
<1>2. /\ report' = report /\ cancels' = cancels
      /\ faults < MaxFaults /\ faults' = faults + 1
      /\ orphans' = orphans \union (IF HoldsClaim(w) THEN {claim} ELSE {})
  BY DEF Crash
<1>3. HoldsClaim(w) => claim \in Jobs \X Nat
  BY <1>0 DEF WorkerSound, Worker
<1> HIDE DEF claim
<1>4. /\ orphans' \subseteq Jobs \X Nat /\ orphans \subseteq orphans'
      /\ HoldsClaim(w) => claim \in orphans'
  BY <1>0, <1>2, <1>3 DEF RuntimeTypeOK
<1>5. faults' \in 0..MaxFaults
  BY <1>0, <1>2, RuntimeAssumption DEF RuntimeTypeOK
<1> HIDE DEF q
<1>6. RuntimeTypeOK'
  <2>1. wk' \in [Workers -> Worker]
    BY <1>0, <1>1, Becomes
  <2> QED BY <1>0, <1>2, <1>4, <1>5, <2>1 DEF RuntimeTypeOK
<1>7. CASE HoldsTx(w)
  <2>1. Rollback(wk[w].on) /\ wk[w].on \in Jobs
    BY <1>0, <1>7 DEF Crash, WorkerSound
  <2>2. [Next]_vars
    BY <2>1 DEF Next, JobStep
  <2>3. WorkersInv'
    BY <1>1, <1>2, <1>4, <1>7, <2>1, <2>2, CrashStep DEF claim
  <2> QED BY <1>6, <2>2, <2>3
<1>8. CASE ~HoldsTx(w)
  <2>1. QueueUnchanged
    BY <1>8 DEF Crash
  <2>2. [Next]_vars
    BY <2>1 DEF QueueUnchanged, vars
  <2>3. WorkersInv'
    <3>1. q.at \notin InTx /\ q.at \notin WithClaim
      BY <1>1 DEF InTx, WithClaim
    <3> QED BY <1>1, <1>2, <1>4, <1>8, <2>1, <3>1, QuietStep DEF claim
  <2> QED BY <1>6, <2>2, <2>3
<1> QED BY <1>7, <1>8

\* The commits of a worker's transactions.
LEMMA CommitKeeps ==
    ASSUME RInv, NEW w \in Workers, RecoverCommit(w) \/ ClaimCommit(w) \/ FinalizeCommit(w)
    PROVE  [Next]_vars /\ RuntimeTypeOK' /\ WorkersInv'
<1>0. wk[w] \in Worker /\ RuntimeTypeOK /\ HoldsTx(w)
  BY DEF RInv, RuntimeTypeOK, RecoverCommit, ClaimCommit, FinalizeCommit, At, HoldsTx
<1>1. wk[w].on \in Jobs /\ Commit(wk[w].on)
  BY <1>0 DEF RInv, WorkersInv, WorkerSound, RecoverCommit, ClaimCommit, FinalizeCommit
<1>2. [Next]_vars
  BY <1>1 DEF Next, JobStep
<1>3. CASE RecoverCommit(w)
  <2> DEFINE q == [wk[w] EXCEPT !.at = "recover", !.on = None]
  <2>1. /\ q \in Worker /\ wk' = [wk EXCEPT ![w] = q]
        /\ UNCHANGED <<report, faults, cancels, orphans>>
    BY <1>0, <1>3 DEF Worker, RecoverCommit, Become, Environment
  <2> HIDE DEF q
  <2>2. wk' \in [Workers -> Worker]
    BY <1>0, <2>1, Becomes
  <2>3. RuntimeTypeOK'
    BY <1>0, <2>1, <2>2 DEF RuntimeTypeOK
  <2> QED BY <1>2, <1>3, <2>3, RecoverCommitStep
<1>4. CASE ClaimCommit(w)
  <2>1. wk' \in [Workers -> Worker] /\ WorkersInv'
    BY <1>2, <1>4, ClaimCommitStep
  <2>2. UNCHANGED <<report, faults, cancels, orphans>>
    BY <1>4 DEF ClaimCommit, Environment
  <2> QED BY <1>0, <1>2, <2>1, <2>2 DEF RuntimeTypeOK
<1>5. CASE FinalizeCommit(w)
  BY <1>2, <1>5, FinalizeCommitStep
<1> QED BY <1>3, <1>4, <1>5

\* Submitters, cancellers and time.
LEMMA EnvironmentKeeps ==
    ASSUME RInv,
           \/ RuntimeTick
           \/ \E j \in Jobs : SubmitterStep(j) \/ CancellerBegins(j) \/ CancellerEnds(j)
    PROVE  [Next]_vars /\ RuntimeTypeOK' /\ WorkersInv'
<1>0. RuntimeTypeOK
  BY DEF RInv
<1>1. CASE RuntimeTick
  <2>1. [Next]_vars /\ UNCHANGED <<wk, report, faults, cancels, orphans>>
    BY <1>1 DEF RuntimeTick, Next, Environment
  <2> QED BY <1>0, <1>1, <2>1, TickStep DEF RuntimeTypeOK
<1>2. ASSUME NEW j \in Jobs, SubmitterStep(j)
      PROVE  [Next]_vars /\ RuntimeTypeOK' /\ WorkersInv'
  <2>1. [Next]_vars /\ UNCHANGED <<wk, report, faults, cancels, orphans>>
    BY <1>2 DEF SubmitterStep, Next, JobStep, Environment
  <2> QED BY <1>0, <1>2, <2>1, SubmitterKeeps DEF RuntimeTypeOK
<1>3. ASSUME NEW j \in Jobs, CancellerBegins(j)
      PROVE  [Next]_vars /\ RuntimeTypeOK' /\ WorkersInv'
  <2>1. [Next]_vars /\ UNCHANGED <<wk, report, faults, orphans>>
    BY <1>3 DEF CancellerBegins, Next, JobStep
  <2>2. cancels' \in 0..MaxCancels
    BY <1>0, <1>3, RuntimeAssumption DEF CancellerBegins, RuntimeTypeOK
  <2> QED BY <1>0, <1>3, <2>1, <2>2, CancellerBeginsKeeps DEF RuntimeTypeOK
<1>4. ASSUME NEW j \in Jobs, CancellerEnds(j)
      PROVE  [Next]_vars /\ RuntimeTypeOK' /\ WorkersInv'
  <2>1. [Next]_vars /\ UNCHANGED <<wk, report, faults, cancels, orphans>>
    BY <1>4 DEF CancellerEnds, Next, JobStep, Environment
  <2> QED BY <1>0, <1>4, <2>1, CancellerEndsKeeps DEF RuntimeTypeOK
<1> QED BY <1>1, <1>2, <1>3, <1>4

\* Every step of the runtime is a step of the queue, and keeps the invariant.
LEMMA RuntimeStep ==
    ASSUME RInv, [RuntimeNext]_runtimeVars
    PROVE  [Next]_vars /\ RInv'
<1>1. [Next]_vars /\ RuntimeTypeOK' /\ WorkersInv'
  <2>1. ASSUME NEW w \in Workers, WorkerStep(w)
        PROVE  [Next]_vars /\ RuntimeTypeOK' /\ WorkersInv'
    BY <2>1, PollStep, ClaimedStep, FinalizeStep, CommitKeeps, LocalStep DEF WorkerStep
  <2>2. ASSUME NEW w \in Workers, HandlerStep(w) \/ Stop(w) \/ Boot(w)
        PROVE  [Next]_vars /\ RuntimeTypeOK' /\ WorkersInv'
    BY <2>2, LocalStep
  <2>3. ASSUME NEW w \in Workers, Crash(w)
        PROVE  [Next]_vars /\ RuntimeTypeOK' /\ WorkersInv'
    BY <2>3, CrashKeeps
  <2>4. CASE UNCHANGED runtimeVars
    <3>1. UNCHANGED <<job, tx, caller, wk, report, faults, cancels, orphans>>
      BY <2>4 DEF runtimeVars
    <3>2. [Next]_vars /\ RuntimeTypeOK'
      BY <3>1 DEF vars, RInv, RuntimeTypeOK
    <3>3. (\A w \in Workers : WorkerSound(w)') /\ LocksExclusive'
      BY <3>1, <3>2, OthersStep
    <3>4. ClaimsByWorkers'
      BY <3>1, ClaimsByWorkersKept DEF RInv, WorkersInv, At
    <3>5. ClaimsHeld'
      BY <3>1, HeldByOthers
    <3> QED BY <3>2, <3>3, <3>4, <3>5 DEF WorkersInv
  <2>5. CASE RuntimeNext
    BY <2>1, <2>2, <2>3, <2>5, EnvironmentKeeps DEF RuntimeNext
  <2> QED BY <2>4, <2>5
<1>2. TypeOK' /\ IInv' /\ Histories'
  BY <1>1, TypeStep, StepConsistent, HistoriesStep DEF RInv
<1> QED
  BY <1>1, <1>2 DEF RInv

\* The invariant holds of the initial state.
LEMMA RuntimeStarts ==
    ASSUME RuntimeInit
    PROVE  RInv
<1>1. TypeOK /\ IInv
  BY AbsentRowType, InitConsistent DEF RuntimeInit, Init, TypeOK
<1>2. \A j \in Jobs : tx[j] = None /\ job[j].status = "absent"
  BY DEF RuntimeInit, Init, AbsentRow
<1>3. \A w \in Workers : wk[w] = Polling /\ report[w].status = "none"
  BY DEF RuntimeInit
<1>4. RuntimeTypeOK
  <2>1. Polling \in Worker /\ [status |-> "none", on |-> None, attempt |-> 0] \in Report
    BY DEF Polling, Worker, Report
  <2> QED BY <2>1, RuntimeAssumption DEF RuntimeInit, RuntimeTypeOK
<1>5. \A w \in Workers : ~HoldsTx(w) /\ ~HoldsClaim(w) /\ WorkerSound(w)
  BY <1>3 DEF HoldsTx, HoldsClaim, At, WorkerSound, Polling, Ended, Terminal
<1>6. WorkersInv /\ Histories
  BY <1>2, <1>5 DEF WorkersInv, LocksExclusive, ClaimsByWorkers, ClaimsHeld, Histories
<1> QED
  BY <1>1, <1>4, <1>6 DEF RInv

-----------------------------------------------------------------------------
(* Theorems *)

\* The workers' memory, the queue and its transactions stay consistent through
\* every interleaving of polls, heartbeats, finalizations, stops and crashes.
THEOREM RuntimeInvariance == RuntimeSpec => []RInv
<1>1. RuntimeInit => RInv
  BY RuntimeStarts
<1>2. RInv /\ [RuntimeNext]_runtimeVars => RInv'
  BY RuntimeStep
<1> QED
  BY <1>1, <1>2, PTL DEF RuntimeSpec

\* The worker processes use the queue as its clients may: every step of run_once is
\* a step of JobQueue or none, so the runtime implements its specification.
THEOREM WorkersUseQueue == RuntimeSpec => UsesQueue
<1>1. RuntimeInit => Init
  BY DEF RuntimeInit
<1>2. RInv /\ [RuntimeNext]_runtimeVars => [Next]_vars
  BY RuntimeStep
<1> QED
  BY <1>1, <1>2, RuntimeInvariance, PTL DEF RuntimeSpec, UsesQueue, Spec

\* What a worker reports of an attempt is what the database holds of it, however
\* late the report and whatever has happened to the job since.
THEOREM ReportsAreTruthful == RuntimeSpec => []ReportTruthful
<1>1. ASSUME RInv PROVE ReportTruthful
  <2> SUFFICES ASSUME NEW w \in Workers, report[w].status \in Ended
               PROVE  LET r == report[w]
                          row == job[r.on]
                      IN  /\ r.attempt \in DOMAIN row.ledger
                          /\ row.ledger[r.attempt].worker_id = w
                          /\ row.ledger[r.attempt].status =
                                (IF r.status = "retry_wait" THEN "failed" ELSE r.status)
                          /\ \E i \in DOMAIN row.events :
                                row.events[i] = [type |-> r.status, attempt |-> r.attempt]
    BY DEF ReportTruthful, Ended
  <2> DEFINE row == job[report[w].on]
  <2>1. report[w].on \in Jobs /\ Reported(row, w, report[w].status, report[w].attempt)
    BY <1>1 DEF RInv, WorkersInv, WorkerSound
  <2>2. DOMAIN row.ledger = 1..Len(row.ledger) /\ DOMAIN row.events = 1..Len(row.events)
    BY <1>1, <2>1 DEF RInv, TypeOK, Row
  <2> QED BY <2>1, <2>2 DEF Reported, Tells
<1> QED
  BY <1>1, RuntimeInvariance, PTL

\* A worker that stops on request leaves no claim behind that others would have to
\* wait for.
THEOREM StopsAreGraceful == RuntimeSpec => []GracefulStopReleases
<1>1. ASSUME RInv PROVE GracefulStopReleases
  <2> SUFFICES ASSUME NEW w \in Workers, NEW j \in Jobs, At(w, "down"),
                      job[j].status = "running", job[j].claimed_by = w,
                      <<j, job[j].fencing_token>> \notin orphans
               PROVE  job[j].lease_expires_at < Skew
    BY DEF GracefulStopReleases
  <2>1. ~HoldsClaimOf(w, j, job[j].fencing_token)
    BY DEF HoldsClaimOf, HoldsClaim, At
  <2> QED BY <1>1, <2>1 DEF RInv, WorkersInv, ClaimsHeld
<1> QED
  BY <1>1, RuntimeInvariance, PTL
=============================================================================
