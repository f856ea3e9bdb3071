------------------------------ MODULE JobQueue ------------------------------
(***************************************************************************)
(* The durable job queue of platform/jobs/postgres/queue.py: a table of    *)
(* job rows, the ledger of their execution attempts and the events that    *)
(* every outcome writes to the transactional outbox.                       *)
(*                                                                         *)
(* The clients are as general as the interface allows: anyone may submit,  *)
(* schedule or cancel, and the holder of any envelope a claim ever         *)
(* returned may heartbeat, complete, fail or give it up at any later time, *)
(* so late, duplicated and reordered calls are all behaviours.  What the   *)
(* worker process really does with an envelope is module WorkerRuntime.    *)
(*                                                                         *)
(* TIME.  Every instant stored in a row is kept as its distance from the   *)
(* present: lease_expires_at = 2 means "two ticks from now", a negative    *)
(* value lies in the past, and Tick ages them all.  Timers stop at Floor,  *)
(* below which no comparison of the code can tell two values apart.  A     *)
(* caller reads its own clock before it waits for a row, and hosts'        *)
(* clocks disagree; a reading is the true time minus some d in Drift, so   *)
(* the code's  x < now  is  x < -d  here.                                  *)
(*                                                                         *)
(* TRANSACTIONS.  A writer locks the row (FOR UPDATE), computes its new    *)
(* version and commits it, or rolls back when it fails or its process      *)
(* dies.  tx[j] is the uncommitted version of row j, ledger and outbox     *)
(* records included; a row with one is locked.                             *)
(***************************************************************************)
EXTENDS Integers, Sequences, FiniteSets

CONSTANTS
    Jobs,         \* submissions, each with the id EntityId.new() gives it
    Workers,      \* worker ids
    None,         \* SQL NULL
    MaxAttempts,  \* max_attempts of each submission
    Priority,     \* priority of each submission
    Deadline,     \* deadline of each submission: a distance in time or None
    Key,          \* idempotency_key of each submission, or None
    LeaseLen,     \* lease_s, in ticks
    Delays,       \* the delays callers of schedule and fail choose from
    Skew          \* bound on the error of a clock reading, in ticks

Drift == (-Skew)..Skew
Floor == -Skew - 1
Timer == {t \in Int : t >= Floor}

ASSUME WorkersAssumption == None \notin Workers
ASSUME TimersAssumption == None \notin Int
ASSUME JobsAssumption == None \notin Jobs /\ IsFiniteSet(Jobs)
ASSUME MaxAttemptsAssumption == MaxAttempts \in [Jobs -> Nat \ {0}]
ASSUME PriorityAssumption == Priority \in [Jobs -> Int]
ASSUME DeadlineAssumption == Deadline \in [Jobs -> Timer \union {None}]
ASSUME LeaseAssumption == LeaseLen \in Nat \ {0}
ASSUME DelaysAssumption == Delays \subseteq Nat
ASSUME SkewAssumption == Skew \in Nat

VARIABLES
    job,      \* the committed row of each submission, absent before its insert
    tx,       \* the uncommitted version of a locked row, or None
    caller    \* each submission's call of _insert: how far it is, its receipt

vars == <<job, tx, caller>>

-----------------------------------------------------------------------------

Queued == {"pending", "retry_wait"}
Terminal == {"succeeded", "failed", "cancelled"}
Status == {"absent", "running"} \union Queued \union Terminal

\* platform_job_attempts: row n of a job's ledger is its attempt n.
Attempt == [worker_id : Workers,
            fencing_token : Nat \ {0},
            status : {"running", "abandoned"} \union Terminal]

\* An event as its deduplication key identifies it: the outcome, and the
\* attempt whose finalization wrote it (None for a cancellation of a queued job).
Event == [type : {"retry_wait"} \union Terminal, attempt : Nat \union {None}]

Row == [status : Status,
        position : Nat,
        attempt_count : Nat,
        lease_generation : Nat,
        claimed_by : Workers \union {None},
        fencing_token : Nat \union {None},
        lease_expires_at : Timer \union {None},
        available_at : Timer,
        deadline : Timer \union {None},
        cancellation_requested : BOOLEAN,
        result : Nat \union {None},   \* the attempt whose result is stored
        ledger : Seq(Attempt),
        events : Seq(Event)]

AbsentRow == [status |-> "absent", position |-> 0, attempt_count |-> 0,
              lease_generation |-> 0, claimed_by |-> None,
              fencing_token |-> None, lease_expires_at |-> None,
              available_at |-> 0, deadline |-> None,
              cancellation_requested |-> FALSE, result |-> None,
              ledger |-> <<>>, events |-> <<>>]

Inserted == {j \in Jobs : job[j].status # "absent"}

\* A NULL timer is below and above nothing, as in SQL.
Before(timer, d) == timer # None /\ timer < -d
NotBefore(timer, d) == timer # None /\ timer >= -d

-----------------------------------------------------------------------------
(* Submission *)

Init ==
    /\ job = [j \in Jobs |-> AbsentRow]
    /\ tx = [j \in Jobs |-> None]
    /\ caller = [j \in Jobs |-> [at |-> "start", receipt |-> None]]

SameKey(j) == {k \in Inserted : Key[k] = Key[j] /\ Key[j] # None}

\* _find_idempotent before the insert: a hit is the receipt.
FindIdempotent(j) ==
    /\ caller[j].at = "start"
    /\ caller' = [caller EXCEPT ![j] =
          IF SameKey(j) = {} THEN [at |-> "missed", receipt |-> None]
          ELSE [at |-> "done", receipt |-> CHOOSE k \in SameKey(j) : TRUE]]
    /\ UNCHANGED <<job, tx>>

\* Mutant of Insert: no unique constraint on idempotency_key.
InsertDuplicate(j, delay) ==
    /\ caller[j].at = "missed"
    /\ job' = [job EXCEPT ![j] = [AbsentRow EXCEPT !.status = "pending",
                                                  !.available_at = delay]]
    /\ caller' = [caller EXCEPT ![j] = [at |-> "done", receipt |-> j]]
    /\ UNCHANGED tx

\* The insert itself, for submit (delay = 0) and schedule, whose run_at may not
\* lie after the deadline.  Another caller may have inserted the key since it
\* was looked for: the unique constraint then fails the insert, and the key is
\* looked for again.
Insert(j, delay) ==
    /\ caller[j].at = "missed"
    /\ ~(delay > 0 /\ Deadline[j] # None /\ delay > Deadline[j])
    /\ IF SameKey(j) = {}
       THEN /\ job' = [job EXCEPT ![j] =
                  [AbsentRow EXCEPT !.status = "pending",
                                    !.position = Cardinality(Inserted) + 1,
                                    !.available_at = delay,
                                    !.deadline = Deadline[j]]]
            /\ caller' = [caller EXCEPT ![j] = [at |-> "done", receipt |-> j]]
       ELSE /\ caller' = [caller EXCEPT ![j] =
                  [at |-> "done", receipt |-> CHOOSE k \in SameKey(j) : TRUE]]
            /\ UNCHANGED job
    /\ UNCHANGED tx

-----------------------------------------------------------------------------
(* Transactions on one row *)

Unlocked(j) == tx[j] = None

Lock(j, version) ==
    /\ Unlocked(j)
    /\ tx' = [tx EXCEPT ![j] = version]
    /\ UNCHANGED <<job, caller>>

Commit(j) ==
    /\ tx[j] # None
    /\ job' = [job EXCEPT ![j] = tx[j]]
    /\ tx' = [tx EXCEPT ![j] = None]
    /\ UNCHANGED caller

Rollback(j) ==
    /\ tx[j] # None
    /\ tx' = [tx EXCEPT ![j] = None]
    /\ UNCHANGED <<job, caller>>

\* Mutant of RecordNext: a deduplication key without the attempt.
RecordOncePerType(events, event) ==
    IF \E i \in DOMAIN events : events[i].type = event.type THEN events
    ELSE Append(events, event)

\* TransactionalOutbox.record_next: the next event of the job's stream, unless
\* its deduplication key has been recorded already.
RecordNext(events, event) ==
    IF \E i \in DOMAIN events : events[i] = event THEN events
    ELSE Append(events, event)

\* The attempt of a fencing token, if it is still running, ends with a status.
CloseAttempt(ledger, token, status) ==
    [n \in DOMAIN ledger |->
        IF ledger[n].fencing_token = token /\ ledger[n].status = "running"
        THEN [ledger[n] EXCEPT !.status = status] ELSE ledger[n]]

-----------------------------------------------------------------------------
(* claim_next *)

Claimable(j, d) ==
    \/ /\ job[j].status \in Queued
       /\ job[j].available_at <= -d
    \/ /\ job[j].status = "running"
       /\ Before(job[j].lease_expires_at, d)
       /\ job[j].attempt_count < MaxAttempts[j]

\* ORDER BY priority DESC, queue_position ASC
Ahead(j, k) ==
    \/ Priority[j] > Priority[k]
    \/ Priority[j] = Priority[k] /\ job[j].position < job[k].position

\* Mutant of ClaimedRow: a takeover leaves the abandoned attempt open.
ClaimedRowOnly(row, w, d) ==
    [row EXCEPT !.status = "running",
                !.attempt_count = @ + 1,
                !.lease_generation = @ + 1,
                !.claimed_by = w,
                !.fencing_token = row.lease_generation + 1,
                !.lease_expires_at = LeaseLen - d,
                !.ledger = Append(@, [worker_id |-> w,
                                      fencing_token |-> row.lease_generation + 1,
                                      status |-> "running"])]

\* A fencing token names the generation of the lease; its random suffix only
\* keeps the tokens of different jobs apart.  A takeover closes the attempt it
\* takes over from; a queued row has no token and closes nothing.
ClaimedRow(row, w, d) ==
    LET n == row.attempt_count + 1
        token == row.lease_generation + 1
        closed == CloseAttempt(row.ledger, row.fencing_token, "abandoned")
    IN  [row EXCEPT !.status = "running",
                    !.attempt_count = n,
                    !.lease_generation = token,
                    !.claimed_by = w,
                    !.fencing_token = token,
                    !.lease_expires_at = LeaseLen - d,
                    !.ledger = Append(closed, [worker_id |-> w,
                                               fencing_token |-> token,
                                               status |-> "running"])]

\* LIMIT 1 FOR UPDATE SKIP LOCKED: the first claimable row nobody has locked.
Claim(w, j, d) ==
    /\ Claimable(j, d)
    /\ \A k \in Jobs \ {j} : Unlocked(k) /\ Claimable(k, d) => Ahead(j, k)
    /\ Lock(j, ClaimedRow(job[j], w, d))

-----------------------------------------------------------------------------
(* Heartbeat and finalization: the claim is named by the envelope of an      *)
(* attempt, which carries the worker, the attempt's number and its token.    *)

\* Mutant of OwnsLiveClaim: the worker's id is enough, its token is not compared.
WorkerOwnsClaim(row, w, token, d) ==
    /\ row.status = "running"
    /\ row.claimed_by = w
    /\ NotBefore(row.lease_expires_at, d)

OwnsLiveClaim(row, w, token, d) ==
    /\ row.status = "running"
    /\ row.claimed_by = w
    /\ row.fencing_token = token
    /\ NotBefore(row.lease_expires_at, d)

\* Mutant of Heartbeat: it does not wait for the row's lock.
HeartbeatUnlocked(w, j, token, d) ==
    /\ OwnsLiveClaim(job[j], w, token, d)
    /\ job' = [job EXCEPT ![j].lease_expires_at = LeaseLen - d]
    /\ UNCHANGED <<tx, caller>>

\* One UPDATE statement: it waits for the row's lock and commits at once.
Heartbeat(w, j, token, d) ==
    /\ Unlocked(j)
    /\ OwnsLiveClaim(job[j], w, token, d)
    /\ job' = [job EXCEPT ![j].lease_expires_at = LeaseLen - d]
    /\ UNCHANGED <<tx, caller>>

\* Mutant of FinalizedRow: a requested cancellation is overlooked.
FinalizedRowUncancelled(row, n, requested, value, retryAt) ==
    [row EXCEPT !.status = requested,
                !.claimed_by = None,
                !.fencing_token = None,
                !.lease_expires_at = None,
                !.available_at = IF requested = "retry_wait" THEN retryAt ELSE @,
                !.result = IF requested = "succeeded" THEN value ELSE None,
                !.ledger = CloseAttempt(@, row.fencing_token,
                    IF requested = "retry_wait" THEN "failed" ELSE requested),
                !.events = RecordNext(@, [type |-> requested, attempt |-> n])]

\* A requested cancellation overrides whatever outcome the worker asks for.
FinalizedRow(row, n, requested, value, retryAt) ==
    LET final == IF row.cancellation_requested THEN "cancelled" ELSE requested
    IN  [row EXCEPT !.status = final,
                    !.claimed_by = None,
                    !.fencing_token = None,
                    !.lease_expires_at = None,
                    !.available_at = IF final = "retry_wait" THEN retryAt ELSE @,
                    !.result = IF final = "succeeded" THEN value ELSE None,
                    !.ledger = CloseAttempt(@, row.fencing_token,
                        IF final = "retry_wait" THEN "failed" ELSE final),
                    !.events = RecordNext(@, [type |-> final, attempt |-> n])]

FinalizeClaim(w, j, n, token, requested, value, delay, d) ==
    /\ OwnsLiveClaim(job[j], w, token, d)
    /\ Lock(j, FinalizedRow(job[j], n, requested, value, delay - d))

\* value is the result of attempt n, or None: a handler's None is stored as NULL.
Complete(w, j, n, token, value, d) ==
    FinalizeClaim(w, j, n, token, "succeeded", value, 0, d)

CancelClaim(w, j, n, token, d) ==
    FinalizeClaim(w, j, n, token, "cancelled", None, 0, d)

\* fail decides on the envelope, with a clock reading of its own.
CanRetry(j, n, retryable, d) ==
    /\ retryable
    /\ n < MaxAttempts[j]
    /\ job[j].deadline = None \/ job[j].deadline > -d

Fail(w, j, n, token, retryable, delay, d0, d) ==
    FinalizeClaim(w, j, n, token,
        IF CanRetry(j, n, retryable, d0) THEN "retry_wait" ELSE "failed", None, delay, d)

-----------------------------------------------------------------------------
(* request_cancel and recover_expired *)

CancelledRow(row) ==
    IF row.status = "running"
    THEN [row EXCEPT !.cancellation_requested = TRUE]
    ELSE [row EXCEPT !.status = "cancelled",
                     !.cancellation_requested = TRUE,
                     !.events = RecordNext(@, [type |-> "cancelled", attempt |-> None])]

\* Mutant of RequestCancel: no early return for terminal jobs.
RequestCancelAnyway(j) ==
    /\ job[j].status # "absent"
    /\ Lock(j, CancelledRow(job[j]))

RequestCancel(j) ==
    /\ job[j].status \in Queued \union {"running"}
    /\ Lock(j, CancelledRow(job[j]))

\* Mutant of Unrecoverable: > for >=, so an exhausted job is nobody's.
UnrecoverableBeyond(j, d) ==
    /\ job[j].status = "running"
    /\ Before(job[j].lease_expires_at, d)
    /\ job[j].cancellation_requested \/ job[j].attempt_count > MaxAttempts[j]

Unrecoverable(j, d) ==
    /\ job[j].status = "running"
    /\ Before(job[j].lease_expires_at, d)
    /\ job[j].cancellation_requested \/ job[j].attempt_count >= MaxAttempts[j]

RecoveredRow(row) ==
    LET final == IF row.cancellation_requested THEN "cancelled" ELSE "failed"
    IN  [row EXCEPT !.status = final,
                    !.claimed_by = None,
                    !.fencing_token = None,
                    !.lease_expires_at = None,
                    !.ledger = CloseAttempt(@, row.fencing_token, final),
                    !.events = RecordNext(@, [type |-> final,
                                              attempt |-> row.attempt_count])]

\* One round of the loop of recover_expired, oldest unlocked lease first.
RecoverExpired(j, d) ==
    /\ Unrecoverable(j, d)
    /\ \A k \in Jobs : Unlocked(k) /\ Unrecoverable(k, d) =>
          job[j].lease_expires_at <= job[k].lease_expires_at
    /\ Lock(j, RecoveredRow(job[j]))

-----------------------------------------------------------------------------
(* Time *)

Older(timer) == IF timer = None \/ timer = Floor THEN timer ELSE timer - 1

Aged(row) == [row EXCEPT !.lease_expires_at = Older(@),
                         !.available_at = Older(@),
                         !.deadline = Older(@)]

Tick ==
    /\ job' = [j \in Jobs |-> IF j \in Inserted THEN Aged(job[j]) ELSE job[j]]
    /\ tx' = [j \in Jobs |-> IF tx[j] = None THEN None ELSE Aged(tx[j])]
    /\ UNCHANGED caller

-----------------------------------------------------------------------------

\* The worker that holds the envelope of attempt n uses it.
UseEnvelope(j, n) ==
    LET w == job[j].ledger[n].worker_id
        token == job[j].ledger[n].fencing_token
    IN  \E d \in Drift :
          \/ Heartbeat(w, j, token, d)
          \/ \E value \in {n, None} : Complete(w, j, n, token, value, d)
          \/ CancelClaim(w, j, n, token, d)
          \/ \E retryable \in BOOLEAN, delay \in Delays, d0 \in Drift :
                Fail(w, j, n, token, retryable, delay, d0, d)

JobStep(j) ==
    \/ FindIdempotent(j)
    \/ \E delay \in Delays : Insert(j, delay)
    \/ \E w \in Workers, d \in Drift : Claim(w, j, d)
    \/ \E n \in DOMAIN job[j].ledger : UseEnvelope(j, n)
    \/ RequestCancel(j)
    \/ \E d \in Drift : RecoverExpired(j, d)
    \/ Commit(j)
    \/ Rollback(j)

Next == Tick \/ \E j \in Jobs : JobStep(j)

Spec == Init /\ [][Next]_vars

-----------------------------------------------------------------------------
(* The inductive invariant.  It speaks of single rows, and holds of the         *)
(* committed row and of its uncommitted version alike.                          *)

\* The counters, the ledger and the claim of a row.
ClaimConsistent(row) ==
    /\ row.attempt_count = Len(row.ledger)
    /\ row.lease_generation = Len(row.ledger)
    /\ \A n \in 1..Len(row.ledger) : row.ledger[n].fencing_token = n
    /\ \A n \in 1..Len(row.ledger) : row.ledger[n].status = "running" <=>
          row.status = "running" /\ n = Len(row.ledger)
    /\ row.status = "running" =>
          /\ Len(row.ledger) > 0
          /\ row.fencing_token = Len(row.ledger)
          /\ row.claimed_by = row.ledger[Len(row.ledger)].worker_id
          /\ row.lease_expires_at # None
    /\ row.status # "running" => row.fencing_token = None

\* What may still happen to a row in a given status.
StatusConsistent(j, row) ==
    /\ row.attempt_count <= MaxAttempts[j]
    /\ row.status \in Queued => row.attempt_count < MaxAttempts[j]
    /\ row.status = "absent" => Len(row.ledger) = 0 /\ Len(row.events) = 0
    /\ row.cancellation_requested => row.status \in {"running", "cancelled"}
    /\ row.result # None => row.status = "succeeded" /\ row.result = Len(row.ledger)

\* The events of a row are the outcomes of its attempts.
EventsConsistent(row) ==
    /\ \A i \in 1..Len(row.events) : row.events[i].attempt # None =>
          /\ row.events[i].attempt \in 1..Len(row.ledger)
          /\ row.ledger[row.events[i].attempt].status \in Terminal
    /\ \A n \in 1..Len(row.ledger) : row.ledger[n].status \in Terminal =>
          \E i \in 1..Len(row.events) : row.events[i].attempt = n
    /\ \A i, k \in 1..Len(row.events) :
          row.events[i].attempt = row.events[k].attempt => i = k
    /\ \A i \in 1..Len(row.events) :
          row.events[i].attempt = None => row.status = "cancelled"

RowConsistent(j, row) ==
    ClaimConsistent(row) /\ StatusConsistent(j, row) /\ EventsConsistent(row)

\* An open transaction works on a row that is not finished, and that its lock
\* keeps from changing: a takeover still finds the lease expired when it commits.
TxConsistent(j) ==
    tx[j] # None =>
        /\ RowConsistent(j, tx[j]) /\ tx[j].status # "absent"
        /\ job[j].status \in Queued \union {"running"}
        /\ job[j].status = "running" =>
              \/ tx[j].fencing_token \in {None, job[j].fencing_token}
              \/ job[j].lease_expires_at < Skew

\* A submitter that has not got its receipt has no row yet.
CallerConsistent(j) ==
    /\ caller[j].at # "done" => job[j].status = "absent"
    /\ caller[j].at = "done" =>
          /\ caller[j].receipt \in Inserted
          /\ caller[j].receipt = j \/ Key[caller[j].receipt] = Key[j]

IInv ==
    /\ \A j \in Jobs : RowConsistent(j, job[j])
    /\ \A j \in Jobs : TxConsistent(j)
    /\ \A j \in Jobs : CallerConsistent(j)
    /\ \A j, k \in Inserted : Key[j] = Key[k] /\ Key[j] # None => j = k

-----------------------------------------------------------------------------
(* Properties *)

\* Type correctness of the committed rows, of the versions in open transactions
\* and of the submitters' calls.
TypeOK ==
    /\ job \in [Jobs -> Row]
    /\ tx \in [Jobs -> Row \union {None}]
    /\ caller \in [Jobs -> [at : {"start", "missed", "done"},
                           receipt : Jobs \union {None}]]

\* No job is ever started more often than its max_attempts, although claim_next
\* checks the budget only when it takes over an expired lease: the retries of
\* fail, which decides on a possibly old envelope, stay within it too.  (A row
\* beyond it could not even be read: JobEnvelope refuses it.)
AttemptBudget == \A j \in Jobs : job[j].attempt_count <= MaxAttempts[j]

\* The row and the attempt ledger, written by different statements of claim_next,
\* _finalize_claim and recover_expired, agree: one entry for every attempt, all
\* closed but the last, which runs exactly while the row does and then names the
\* row's worker and fencing token.
LedgerAgrees ==
    \A j \in Inserted :
        LET row == job[j]
            last == Len(row.ledger)
        IN  /\ last = row.attempt_count
            /\ \A n \in 1..(last - 1) : row.ledger[n].status # "running"
            /\ (last > 0 /\ row.ledger[last].status = "running")
                  <=> row.status = "running"
            /\ row.status = "running" =>
                  /\ row.ledger[last].worker_id = row.claimed_by
                  /\ row.ledger[last].fencing_token = row.fencing_token

\* Exactly one outbox event for every outcome: each attempt that was finalized
\* (not abandoned to another worker), and the cancellation of a queued job, has
\* written its own; no deduplication key ever swallows one, and none is left by a
\* transaction that did not change the row.
OneEventPerOutcome ==
    \A j \in Jobs :
        LET row == job[j]
            finalized == {n \in DOMAIN row.ledger :
                             row.ledger[n].status \in Terminal}
            told == {row.events[i].attempt : i \in DOMAIN row.events}
        IN  /\ \A i, k \in DOMAIN row.events :
                  row.events[i].attempt = row.events[k].attempt => i = k
            /\ told \ {None} = finalized
            /\ None \in told => row.status = "cancelled"

\* Once request_cancel has been acknowledged the job never ends, or waits to run
\* again, in any other way: it is running or cancelled, whatever its worker, a
\* takeover or the recovery of its lease try to write.
CancellationSticks ==
    \A j \in Jobs : job[j].cancellation_requested =>
        job[j].status \in {"running", "cancelled"}

\* A stored result belongs to a job that succeeded, and it is the result of the
\* last attempt started, never of one whose lease another worker took over.
ResultOfLastAttempt ==
    \A j \in Jobs : job[j].result # None =>
        /\ job[j].status = "succeeded"
        /\ job[j].result = Len(job[j].ledger)

\* Submissions with one idempotency key make one row, and every caller's receipt
\* names it, however their look-ups and inserts interleave.
IdempotentSubmission ==
    /\ \A j, k \in Inserted : Key[j] = Key[k] /\ Key[j] # None => j = k
    /\ \A j \in Jobs : caller[j].at = "done" =>
          /\ caller[j].receipt \in Inserted
          /\ caller[j].receipt = j \/ Key[caller[j].receipt] = Key[j]

\* The outcome of a job is final: no late worker, cancellation, claim or recovery
\* changes its status, its result, its attempts or its events again.
TerminalFrozen ==
    [][\A j \in Jobs : job[j].status \in Terminal =>
          /\ job'[j].status = job[j].status
          /\ job'[j].result = job[j].result
          /\ job'[j].ledger = job[j].ledger
          /\ job'[j].events = job[j].events]_vars

\* A claim whose lease no clock of the system can call expired is never handed to
\* another worker, nor to a new attempt of the same one: its token stays, or goes
\* when the job is finalized.  In particular no heartbeat that was answered
\* "authoritative" slips between another worker's scan and its takeover.
LiveClaimRespected ==
    [][\A j \in Jobs :
          /\ job[j].status = "running"
          /\ job[j].lease_expires_at >= Skew
          /\ job'[j].fencing_token # job[j].fencing_token
          => job'[j].fencing_token = None]_vars

-----------------------------------------------------------------------------
(* The promise of the queue *)

Phase(row) ==
    IF row.status = "absent" THEN "new"
    ELSE IF row.status \in Queued THEN "waiting"
    ELSE IF row.status = "running" THEN "active" ELSE "done"

Lifecycle == INSTANCE JobLifecycle WITH
    Budget <- MaxAttempts,
    phase <- [j \in Jobs |-> Phase(job[j])],
    starts <- [j \in Jobs |-> job[j].attempt_count],
    outcome <- [j \in Jobs |-> IF job[j].status \in Terminal THEN job[j].status
                               ELSE "none"],
    asked <- [j \in Jobs |-> job[j].cancellation_requested],
    announced <- [j \in Jobs |-> Len(job[j].events)]

\* The queue keeps its promise: seen without leases, tokens and transactions,
\* every behaviour of claim_next, _finalize_claim, request_cancel and
\* recover_expired is a behaviour of JobLifecycle.
KeepsPromise == Lifecycle!LSpec
=============================================================================
