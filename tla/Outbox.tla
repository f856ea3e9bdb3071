------------------------------- MODULE Outbox -------------------------------
(***************************************************************************)
(* The transactional outbox of platform/events: producers that append an   *)
(* event to its stream and to the outbox in one transaction (outbox.py),   *)
(* and publishers that claim batches of records, deliver them outside any  *)
(* transaction and finalize each outcome (publisher.py).                   *)
(*                                                                         *)
(* TIME.  Only two facts about the clock matter: whether the lease of a    *)
(* claim has elapsed and whether available_at has been reached.  Both      *)
(* become true by steps of their own.  A lease may elapse while its        *)
(* publisher is still delivering, at most MaxLate times in a behaviour.    *)
(* available_at is stamped by the clock of a producer, or by that of the   *)
(* publisher that failed, and compared with the clock of the publisher     *)
(* that scans: a new record may have to wait until the slower one reaches  *)
(* it, in whatever order the records of its stream were written.           *)
(*                                                                         *)
(* TRANSACTIONS.  Each statement of OutboxStore commits on its own, except *)
(* claim_batch: its scan (FOR UPDATE SKIP LOCKED) locks the rows it finds, *)
(* and they are claimed when it commits; between the two they are pending  *)
(* to everybody, and every other scan passes over them.  A producer's      *)
(* transaction reads in separate steps and becomes visible when it commits.*)
(***************************************************************************)
EXTENDS Integers, FiniteSets

CONSTANTS
    Records,      \* calls of record_next, each with an event of its own
    Stream,       \* the aggregate of each event; aggregate ids are ordered
    Key,          \* deduplication_key of each call, or None
    Publishers,   \* OutboxPublisher processes
    RunsLoop,     \* those driven by run(); the others only call publish_pending
    BatchSize,    \* batch_size
    MaxAttempts,  \* max_attempts
    None,         \* SQL NULL
    MaxCrashes,   \* bound on the crashes of publishers
    MaxLate       \* bound on leases that elapse in the hands of their publisher

ASSUME RecordsAssumption == IsFiniteSet(Records) /\ None \notin Records
ASSUME StreamAssumption == Stream \in [Records -> Nat]
ASSUME PublishersAssumption == None \notin Publishers /\ RunsLoop \subseteq Publishers
ASSUME OutboxBounds == /\ BatchSize \in Nat \ {0} /\ MaxAttempts \in Nat \ {0}
                       /\ MaxCrashes \in Nat /\ MaxLate \in Nat
ASSUME TokensAssumption == None \notin Nat

VARIABLES
    row,        \* the outbox row of each recorded event, absent before
    producer,   \* each call of record_next: how far it is, the sequence it read
    pub,        \* each publisher: where it is, the claims of its batch
    claims,     \* how often a row was claimed: the source of fresh tokens
    delivered,  \* events the transport has accepted at least once
    notified,   \* calls of on_dead_letter for each record
    crashes,    \* crashes so far
    late,       \* leases elapsed in the hands of their publisher so far
    locked,     \* the rows each publisher's open claim_batch has locked
    passed      \* records that a scan could not see when it took a later one of
                \* their stream (history)

vars == <<row, producer, pub, claims, delivered, notified, crashes, late,
          locked, passed>>

Final == {"published", "dead_letter"}

Row == [status : {"absent", "pending", "publishing"} \union Final,
        sequence : Nat,
        attempt_count : Nat,
        claim_token : Nat \union {None},
        expired : BOOLEAN,   \* claim_expires_at < now
        waiting : BOOLEAN]   \* available_at > now

AbsentRow == [status |-> "absent", sequence |-> 0, attempt_count |-> 0,
              claim_token |-> None, expired |-> FALSE, waiting |-> FALSE]

Producer == [at : {"start", "sequenced", "checked", "recorded", "duplicate", "failed"},
             sequence : Nat]

\* An OutboxRecord as claim_batch returns it.
Claimed == [id : Records, claim_token : Nat, attempt_count : Nat]

Publisher == [at : {"top", "claim", "claiming", "deliver", "succeeded", "raised",
                    "notify", "down"},
              batch : SUBSET Claimed]

Recorded == {r \in Records : row[r].status # "absent"}

Init ==
    /\ row = [r \in Records |-> AbsentRow]
    /\ producer = [r \in Records |-> [at |-> "start", sequence |-> 0]]
    /\ pub = [p \in Publishers |-> [at |-> "top", batch |-> {}]]
    /\ claims = [r \in Records |-> 0]
    /\ delivered = {}
    /\ notified = [r \in Records |-> 0]
    /\ crashes = 0
    /\ late = 0
    /\ locked = [p \in Publishers |-> {}]
    /\ passed = {}

-----------------------------------------------------------------------------
(* Producers *)

OutboxUnchanged ==
    UNCHANGED <<row, pub, claims, delivered, notified, crashes, late, locked, passed>>

InStream(r) == {q \in Recorded : Stream[q] = Stream[r]}

SameKey(r) == {q \in Recorded : Key[q] = Key[r] /\ Key[r] # None}

\* Mutant of NextSequence: numbers are taken from the outbox as a whole.
NextSequenceGlobal(r) == Cardinality(Recorded)

\* next_sequence: max(sequence) + 1 of the committed stream, 0 when it is empty.
NextSequence(r) ==
    IF InStream(r) = {} THEN 0
    ELSE 1 + (CHOOSE n \in {row[q].sequence : q \in InStream(r)} :
                 \A q \in InStream(r) : row[q].sequence <= n)

\* record_next begins: the sequence is read before the key is looked for.
Allocate(r) ==
    /\ producer[r].at = "start"
    /\ producer' = [producer EXCEPT ![r] = [at |-> "sequenced",
                                            sequence |-> NextSequence(r)]]
    /\ OutboxUnchanged

\* record: a known deduplication key ends the call with False.
CheckKey(r) ==
    /\ producer[r].at = "sequenced"
    /\ producer' = [producer EXCEPT ![r].at =
                       IF SameKey(r) = {} THEN "checked" ELSE "duplicate"]
    /\ OutboxUnchanged

\* Mutant of Unique: the outbox has no unique deduplication key.
UniqueSequence(r) ==
    \A q \in InStream(r) : row[q].sequence # producer[r].sequence

\* uq_platform_events_stream and uq_platform_outbox_dedup
Unique(r) ==
    /\ SameKey(r) = {}
    /\ \A q \in InStream(r) : row[q].sequence # producer[r].sequence

\* Both inserts and the commit of the caller's transaction, or the violation of a
\* constraint, which fails the transaction as a whole.  available_at is now, by the
\* producer's clock, which may be ahead of the publishers'.
Record(r) ==
    /\ producer[r].at = "checked"
    /\ IF Unique(r)
       THEN /\ \E ahead \in BOOLEAN :
                   row' = [row EXCEPT ![r] = [AbsentRow EXCEPT
                                                 !.status = "pending",
                                                 !.sequence = producer[r].sequence,
                                                 !.waiting = ahead]]
            /\ producer' = [producer EXCEPT ![r].at = "recorded"]
       ELSE /\ producer' = [producer EXCEPT ![r].at = "failed"]
            /\ UNCHANGED row
    /\ UNCHANGED <<pub, claims, delivered, notified, crashes, late, locked, passed>>

\* The caller's transaction is rolled back (a failed domain write, the crash gate
\* after the event-store append), or a caller starts its failed one again.
Abort(r) ==
    /\ producer[r].at \in {"sequenced", "checked"}
    /\ producer' = [producer EXCEPT ![r].at = "failed"]
    /\ OutboxUnchanged

Again(r) ==
    /\ producer[r].at = "failed"
    /\ producer' = [producer EXCEPT ![r].at = "start"]
    /\ OutboxUnchanged

-----------------------------------------------------------------------------
(* OutboxStore *)

Pending == {r \in Records : row[r].status = "pending"}

\* What the scan of a publisher can see: available records that no other scan has
\* locked.
Visible(p) ==
    {r \in Pending : ~row[r].waiting /\ \A q \in Publishers \ {p} : r \notin locked[q]}

\* ORDER BY aggregate_id, sequence_number
Earlier(q, r) ==
    \/ Stream[q] < Stream[r]
    \/ Stream[q] = Stream[r] /\ row[q].sequence < row[r].sequence

\* Mutant of Scanned: no ORDER BY before the LIMIT.
ScannedAnyhow(p, batch) ==
    /\ batch \subseteq Visible(p)
    /\ \/ Cardinality(batch) = BatchSize
       \/ batch = Visible(p) /\ Cardinality(batch) < BatchSize

\* The scan of claim_batch finds batch.
Scanned(p, batch) ==
    /\ batch \subseteq Visible(p)
    /\ \/ Cardinality(batch) = BatchSize
       \/ batch = Visible(p) /\ Cardinality(batch) < BatchSize
    /\ \A q \in batch, r \in Visible(p) \ batch : Earlier(q, r)

\* The records that this scan passes over although a later one of their stream is
\* in its batch: not available yet, or locked by another scan.
PassedOver(p, batch) ==
    {q \in Pending \ Visible(p) :
        \E r \in batch : Stream[q] = Stream[r] /\ row[q].sequence < row[r].sequence}

\* The WHERE clause of mark_published and mark_failed.
OwnsClaim(claim) ==
    /\ row[claim.id].status = "publishing"
    /\ row[claim.id].claim_token = claim.claim_token

\* Mutant of Token: one token for all claims of a row.
TokenOfRow(r) == 1

\* The uuid4 of a scan, as far as claims of one row compare it: a fresh number.
Token(r) == claims[r] + 1

ClaimedRow(r) == [row[r] EXCEPT !.status = "publishing",
                                !.claim_token = Token(r),
                                !.expired = FALSE]

Released(r, status) == [row[r] EXCEPT !.status = status,
                                      !.claim_token = None,
                                      !.expired = FALSE]

\* Mutant of FailedRow: one attempt too many.
FailedRowBeyond(r) ==
    LET n == row[r].attempt_count + 1
    IN  [Released(r, IF n > MaxAttempts THEN "dead_letter" ELSE "pending")
           EXCEPT !.attempt_count = n, !.waiting = TRUE]

FailedRow(r) ==
    LET n == row[r].attempt_count + 1
    IN  [Released(r, IF n >= MaxAttempts THEN "dead_letter" ELSE "pending")
           EXCEPT !.attempt_count = n, !.waiting = TRUE]

-----------------------------------------------------------------------------
(* OutboxPublisher *)

Head(p) == CHOOSE claim \in pub[p].batch :
              \A other \in pub[p].batch \ {claim} : Earlier(claim.id, other.id)

\* Mutant of Reclaim: the claim is cleared, the status is not.
ReclaimClaimOnly(p) ==
    /\ pub[p].at = "top"
    /\ row' = [r \in Records |->
                 IF row[r].status = "publishing" /\ row[r].expired
                 THEN [row[r] EXCEPT !.claim_token = None, !.expired = FALSE] ELSE row[r]]
    /\ pub' = [pub EXCEPT ![p].at = "claim"]
    /\ UNCHANGED <<producer, claims, delivered, notified, crashes, late, locked, passed>>

\* run: reclaim_expired_claims first.  A worker's poll cycle skips it.
Reclaim(p) ==
    /\ pub[p].at = "top"
    /\ IF p \in RunsLoop
       THEN row' = [r \in Records |->
               IF row[r].status = "publishing" /\ row[r].expired
               THEN Released(r, "pending") ELSE row[r]]
       ELSE UNCHANGED row
    /\ pub' = [pub EXCEPT ![p].at = "claim"]
    /\ UNCHANGED <<producer, claims, delivered, notified, crashes, late, locked, passed>>

\* claim_batch begins: the scan, which locks what it finds; without a record the
\* cycle is over.
Scan(p) ==
    /\ pub[p].at = "claim"
    /\ \E batch \in SUBSET Visible(p) :
          /\ Scanned(p, batch)
          /\ locked' = [locked EXCEPT ![p] = batch]
          /\ passed' = passed \union PassedOver(p, batch)
          /\ pub' = [pub EXCEPT ![p].at = IF batch = {} THEN "top" ELSE "claiming"]
    /\ UNCHANGED <<row, producer, claims, delivered, notified, crashes, late>>

\* claim_batch ends: each row of the scan that is still pending is flipped, the
\* commit makes the claims visible and releases the locks.
ClaimBatch(p) ==
    /\ pub[p].at = "claiming"
    /\ LET batch == locked[p] \intersect Pending
       IN  /\ row' = [r \in Records |-> IF r \in batch THEN ClaimedRow(r) ELSE row[r]]
           /\ claims' = [r \in Records |-> IF r \in batch THEN claims[r] + 1 ELSE claims[r]]
           /\ pub' = [pub EXCEPT ![p] =
                 [at |-> IF batch = {} THEN "top" ELSE "deliver",
                  batch |-> {[id |-> r, claim_token |-> Token(r),
                              attempt_count |-> row[r].attempt_count] : r \in batch}]]
    /\ locked' = [locked EXCEPT ![p] = {}]
    /\ UNCHANGED <<producer, delivered, notified, crashes, late, passed>>

\* The transport accepts the record at the head of the batch, or raises.
Deliver(p) ==
    /\ pub[p].at = "deliver"
    /\ \/ /\ pub' = [pub EXCEPT ![p].at = "succeeded"]
          /\ delivered' = delivered \union {Head(p).id}
       \/ /\ pub' = [pub EXCEPT ![p].at = "raised"]
          /\ UNCHANGED delivered
    /\ UNCHANGED <<row, producer, claims, notified, crashes, late, locked, passed>>

\* The loop over the batch goes on to its next record.
Continue(p) ==
    LET rest == pub[p].batch \ {Head(p)}
    IN  pub' = [pub EXCEPT ![p] = [at |-> IF rest = {} THEN "top" ELSE "deliver",
                                   batch |-> rest]]

\* mark_published; a stale claim is passed over.
MarkPublished(p) ==
    /\ pub[p].at = "succeeded"
    /\ LET claim == Head(p)
       IN  IF OwnsClaim(claim)
           THEN row' = [row EXCEPT ![claim.id] = Released(claim.id, "published")]
           ELSE UNCHANGED row
    /\ Continue(p)
    /\ UNCHANGED <<producer, claims, delivered, notified, crashes, late, locked, passed>>

\* Mutant of AttemptedToDeath: this failure is not counted.
AttemptedToDeathBefore(claim) == claim.attempt_count >= MaxAttempts

\* _attempted_to_death: inferred from the counter as it was when claimed.
AttemptedToDeath(claim) == claim.attempt_count + 1 >= MaxAttempts

\* mark_failed, then the dead-letter hook if this failure was the last.
MarkFailed(p) ==
    /\ pub[p].at = "raised"
    /\ LET claim == Head(p)
       IN  IF OwnsClaim(claim)
           THEN /\ row' = [row EXCEPT ![claim.id] = FailedRow(claim.id)]
                /\ IF AttemptedToDeath(claim)
                   THEN pub' = [pub EXCEPT ![p].at = "notify"]
                   ELSE Continue(p)
           ELSE Continue(p) /\ UNCHANGED row
    /\ UNCHANGED <<producer, claims, delivered, notified, crashes, late, locked, passed>>

NotifyDeadLetter(p) ==
    /\ pub[p].at = "notify"
    /\ notified' = [notified EXCEPT ![Head(p).id] = @ + 1]
    /\ Continue(p)
    /\ UNCHANGED <<row, producer, claims, delivered, crashes, late, locked, passed>>

-----------------------------------------------------------------------------
(* Crashes and time *)

\* The process dies, or the store or the hook raises and ends the loop: the rest
\* of the batch stays claimed, and an open scan is rolled back.
Crash(p) ==
    /\ crashes < MaxCrashes
    /\ pub[p].at # "down"
    /\ pub' = [pub EXCEPT ![p] = [at |-> "down", batch |-> {}]]
    /\ locked' = [locked EXCEPT ![p] = {}]
    /\ crashes' = crashes + 1
    /\ UNCHANGED <<row, producer, claims, delivered, notified, late, passed>>

Boot(p) ==
    /\ pub[p].at = "down"
    /\ pub' = [pub EXCEPT ![p].at = "top"]
    /\ UNCHANGED <<row, producer, claims, delivered, notified, crashes, late, locked, passed>>

Held(r) ==
    \E p \in Publishers : \E claim \in pub[p].batch :
        claim.id = r /\ claim.claim_token = row[r].claim_token

\* The lease of a claim elapses.
Elapse(r) ==
    /\ row[r].status = "publishing" /\ ~row[r].expired
    /\ row' = [row EXCEPT ![r].expired = TRUE]
    /\ IF Held(r) THEN late < MaxLate /\ late' = late + 1 ELSE UNCHANGED late
    /\ UNCHANGED <<producer, pub, claims, delivered, notified, crashes, locked, passed>>

\* available_at is reached: the backoff of a failed record is over, or the clocks of
\* the publishers have caught up with the producer of a new one.
BackoffEnds(r) ==
    /\ row[r].waiting
    /\ row' = [row EXCEPT ![r].waiting = FALSE]
    /\ UNCHANGED <<producer, pub, claims, delivered, notified, crashes, late, locked, passed>>

-----------------------------------------------------------------------------

ProducerStep(r) == Allocate(r) \/ CheckKey(r) \/ Record(r) \/ Abort(r) \/ Again(r)

PublisherStep(p) ==
    \/ Reclaim(p) \/ Scan(p) \/ ClaimBatch(p) \/ Deliver(p)
    \/ MarkPublished(p) \/ MarkFailed(p) \/ NotifyDeadLetter(p)

Next ==
    \/ \E r \in Records : ProducerStep(r) \/ Elapse(r) \/ BackoffEnds(r)
    \/ \E p \in Publishers : PublisherStep(p) \/ Crash(p) \/ Boot(p)

Spec == Init /\ [][Next]_vars

\* Time passes, a publisher that is up keeps polling, a crashed one is restarted.
\* Nothing makes anybody record an event, or the transport accept one.
Fairness ==
    /\ \A r \in Records : WF_vars(Elapse(r)) /\ WF_vars(BackoffEnds(r))
    /\ \A p \in Publishers : WF_vars(PublisherStep(p)) /\ WF_vars(Boot(p))

FairSpec == Spec /\ Fairness

-----------------------------------------------------------------------------
(* Properties *)

\* Type correctness of the rows, the calls of the producers and the publishers.
TypeOK ==
    /\ row \in [Records -> Row]
    /\ producer \in [Records -> Producer]
    /\ pub \in [Publishers -> Publisher]
    /\ claims \in [Records -> Nat]
    /\ delivered \subseteq Records
    /\ notified \in [Records -> Nat]
    /\ crashes \in 0..MaxCrashes /\ late \in 0..MaxLate
    /\ locked \in [Publishers -> SUBSET Records]
    /\ passed \subseteq Records

\* Every stream is numbered 0, 1, 2, ... without gaps or doubles, although
\* record_next reads the maximum long before it commits and transactions are
\* rolled back in between; and an event is recorded exactly when its call says so.
StreamsGapless ==
    /\ \A r \in Recorded :
          {row[q].sequence : q \in InStream(r)} = 0..(Cardinality(InStream(r)) - 1)
    /\ \A r \in Records : r \in Recorded <=> producer[r].at = "recorded"

\* Calls with one deduplication key record one event, and a call that answered
\* False found it recorded: the event is never dropped by all of them.
OneRecordPerKey ==
    /\ \A q, r \in Recorded : Key[q] = Key[r] /\ Key[r] # None => q = r
    /\ \A r \in Records : producer[r].at = "duplicate" => SameKey(r) # {}

\* A claim belongs to one publisher at a time: while a row carries a token, at
\* most one publisher has it in its batch, and the attempt counter of that copy
\* is the row's.  (_attempted_to_death relies on it.)
ClaimsExclusive ==
    \A p \in Publishers : \A claim \in pub[p].batch : OwnsClaim(claim) =>
        /\ claim.attempt_count = row[claim.id].attempt_count
        /\ \A q \in Publishers \ {p} : claim \notin pub[q].batch

\* Nothing is finalized that did not happen: a published event was accepted by
\* the transport, by whoever marked it or by an earlier publisher that was slow or
\* crashed, and a dead letter has failed max_attempts times.
FinalizedTruthfully ==
    \A r \in Records :
        /\ row[r].status = "published" => r \in delivered
        /\ row[r].status = "dead_letter" <=> row[r].attempt_count >= MaxAttempts

\* The dead-letter hook is called once for every dead letter, and for nothing
\* else: the publisher that moved the record there calls it, next, unless it dies
\* first.
DeadLettersNotified ==
    \A r \in Records :
        LET about == {p \in Publishers : pub[p].at = "notify" /\ Head(p).id = r}
            calls == notified[r] + Cardinality(about)
        IN  /\ row[r].status # "dead_letter" => calls = 0
            /\ row[r].status = "dead_letter" =>
                  calls = 1 \/ (calls = 0 /\ crashes > 0)

\* Records of a stream leave in order, as far as the scans see them: one is delivered
\* before an earlier one of its stream only if that one has been claimed as well (by
\* another publisher, or by one that failed to deliver it), or if a scan that took a
\* later one could not see it, because another publisher's open scan had locked it or
\* because the clock of its producer was ahead.  In those two cases claim_batch does
\* let a later record overtake: SKIP LOCKED and available_at come before ORDER BY.
NeverOvertaken ==
    \A r \in delivered : \A q \in InStream(r) :
        row[q].sequence < row[r].sequence => claims[q] > 0 \/ q \in passed

\* Every recorded event ends published or dead-lettered, in spite of crashes,
\* elapsed leases and failing deliveries, if a publisher is driven by run().
EveryRecordEnds ==
    \A r \in Records : (row[r].status # "absent") ~> (row[r].status \in Final)

\* outbox.py on reclaim_expired_claims: "Recovery path for crashed publishers: a
\* record whose lease elapsed becomes claimable again".
ElapsedBecomesClaimable ==
    \A r \in Records : (row[r].status = "publishing" /\ row[r].expired)
                          ~> (row[r].status # "publishing")
=============================================================================
