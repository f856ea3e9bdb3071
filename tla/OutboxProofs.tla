---------------------------- MODULE OutboxProofs ----------------------------
(***************************************************************************)
(* Proofs about Outbox, for all sets of events and publishers, all streams *)
(* and keys, batch sizes and attempt limits.  The invariants the runs      *)
(* check are consequences of one inductive invariant, IInv.                *)
(***************************************************************************)
EXTENDS Outbox, FiniteSetTheorems, TLAPS

-----------------------------------------------------------------------------
(* The inductive invariant *)

\* The sequence numbers of a stream are different and less than its length, and a
\* call that has read one read at most the length of today.
Numbered ==
    /\ \A r \in Recorded : row[r].sequence < Cardinality(InStream(r))
    /\ \A q, r \in Recorded :
          Stream[q] = Stream[r] /\ row[q].sequence = row[r].sequence => q = r
    /\ \A r \in Records : r \in Recorded <=> producer[r].at = "recorded"
    /\ \A r \in Records : producer[r].at \in {"sequenced", "checked"} =>
          producer[r].sequence <= Cardinality(InStream(r))

\* What the columns of a row say about each other.
RowsSound ==
    \A r \in Records :
        /\ row[r].status = "publishing" <=> row[r].claim_token # None
        /\ row[r].claim_token # None => row[r].claim_token <= claims[r]
        /\ row[r].status = "dead_letter" <=> row[r].attempt_count >= MaxAttempts
        /\ row[r].status = "published" => r \in delivered
        /\ row[r].status = "absent" => claims[r] = 0 /\ row[r].attempt_count = 0

\* A publisher holds a batch exactly while it works on one; its claims are of
\* recorded rows, one for each row, with tokens that nobody else has for them.
ClaimsSound ==
    /\ \A p \in Publishers : pub[p].batch = {} <=> pub[p].at \in {"top", "claim", "claiming", "down"}
    /\ \A p \in Publishers : \A claim \in pub[p].batch :
          /\ claim.id \in Recorded
          /\ claim.claim_token > 0 /\ claim.claim_token <= claims[claim.id]
          /\ OwnsClaim(claim) => claim.attempt_count = row[claim.id].attempt_count
    /\ \A p \in Publishers : \A c, d \in pub[p].batch : c.id = d.id => c = d
    /\ \A p, q \in Publishers : \A c \in pub[p].batch, d \in pub[q].batch :
          c.id = d.id /\ c.claim_token = d.claim_token => p = q

\* What a publisher remembers about the record it works on.
HeadSound ==
    /\ \A p \in Publishers : pub[p].at = "succeeded" => Head(p).id \in delivered
    /\ \A p \in Publishers : pub[p].at = "notify" =>
          row[Head(p).id].status = "dead_letter" /\ notified[Head(p).id] = 0
    /\ \A p, q \in Publishers :
          pub[p].at = "notify" /\ pub[q].at = "notify" /\ Head(p).id = Head(q).id => p = q

\* Who has been told of a dead letter.
Told ==
    \A r \in Records :
        /\ notified[r] > 0 => notified[r] = 1 /\ row[r].status = "dead_letter"
        /\ row[r].status = "dead_letter" /\ notified[r] = 0 =>
              crashes > 0 \/ \E p \in Publishers : pub[p].at = "notify" /\ Head(p).id = r

\* What an open scan has locked is pending, and locked by one publisher only.
LocksSound ==
    /\ \A p \in Publishers : locked[p] \subseteq Pending
    /\ \A p, q \in Publishers : p # q => locked[p] \intersect locked[q] = {}

\* Rows are claimed in the order of their stream, up to the ones a scan could not
\* see: what nobody has claimed yet is pending, and behind it nothing has been claimed,
\* or locked by a scan that left it out, unless it was passed over.
ClaimedInOrder ==
    /\ \A r \in Recorded : claims[r] = 0 => r \in Pending
    /\ \A r \in delivered : claims[r] > 0
    /\ \A r \in Recorded : claims[r] > 0 =>
          \A q \in InStream(r) :
             row[q].sequence < row[r].sequence => claims[q] > 0 \/ q \in passed
    /\ \A p \in Publishers : \A r \in locked[p] : \A q \in InStream(r) :
          row[q].sequence < row[r].sequence =>
             claims[q] > 0 \/ q \in passed \/ q \in locked[p]

IInv ==
    /\ TypeOK /\ Numbered /\ OneRecordPerKey /\ RowsSound /\ ClaimsSound
    /\ HeadSound /\ Told /\ LocksSound /\ ClaimedInOrder

-----------------------------------------------------------------------------
(* The operators of the module *)

\* A stream is a finite set of events.
LEMMA StreamFinite ==
    ASSUME NEW r
    PROVE  IsFiniteSet(InStream(r)) /\ Cardinality(InStream(r)) \in Nat
<1>1. InStream(r) \subseteq Records
  BY DEF InStream, Recorded
<1>2. IsFiniteSet(InStream(r))
  BY <1>1, RecordsAssumption, FS_Subset
<1> QED
  BY <1>2, FS_CardinalityType

\* Different numbers below the length of the stream are all the numbers below it.
LEMMA NumbersOfStream ==
    ASSUME TypeOK, Numbered, NEW r \in Records
    PROVE  {row[q].sequence : q \in InStream(r)} = 0..(Cardinality(InStream(r)) - 1)
<1> DEFINE S == InStream(r)
           n == Cardinality(S)
           T == 0..(n - 1)
           f == [q \in S |-> row[q].sequence]
<1>1. IsFiniteSet(S) /\ n \in Nat /\ Cardinality(S) = n
  BY StreamFinite
<1>2. IsFiniteSet(T) /\ Cardinality(T) = n
  BY <1>1, FS_Interval
<1>3. ASSUME NEW q \in S PROVE row[q].sequence \in T
  <2>1. q \in Recorded /\ Stream[q] = Stream[r] /\ InStream(q) = S
    BY DEF InStream
  <2>2. row[q].sequence \in Nat /\ row[q].sequence < n
    BY <2>1 DEF TypeOK, Row, Numbered, Recorded
  <2> QED
    BY <1>1, <2>2
<1>4. f \in [S -> T]
  BY <1>3
<1>5. \A a, b \in S : f[a] = f[b] => a = b
  BY DEF Numbered, InStream
<1>6. f \in Injection(S, T)
  BY <1>4, <1>5, Zenon DEF Injection, IsInjective
<1>7. f \in Surjection(S, T)
  <2> HIDE DEF S, T, f
  <2> QED BY <1>1, <1>2, <1>6, FS_Injection
<1>8. \A t \in T : \E q \in S : f[q] = t
  BY <1>7, Zenon DEF Surjection
<1> QED
  BY <1>3, <1>8

\* next_sequence reads the length of the stream.
LEMMA NextSequenceIs ==
    ASSUME TypeOK, Numbered, NEW r \in Records
    PROVE  NextSequence(r) = Cardinality(InStream(r))
<1> DEFINE S == InStream(r)
           n == Cardinality(S)
           N == {row[q].sequence : q \in S}
<1>1. IsFiniteSet(S) /\ n \in Nat
  BY StreamFinite
<1>2. N = 0..(n - 1)
  BY NumbersOfStream
<1>3. S = {} <=> n = 0
  BY <1>1, FS_EmptySet
<1>4. CASE S = {}
  BY <1>3, <1>4 DEF NextSequence
<1>5. CASE S # {}
  <2>1. n - 1 \in N /\ \A q \in S : row[q].sequence <= n - 1
    <3>1. n > 0
      BY <1>1, <1>3, <1>5
    <3>2. \A q \in S : row[q].sequence \in 0..(n - 1)
      BY <1>2
    <3> QED
      BY <1>1, <1>2, <3>1, <3>2
  <2> DEFINE m == CHOOSE x \in N : \A q \in S : row[q].sequence <= x
  <2>2. m \in N /\ \A q \in S : row[q].sequence <= m
    BY <2>1, Zenon
  <2>3. \E q \in S : row[q].sequence = n - 1
    BY <2>1
  <2>4. m \in 0..(n - 1) /\ n - 1 <= m
    BY <1>2, <2>2, <2>3
  <2>5. m = n - 1
    BY <1>1, <2>4
  <2>6. NextSequence(r) = 1 + m
    BY <1>5, Zenon DEF NextSequence
  <2> HIDE DEF m
  <2> QED
    BY <1>1, <2>5, <2>6
<1> QED
  BY <1>4, <1>5

\* The claim that comes first in a batch.
Leads(p, claim) ==
    /\ claim \in pub[p].batch
    /\ \A other \in pub[p].batch \ {claim} : Earlier(claim.id, other.id)

\* A set of numbers has a least one.
LEMMA Least ==
    ASSUME NEW S \in SUBSET Nat, S # {}
    PROVE  \E n \in S : \A m \in S : n <= m
<1>1. PICK n \in S : \A m \in S : ~ (<<m, n>> \in OpToRel(<, Nat))
  BY NatLessThanWellFounded, WFMin
<1>2. \A m \in S : ~ (m < n)
  BY <1>1 DEF OpToRel
<1> QED
  BY <1>2

\* Every batch has exactly one first claim, the one the loop takes.
LEMMA HeadLeads ==
    ASSUME TypeOK, Numbered, ClaimsSound, NEW p \in Publishers, pub[p].batch # {}
    PROVE  /\ Leads(p, Head(p))
           /\ \A claim : Leads(p, claim) => claim = Head(p)
           /\ Head(p) \in pub[p].batch /\ Head(p) \in Claimed /\ Head(p).id \in Records
<1> DEFINE B == pub[p].batch
<1>1. /\ B \subseteq Claimed
      /\ \A c \in B : c.id \in Recorded /\ Stream[c.id] \in Nat /\ row[c.id].sequence \in Nat
  BY StreamAssumption DEF TypeOK, Publisher, Claimed, ClaimsSound, Recorded, Row
<1>2. \A c, d \in B : Stream[c.id] = Stream[d.id] /\ row[c.id].sequence = row[d.id].sequence
                         => c = d
  BY <1>1 DEF ClaimsSound, Numbered
<1>3. PICK c1 \in B : \A d \in B : Stream[c1.id] <= Stream[d.id]
  <2> DEFINE S == {Stream[c.id] : c \in B}
  <2>1. S \in SUBSET Nat /\ S # {}
    BY <1>1
  <2>2. PICK n \in S : \A m \in S : n <= m
    <3> HIDE DEF S
    <3> QED BY <2>1, Least
  <2> QED
    BY <2>2
<1>4. PICK c \in B : /\ Stream[c.id] = Stream[c1.id]
                     /\ \A d \in B : Stream[d.id] = Stream[c1.id] =>
                           row[c.id].sequence <= row[d.id].sequence
  <2> DEFINE C == {d \in B : Stream[d.id] = Stream[c1.id]}
             S == {row[d.id].sequence : d \in C}
  <2>1. S \in SUBSET Nat /\ S # {}
    BY <1>1
  <2>2. PICK n \in S : \A m \in S : n <= m
    <3> HIDE DEF S
    <3> QED BY <2>1, Least
  <2> QED
    BY <2>2
<1>5. \A d \in B \ {c} : Earlier(c.id, d.id)
  BY <1>1, <1>2, <1>3, <1>4 DEF Earlier
<1>6. Leads(p, c)
  BY <1>5 DEF Leads
<1>7. Leads(p, Head(p))
  BY <1>5, Zenon DEF Leads, Head
<1>8. ASSUME NEW a, NEW b, Leads(p, a), Leads(p, b) PROVE a = b
  BY <1>1, <1>8 DEF Leads, Earlier
<1>9. Head(p) \in B
  BY <1>7 DEF Leads
<1> QED
  BY <1>1, <1>7, <1>8, <1>9 DEF Recorded

\* The head of a batch stays the head while the batch stays.
LEMMA HeadKept ==
    ASSUME TypeOK, Numbered, ClaimsSound, NEW p \in Publishers, pub[p].batch # {},
           pub'[p].batch = pub[p].batch,
           \A r \in Recorded : row'[r].sequence = row[r].sequence
    PROVE  Head(p)' = Head(p)
<1>1. /\ Leads(p, Head(p))
      /\ \A claim : Leads(p, claim) => claim = Head(p)
  BY HeadLeads
<1>2. \A c, d \in pub[p].batch : Earlier(c.id, d.id)' <=> Earlier(c.id, d.id)
  BY DEF ClaimsSound, Earlier
<1>3. \A claim : Leads(p, claim)' <=> Leads(p, claim)
  BY <1>2, Zenon DEF Leads
<1>4. ASSUME NEW h, h = Head(p)' PROVE Leads(p, h)'
  <2>1. \E claim : Leads(p, claim)'
    BY <1>1, <1>3
  <2> QED
    BY <1>4, <2>1, Zenon DEF Leads, Head
<1> QED
  BY <1>1, <1>3, <1>4

\* A row of the table, column by column; whether a claim has expired is left open.
Columns(x, status, sequence, attempts, token, waiting) ==
    /\ x \in Row /\ x.status = status /\ x.sequence = sequence
    /\ x.attempt_count = attempts /\ x.claim_token = token /\ x.waiting = waiting

\* The rows that the outbox writes.
LEMMA RowForms ==
    ASSUME TypeOK, NEW r \in Records
    PROVE  /\ row[r] \in Row
           /\ \A n \in Nat, b \in BOOLEAN :
                 Columns([AbsentRow EXCEPT !.status = "pending", !.sequence = n, !.waiting = b],
                         "pending", n, 0, None, b)
           /\ Columns(ClaimedRow(r), "publishing", row[r].sequence, row[r].attempt_count,
                      claims[r] + 1, row[r].waiting)
           /\ \A s \in {"pending", "published"} :
                 Columns(Released(r, s), s, row[r].sequence, row[r].attempt_count,
                         None, row[r].waiting)
           /\ Columns(FailedRow(r),
                      IF row[r].attempt_count + 1 >= MaxAttempts THEN "dead_letter"
                                                                ELSE "pending",
                      row[r].sequence, row[r].attempt_count + 1, None, TRUE)
           /\ Columns([row[r] EXCEPT !.expired = TRUE], row[r].status, row[r].sequence,
                      row[r].attempt_count, row[r].claim_token, row[r].waiting)
           /\ Columns([row[r] EXCEPT !.waiting = FALSE], row[r].status, row[r].sequence,
                      row[r].attempt_count, row[r].claim_token, FALSE)
<1>1. row[r] \in Row /\ claims[r] + 1 \in Nat
  BY DEF TypeOK
<1>2. \A n \in Nat, b \in BOOLEAN :
         Columns([AbsentRow EXCEPT !.status = "pending", !.sequence = n, !.waiting = b],
                 "pending", n, 0, None, b)
  BY DEF AbsentRow, Row, Columns
<1>3. Columns(ClaimedRow(r), "publishing", row[r].sequence, row[r].attempt_count,
              claims[r] + 1, row[r].waiting)
  <2>1. ASSUME NEW t \in Nat
        PROVE  Columns([row[r] EXCEPT !.status = "publishing", !.claim_token = t,
                                      !.expired = FALSE],
                       "publishing", row[r].sequence, row[r].attempt_count, t, row[r].waiting)
    BY <1>1 DEF Row, Columns
  <2> QED
    BY <1>1, <2>1, Zenon DEF ClaimedRow, Token
<1>4. ASSUME NEW s \in {"pending", "published", "dead_letter"}
      PROVE  Columns(Released(r, s), s, row[r].sequence, row[r].attempt_count,
                     None, row[r].waiting)
  BY <1>1 DEF Released, Row, Final, Columns
<1>5. Columns(FailedRow(r),
              IF row[r].attempt_count + 1 >= MaxAttempts THEN "dead_letter" ELSE "pending",
              row[r].sequence, row[r].attempt_count + 1, None, TRUE)
  <2> DEFINE n == row[r].attempt_count + 1
             s == IF n >= MaxAttempts THEN "dead_letter" ELSE "pending"
             y == Released(r, s)
  <2>1. n \in Nat /\ s \in {"pending", "published", "dead_letter"}
    BY <1>1 DEF Row
  <2>2. /\ y \in Row /\ y.status = s /\ y.sequence = row[r].sequence
        /\ y.claim_token = None
    BY <2>1, <1>4 DEF Columns
  <2>3. FailedRow(r) = [y EXCEPT !.attempt_count = n, !.waiting = TRUE]
    BY DEF FailedRow
  <2> HIDE DEF y, n, s
  <2>4. Columns([y EXCEPT !.attempt_count = n, !.waiting = TRUE], s,
                row[r].sequence, n, None, TRUE)
    BY <2>1, <2>2 DEF Row, Columns
  <2> QED
    BY <2>3, <2>4 DEF n, s
<1>6. /\ Columns([row[r] EXCEPT !.expired = TRUE], row[r].status, row[r].sequence,
                 row[r].attempt_count, row[r].claim_token, row[r].waiting)
      /\ Columns([row[r] EXCEPT !.waiting = FALSE], row[r].status, row[r].sequence,
                 row[r].attempt_count, row[r].claim_token, FALSE)
  BY <1>1 DEF Row, Columns
<1> QED
  BY <1>1, <1>2, <1>3, <1>4, <1>5, <1>6

-----------------------------------------------------------------------------
(* What each statement does to the table *)

\* record inserts one row, pending, available now or soon.
LEMMA AfterRecord ==
    ASSUME TypeOK, NEW r \in Records, Record(r), Unique(r)
    PROVE  /\ row' \in [Records -> Row]
           /\ \A q \in Records \ {r} : row'[q] = row[q]
           /\ \E b \in BOOLEAN :
                 Columns(row'[r], "pending", producer[r].sequence, 0, None, b)
<1>1. producer[r].sequence \in Nat /\ row \in [Records -> Row]
  BY DEF TypeOK, Producer
<1>2. PICK b \in BOOLEAN :
          row' = [row EXCEPT ![r] = [AbsentRow EXCEPT !.status = "pending",
                                                      !.sequence = producer[r].sequence,
                                                      !.waiting = b]]
  BY Zenon DEF Record
<1>3. PICK x : /\ row' = [row EXCEPT ![r] = x]
               /\ Columns(x, "pending", producer[r].sequence, 0, None, b)
  BY <1>1, <1>2, RowForms, Zenon
<1> QED
  BY <1>1, <1>3 DEF Columns

\* How its call ends.
LEMMA CallRecords ==
    ASSUME TypeOK, NEW r \in Records, Record(r)
    PROVE  /\ producer[r].at = "checked"
           /\ producer' = [producer EXCEPT ![r].at =
                              IF Unique(r) THEN "recorded" ELSE "failed"]
           /\ producer' \in [Records -> Producer]
           /\ ~Unique(r) => row' = row
<1>1. /\ producer[r].at = "checked"
      /\ producer' = [producer EXCEPT ![r].at = IF Unique(r) THEN "recorded" ELSE "failed"]
      /\ ~Unique(r) => row' = row
  BY Zenon DEF Record
<1>2. producer' \in [Records -> Producer]
  BY <1>1 DEF TypeOK, Producer
<1> QED
  BY <1>1, <1>2

\* An elapsed lease or an ended backoff changes nothing else of its row.
LEMMA AfterTime ==
    ASSUME TypeOK, NEW r \in Records, Elapse(r) \/ BackoffEnds(r)
    PROVE  /\ row' \in [Records -> Row]
           /\ \A q \in Records \ {r} : row'[q] = row[q]
           /\ \/ Columns(row'[r], row[r].status, row[r].sequence, row[r].attempt_count,
                         row[r].claim_token, row[r].waiting)
              \/ Columns(row'[r], row[r].status, row[r].sequence, row[r].attempt_count,
                         row[r].claim_token, FALSE)
<1>1. row \in [Records -> Row]
  BY DEF TypeOK
<1>2. PICK x :
          /\ row' = [row EXCEPT ![r] = x]
          /\ \/ Columns(x, row[r].status, row[r].sequence, row[r].attempt_count,
                        row[r].claim_token, row[r].waiting)
             \/ Columns(x, row[r].status, row[r].sequence, row[r].attempt_count,
                        row[r].claim_token, FALSE)
  <2>1. CASE Elapse(r)
    <3>1. row' = [row EXCEPT ![r] = [row[r] EXCEPT !.expired = TRUE]]
      BY <2>1, Zenon DEF Elapse
    <3>2. Columns([row[r] EXCEPT !.expired = TRUE], row[r].status, row[r].sequence,
                  row[r].attempt_count, row[r].claim_token, row[r].waiting)
      BY RowForms
    <3> QED
      BY <3>1, <3>2, Zenon
  <2>2. CASE BackoffEnds(r)
    <3>1. row' = [row EXCEPT ![r] = [row[r] EXCEPT !.waiting = FALSE]]
      BY <2>2, Zenon DEF BackoffEnds
    <3>2. Columns([row[r] EXCEPT !.waiting = FALSE], row[r].status, row[r].sequence,
                  row[r].attempt_count, row[r].claim_token, FALSE)
      BY RowForms
    <3> QED
      BY <3>1, <3>2, Zenon
  <2> QED
    BY <2>1, <2>2
<1>3. x \in Row /\ row'[r] = x
  BY <1>1, <1>2 DEF Columns
<1> QED
  BY <1>1, <1>2, <1>3

\* reclaim_expired_claims gives rows back to pending with their attempts.
LEMMA AfterReclaim ==
    ASSUME TypeOK, NEW p \in Publishers, Reclaim(p)
    PROVE  /\ row' \in [Records -> Row]
           /\ \A q \in Records :
                 \/ row'[q] = row[q]
                 \/ /\ row[q].status = "publishing"
                    /\ Columns(row'[q], "pending", row[q].sequence, row[q].attempt_count,
                               None, row[q].waiting)
<1>1. row \in [Records -> Row]
  BY DEF TypeOK
<1>2. CASE p \in RunsLoop
  <2>1. row' = [r \in Records |-> IF row[r].status = "publishing" /\ row[r].expired
                                  THEN Released(r, "pending") ELSE row[r]]
    BY <1>2 DEF Reclaim
  <2>2. \A q \in Records : Columns(Released(q, "pending"), "pending", row[q].sequence,
                                   row[q].attempt_count, None, row[q].waiting)
    BY RowForms
  <2>3. \A q \in Records : Released(q, "pending") \in Row
    BY <2>2 DEF Columns
  <2> QED
    BY <1>1, <2>1, <2>2, <2>3
<1> QED
  BY <1>1, <1>2 DEF Reclaim

\* claim_batch marks the rows of its scan with fresh tokens.
LEMMA AfterClaim ==
    ASSUME TypeOK, NEW p \in Publishers, ClaimBatch(p)
    PROVE  /\ row' \in [Records -> Row]
           /\ \A q \in Records \ (locked[p] \intersect Pending) :
                 row'[q] = row[q] /\ claims'[q] = claims[q]
           /\ \A q \in locked[p] \intersect Pending :
                 /\ row[q].status = "pending"
                 /\ Columns(row'[q], "publishing", row[q].sequence, row[q].attempt_count,
                            claims[q] + 1, row[q].waiting)
                 /\ claims'[q] = claims[q] + 1
<1> DEFINE batch == locked[p] \intersect Pending
<1>1. row \in [Records -> Row] /\ batch \subseteq Records /\ claims \in [Records -> Nat]
  BY DEF TypeOK, Pending
<1>2. \A q \in Records : Columns(ClaimedRow(q), "publishing", row[q].sequence,
                                 row[q].attempt_count, claims[q] + 1, row[q].waiting)
  BY RowForms
<1>3. \A q \in Records : ClaimedRow(q) \in Row
  BY <1>2 DEF Columns
<1>4. /\ row' = [r \in Records |-> IF r \in batch THEN ClaimedRow(r) ELSE row[r]]
      /\ claims' = [r \in Records |-> IF r \in batch THEN claims[r] + 1 ELSE claims[r]]
  BY Zenon DEF ClaimBatch
<1>5. \A q \in batch : row[q].status = "pending"
  BY DEF Pending
<1> HIDE DEF batch
<1>6. /\ row' \in [Records -> Row]
      /\ \A q \in Records \ batch : row'[q] = row[q] /\ claims'[q] = claims[q]
      /\ \A q \in batch : row'[q] = ClaimedRow(q) /\ claims'[q] = claims[q] + 1
  BY <1>1, <1>3, <1>4
<1> QED
  BY <1>1, <1>2, <1>5, <1>6 DEF batch

\* A scan changes no row: it locks what it found, and remembers what it passed over.
LEMMA AfterScan ==
    ASSUME TypeOK, NEW p \in Publishers, Scan(p)
    PROVE  /\ row' = row /\ claims' = claims /\ delivered' = delivered
           /\ pub' \in [Publishers -> Publisher]
           /\ \A q \in Publishers \ {p} : pub'[q] = pub[q] /\ locked'[q] = locked[q]
           /\ pub[p].at = "claim" /\ pub'[p].at \in {"top", "claiming"}
           /\ pub'[p].batch = pub[p].batch
           /\ locked' \in [Publishers -> SUBSET Records]
           /\ Scanned(p, locked'[p])
           /\ passed' = passed \union PassedOver(p, locked'[p])
           /\ passed' \subseteq Records
<1>1. PICK batch \in SUBSET Visible(p) :
        /\ Scanned(p, batch)
        /\ locked' = [locked EXCEPT ![p] = batch]
        /\ passed' = passed \union PassedOver(p, batch)
        /\ pub' = [pub EXCEPT ![p].at = IF batch = {} THEN "top" ELSE "claiming"]
  BY Zenon DEF Scan
<1>2. batch \subseteq Records /\ PassedOver(p, batch) \subseteq Records
  BY DEF Visible, Pending, PassedOver
<1>3. locked'[p] = batch /\ locked' \in [Publishers -> SUBSET Records]
      /\ \A q \in Publishers \ {p} : locked'[q] = locked[q]
  BY <1>1, <1>2 DEF TypeOK
<1>4. /\ pub' \in [Publishers -> Publisher] /\ pub'[p].at \in {"top", "claiming"}
      /\ pub'[p].batch = pub[p].batch
      /\ \A q \in Publishers \ {p} : pub'[q] = pub[q]
  BY <1>1 DEF TypeOK, Publisher
<1>5. row' = row /\ claims' = claims /\ delivered' = delivered /\ pub[p].at = "claim"
  BY DEF Scan
<1>6. passed' \subseteq Records
  BY <1>1, <1>2 DEF TypeOK
<1> QED
  BY <1>1, <1>3, <1>4, <1>5, <1>6

\* What the copies of a new batch say.
LEMMA AfterClaimBatch ==
    ASSUME TypeOK, NEW p \in Publishers, ClaimBatch(p)
    PROVE  /\ \A q \in Publishers \ {p} : pub'[q] = pub[q] /\ locked'[q] = locked[q]
           /\ locked'[p] = {}
           /\ pub[p].at = "claiming" /\ pub'[p].at \in {"top", "deliver"}
           /\ pub'[p].batch = {} <=> pub'[p].at = "top"
           /\ \A c \in pub'[p].batch :
                 /\ c.id \in locked[p] \intersect Pending
                 /\ c = [id |-> c.id, claim_token |-> claims[c.id] + 1,
                         attempt_count |-> row[c.id].attempt_count]
<1> DEFINE batch == locked[p] \intersect Pending
           Copy(r) == [id |-> r, claim_token |-> claims[r] + 1,
                       attempt_count |-> row[r].attempt_count]
<1>1. /\ pub' = [pub EXCEPT ![p] = [at |-> IF batch = {} THEN "top" ELSE "deliver",
                                     batch |-> {Copy(r) : r \in batch}]]
      /\ locked' = [locked EXCEPT ![p] = {}] /\ pub[p].at = "claiming"
  BY Zenon DEF ClaimBatch, Token
<1>2. /\ \A q \in Publishers \ {p} : pub'[q] = pub[q] /\ locked'[q] = locked[q]
      /\ locked'[p] = {}
      /\ pub'[p].at = IF batch = {} THEN "top" ELSE "deliver"
      /\ pub'[p].batch = {Copy(r) : r \in batch}
  BY <1>1 DEF TypeOK
<1>3. {Copy(r) : r \in batch} = {} <=> batch = {}
  OBVIOUS
<1>4. \A r : Copy(r).id = r
  OBVIOUS
<1>5. \A c \in pub'[p].batch : c.id \in batch /\ c = Copy(c.id)
  <2> HIDE DEF batch, Copy
  <2> QED BY <1>2, <1>4
<1> QED
  BY <1>1, <1>2, <1>3, <1>5

\* mark_published changes the row at the head of the batch if the claim is owned.
LEMMA AfterPublished ==
    ASSUME TypeOK, Numbered, ClaimsSound, NEW p \in Publishers, MarkPublished(p)
    PROVE  /\ row' \in [Records -> Row]
           /\ Head(p) \in pub[p].batch /\ Head(p).id \in Records
           /\ \A q \in Records \ {Head(p).id} : row'[q] = row[q]
           /\ ~OwnsClaim(Head(p)) => row' = row
           /\ OwnsClaim(Head(p)) =>
                 Columns(row'[Head(p).id], "published", row[Head(p).id].sequence,
                         row[Head(p).id].attempt_count, None, row[Head(p).id].waiting)
<1> DEFINE h == Head(p)
<1>1. row \in [Records -> Row] /\ h \in pub[p].batch /\ h.id \in Records
  BY HeadLeads DEF TypeOK, ClaimsSound, MarkPublished
<1>2. CASE OwnsClaim(h)
  <2>1. row' = [row EXCEPT ![h.id] = Released(h.id, "published")]
    BY <1>2 DEF MarkPublished
  <2>2. Columns(Released(h.id, "published"), "published", row[h.id].sequence,
                row[h.id].attempt_count, None, row[h.id].waiting)
    BY <1>1, RowForms
  <2> QED
    BY <1>1, <1>2, <2>1, <2>2 DEF Columns
<1> QED
  BY <1>1, <1>2 DEF MarkPublished

\* mark_failed counts the attempt if the claim is owned, and may be the last.
LEMMA AfterFailed ==
    ASSUME TypeOK, Numbered, ClaimsSound, NEW p \in Publishers, MarkFailed(p)
    PROVE  /\ row' \in [Records -> Row]
           /\ Head(p) \in pub[p].batch /\ Head(p).id \in Records
           /\ \A q \in Records \ {Head(p).id} : row'[q] = row[q]
           /\ ~OwnsClaim(Head(p)) => row' = row
           /\ OwnsClaim(Head(p)) =>
                 Columns(row'[Head(p).id],
                         IF row[Head(p).id].attempt_count + 1 >= MaxAttempts
                         THEN "dead_letter" ELSE "pending",
                         row[Head(p).id].sequence, row[Head(p).id].attempt_count + 1,
                         None, TRUE)
<1> DEFINE h == Head(p)
<1>1. row \in [Records -> Row] /\ h \in pub[p].batch /\ h.id \in Records
  BY HeadLeads DEF TypeOK, ClaimsSound, MarkFailed
<1>2. CASE OwnsClaim(h)
  <2>1. row' = [row EXCEPT ![h.id] = FailedRow(h.id)]
    BY <1>2 DEF MarkFailed
  <2>2. Columns(FailedRow(h.id),
                IF row[h.id].attempt_count + 1 >= MaxAttempts THEN "dead_letter"
                                                              ELSE "pending",
                row[h.id].sequence, row[h.id].attempt_count + 1, None, TRUE)
    BY <1>1, RowForms
  <2>3. FailedRow(h.id) \in Row
    BY <2>2 DEF Columns
  <2>4. row'[h.id] = FailedRow(h.id) /\ row' \in [Records -> Row]
        /\ \A q \in Records \ {h.id} : row'[q] = row[q]
    BY <1>1, <2>1, <2>3
  <2> QED
    BY <1>1, <1>2, <2>2, <2>4
<1> QED
  BY <1>1, <1>2 DEF MarkFailed

\* Only record adds a row, and no step changes the number of one.
LEMMA RowsKept ==
    ASSUME TypeOK, Numbered, ClaimsSound, [Next]_vars, \A r \in Records : ~Record(r)
    PROVE  /\ Recorded' = Recorded
           /\ \A r \in Records : row'[r].sequence = row[r].sequence
           /\ \A r : InStream(r)' = InStream(r) /\ SameKey(r)' = SameKey(r)
<1> SUFFICES \A r \in Records : /\ row'[r].sequence = row[r].sequence
                                /\ row'[r].status = "absent" <=> row[r].status = "absent"
  BY DEF Recorded, InStream, SameKey
<1> USE DEF Columns
<1>1. CASE UNCHANGED row
  BY <1>1
<1>2. ASSUME NEW r \in Records, Elapse(r) \/ BackoffEnds(r)
      PROVE  \A q \in Records : /\ row'[q].sequence = row[q].sequence
                                /\ row'[q].status = "absent" <=> row[q].status = "absent"
  BY <1>2, AfterTime
<1>3. ASSUME NEW p \in Publishers, Reclaim(p)
      PROVE  \A q \in Records : /\ row'[q].sequence = row[q].sequence
                                /\ row'[q].status = "absent" <=> row[q].status = "absent"
  BY <1>3, AfterReclaim
<1>4. ASSUME NEW p \in Publishers, ClaimBatch(p)
      PROVE  \A q \in Records : /\ row'[q].sequence = row[q].sequence
                                /\ row'[q].status = "absent" <=> row[q].status = "absent"
  BY <1>4, AfterClaim
<1>5. ASSUME NEW p \in Publishers, MarkPublished(p) \/ MarkFailed(p)
      PROVE  \A q \in Records : /\ row'[q].sequence = row[q].sequence
                                /\ row'[q].status = "absent" <=> row[q].status = "absent"
  <2>1. CASE MarkPublished(p)
    <3>1. CASE OwnsClaim(Head(p))
      BY <2>1, <3>1, AfterPublished DEF OwnsClaim
    <3> QED
      BY <2>1, <3>1, AfterPublished
  <2>2. CASE MarkFailed(p)
    <3>1. CASE OwnsClaim(Head(p))
      <4>1. /\ row'[Head(p).id].status \in {"dead_letter", "pending"}
            /\ row'[Head(p).id].sequence = row[Head(p).id].sequence
        BY <2>2, <3>1, AfterFailed, Zenon
      <4> QED
        BY <2>2, <3>1, <4>1, AfterFailed DEF OwnsClaim
    <3> QED
      BY <2>2, <3>1, AfterFailed
  <2> QED
    BY <1>5, <2>1, <2>2
<1> QED
  BY <1>1, <1>2, <1>3, <1>4, <1>5
     DEF Next, vars, ProducerStep, PublisherStep, Allocate, CheckKey, Abort, Again,
         OutboxUnchanged, Scan, Deliver, NotifyDeadLetter, Crash, Boot

-----------------------------------------------------------------------------
(* The inductive invariant holds at first *)

\* An empty outbox satisfies the inductive invariant.
LEMMA InitIInv == Init => IInv
<1> SUFFICES ASSUME Init PROVE IInv
  OBVIOUS
<1> USE DEF Init
<1>1. TypeOK
  <2>1. AbsentRow \in Row
    BY DEF AbsentRow, Row
  <2> QED
    BY <2>1, OutboxBounds DEF TypeOK, Producer, Publisher
<1>2. \A r \in Records : row[r].status = "absent" /\ row[r].claim_token = None
                           /\ row[r].attempt_count = 0
  BY DEF AbsentRow
<1>3. Recorded = {}
  BY <1>2 DEF Recorded
<1>4. Numbered /\ OneRecordPerKey /\ LocksSound /\ ClaimedInOrder
  BY <1>3 DEF Numbered, OneRecordPerKey, LocksSound, ClaimedInOrder
<1>5. RowsSound
  BY <1>2, OutboxBounds DEF RowsSound
<1>6. ClaimsSound /\ HeadSound
  BY DEF ClaimsSound, HeadSound
<1>7. Told
  BY <1>2 DEF Told
<1> QED
  BY <1>1, <1>4, <1>5, <1>6, <1>7 DEF IInv

-----------------------------------------------------------------------------
(* Every step keeps it *)

\* The number a call carries is a number: next_sequence reads a length.
LEMMA TypeStep == IInv /\ [Next]_vars => TypeOK'
<1> SUFFICES ASSUME IInv, [Next]_vars PROVE TypeOK'
  OBVIOUS
<1> USE DEF IInv
<1>1. CASE UNCHANGED vars
  BY <1>1 DEF TypeOK, vars
<1>2. ASSUME NEW r \in Records, Allocate(r) PROVE TypeOK'
  <2>1. NextSequence(r) \in Nat
    BY NextSequenceIs, StreamFinite
  <2> QED
    BY <1>2, <2>1 DEF Allocate, OutboxUnchanged, TypeOK, Producer
<1>3. ASSUME NEW r \in Records, CheckKey(r) \/ Abort(r) \/ Again(r) PROVE TypeOK'
  BY <1>3 DEF CheckKey, Abort, Again, OutboxUnchanged, TypeOK, Producer
<1>4. ASSUME NEW r \in Records, Record(r) PROVE TypeOK'
  <2>1. producer' \in [Records -> Producer]
    BY <1>4, CallRecords
  <2>2. row' \in [Records -> Row]
    BY <1>4, AfterRecord DEF Record, TypeOK
  <2> QED
    BY <1>4, <2>1, <2>2 DEF Record, TypeOK
<1>5. ASSUME NEW r \in Records, Elapse(r) \/ BackoffEnds(r) PROVE TypeOK'
  <2>1. late' \in 0..MaxLate
    BY <1>5, OutboxBounds DEF Elapse, BackoffEnds, TypeOK
  <2> QED
    BY <1>5, <2>1, AfterTime DEF Elapse, BackoffEnds, TypeOK
<1>6. ASSUME NEW p \in Publishers, Reclaim(p) PROVE TypeOK'
  BY <1>6, AfterReclaim DEF Reclaim, TypeOK, Publisher
<1>7. ASSUME NEW p \in Publishers, ClaimBatch(p) PROVE TypeOK'
  <2> DEFINE batch == locked[p] \intersect Pending
  <2>1. pub' = [pub EXCEPT ![p] =
                [at |-> IF batch = {} THEN "top" ELSE "deliver",
                 batch |-> {[id |-> r, claim_token |-> Token(r),
                             attempt_count |-> row[r].attempt_count] : r \in batch}]]
    BY <1>7, Zenon DEF ClaimBatch
  <2>2. row' \in [Records -> Row]
    BY <1>7, AfterClaim
  <2>3. claims' \in [Records -> Nat]
    BY <1>7 DEF ClaimBatch, TypeOK
  <2>4. \A r \in batch : [id |-> r, claim_token |-> Token(r),
                          attempt_count |-> row[r].attempt_count] \in Claimed
    BY DEF Claimed, Pending, TypeOK, Row, Token
  <2>5. pub' \in [Publishers -> Publisher]
    <3> HIDE DEF batch
    <3> QED BY <2>1, <2>4 DEF TypeOK, Publisher
  <2> QED
    BY <1>7, <2>2, <2>3, <2>5 DEF ClaimBatch, TypeOK
<1>14. ASSUME NEW p \in Publishers, Scan(p) PROVE TypeOK'
  BY <1>14, AfterScan DEF Scan, TypeOK
<1>8. ASSUME NEW p \in Publishers, Deliver(p) PROVE TypeOK'
  <2>1. Head(p).id \in Records
    BY <1>8, HeadLeads DEF Deliver, ClaimsSound
  <2> QED
    BY <1>8, <2>1 DEF Deliver, TypeOK, Publisher
<1>9. ASSUME NEW p \in Publishers, Continue(p) PROVE pub' \in [Publishers -> Publisher]
  BY <1>9 DEF Continue, TypeOK, Publisher
<1>10. ASSUME NEW p \in Publishers, MarkPublished(p) PROVE TypeOK'
  BY <1>9, <1>10, AfterPublished DEF MarkPublished, TypeOK
<1>11. ASSUME NEW p \in Publishers, MarkFailed(p) PROVE TypeOK'
  <2>1. pub' \in [Publishers -> Publisher]
    BY <1>9, <1>11 DEF MarkFailed, TypeOK, Publisher
  <2> QED
    BY <1>11, <2>1, AfterFailed DEF MarkFailed, TypeOK
<1>12. ASSUME NEW p \in Publishers, NotifyDeadLetter(p) PROVE TypeOK'
  <2>1. Head(p).id \in Records
    BY <1>12, HeadLeads DEF NotifyDeadLetter, ClaimsSound
  <2> QED
    BY <1>9, <1>12, <2>1 DEF NotifyDeadLetter, TypeOK
<1>13. ASSUME NEW p \in Publishers, Crash(p) \/ Boot(p) PROVE TypeOK'
  <2>1. crashes' \in 0..MaxCrashes
    BY <1>13, OutboxBounds DEF Crash, Boot, TypeOK
  <2>2. locked' \in [Publishers -> SUBSET Records]
    BY <1>13 DEF Crash, Boot, TypeOK
  <2>3. pub' \in [Publishers -> Publisher]
    <3>1. CASE pub' = [pub EXCEPT ![p] = [at |-> "down", batch |-> {}]]
      BY <3>1 DEF TypeOK, Publisher
    <3>2. CASE pub' = [pub EXCEPT ![p].at = "top"]
      BY <3>2 DEF TypeOK, Publisher
    <3> QED
      BY <1>13, <3>1, <3>2 DEF Crash, Boot
  <2> QED
    BY <1>13, <2>1, <2>2, <2>3 DEF Crash, Boot, TypeOK
<1> QED
  BY <1>1, <1>2, <1>3, <1>4, <1>5, <1>6, <1>7, <1>8, <1>10, <1>11, <1>12, <1>13, <1>14
     DEF Next, ProducerStep, PublisherStep

\* The numbers of a stream stay different and dense: a call that read its number
\* before others committed either has the next one or loses to the constraint.
LEMMA NumberedStep == IInv /\ [Next]_vars => Numbered'
<1> SUFFICES ASSUME IInv, [Next]_vars PROVE Numbered'
  OBVIOUS
<1> USE DEF IInv
<1>1. CASE \A r \in Records : ~Record(r)
  <2>1. /\ Recorded' = Recorded
        /\ \A r \in Records : row'[r].sequence = row[r].sequence
        /\ \A r : InStream(r)' = InStream(r)
    BY <1>1, RowsKept
  <2>2. \A r \in Records : Cardinality(InStream(r)) \in Nat
    BY StreamFinite
  <2>3. CASE UNCHANGED producer
    BY <2>1, <2>3 DEF Numbered, Recorded
  <2>4. ASSUME NEW r \in Records, Allocate(r) \/ CheckKey(r) \/ Abort(r) \/ Again(r)
        PROVE  \A q \in Records :
                  /\ producer'[q].at = "recorded" <=> producer[q].at = "recorded"
                  /\ producer'[q].at \in {"sequenced", "checked"} =>
                        producer'[q].sequence <= Cardinality(InStream(q))
    <3>1. NextSequence(r) = Cardinality(InStream(r))
      BY NextSequenceIs
    <3> QED
      BY <2>2, <2>4, <3>1
         DEF Allocate, CheckKey, Abort, Again, TypeOK, Producer, Numbered
  <2>5. ASSUME NEW r \in Records, Allocate(r) \/ CheckKey(r) \/ Abort(r) \/ Again(r)
        PROVE  Numbered'
    BY <2>1, <2>4, <2>5 DEF Numbered, Recorded
  <2> QED
    BY <1>1, <2>3, <2>5
       DEF Next, vars, ProducerStep, PublisherStep, Reclaim, Scan, ClaimBatch, Deliver,
           MarkPublished, MarkFailed, NotifyDeadLetter, Crash, Boot, Elapse, BackoffEnds
<1>2. ASSUME NEW r \in Records, Record(r), ~Unique(r) PROVE Numbered'
  <2>1. /\ Recorded' = Recorded /\ \A q : InStream(q)' = InStream(q)
        /\ row' = row
    BY <1>2 DEF Record, Recorded, InStream
  <2>2. /\ producer' = [producer EXCEPT ![r].at = "failed"]
        /\ producer[r].at = "checked"
    BY <1>2, CallRecords
  <2>3. \A q \in Records :
          /\ producer'[q].at = "recorded" <=> producer[q].at = "recorded"
          /\ producer'[q].at \in {"sequenced", "checked"} => producer'[q] = producer[q]
    BY <2>2 DEF TypeOK, Producer
  <2> QED
    BY <2>1, <2>3 DEF Numbered
<1>3. ASSUME NEW r \in Records, Record(r), Unique(r) PROVE Numbered'
  <2> DEFINE s == producer[r].sequence
  <2>1. /\ \A q \in Records \ {r} : row'[q] = row[q]
        /\ row'[r].status = "pending" /\ row'[r].sequence = s
    BY <1>3, AfterRecord DEF Columns
  <2>2. /\ producer' = [producer EXCEPT ![r].at = "recorded"]
        /\ producer[r].at = "checked"
    BY <1>3 DEF Record
  <2>3. r \notin Recorded /\ Recorded' = Recorded \union {r}
    BY <2>1, <2>2 DEF Numbered, Recorded
  <2>4. ASSUME NEW q \in Records
        PROVE  /\ Stream[q] # Stream[r] => InStream(q)' = InStream(q)
               /\ Stream[q] = Stream[r] =>
                     Cardinality(InStream(q)') = Cardinality(InStream(r)) + 1
    <3>1. CASE Stream[q] # Stream[r]
      BY <2>3, <3>1 DEF InStream
    <3>2. CASE Stream[q] = Stream[r]
      <4>1. InStream(q)' = InStream(r) \union {r} /\ r \notin InStream(r)
        BY <2>3, <3>2 DEF InStream
      <4> QED
        BY <3>2, <4>1, StreamFinite, FS_AddElement
    <3> QED
      BY <3>1, <3>2
  <2>5. /\ \A q \in Records : Cardinality(InStream(q)) \in Nat
        /\ s \in Nat /\ s <= Cardinality(InStream(r))
    BY <2>2, StreamFinite DEF Numbered, TypeOK, Producer
  <2>6. \A q \in Recorded : Stream[q] = Stream[r] => row[q].sequence # s
    BY <1>3 DEF Unique, InStream
  <2>7. \A q \in Recorded : Stream[q] = Stream[r] =>
           row[q].sequence < Cardinality(InStream(r))
    <3>1. \A q \in Recorded : Stream[q] = Stream[r] => InStream(q) = InStream(r)
      BY DEF InStream
    <3> QED
      BY <3>1 DEF Numbered
  <2>8. \A q \in Recorded' : row'[q].sequence < Cardinality(InStream(q)')
    <3>1. \A q \in Recorded : row[q].sequence \in Nat /\ q \in Records
      BY DEF Recorded, TypeOK, Row
    <3> QED
      BY <2>1, <2>3, <2>4, <2>5, <2>7, <3>1 DEF Numbered
  <2>9. \A p, q \in Recorded' :
           Stream[p] = Stream[q] /\ row'[p].sequence = row'[q].sequence => p = q
    BY <2>1, <2>3, <2>6 DEF Numbered, Recorded
  <2>10. \A q \in Records : q \in Recorded' <=> producer'[q].at = "recorded"
    BY <2>2, <2>3 DEF Numbered, TypeOK, Producer
  <2>11. \A q \in Records : producer'[q].at \in {"sequenced", "checked"} =>
            producer'[q].sequence <= Cardinality(InStream(q)')
    <3>1. \A q \in Records : producer[q].sequence \in Nat
      BY DEF TypeOK, Producer
    <3>2. \A q \in Records : Stream[q] = Stream[r] => InStream(q) = InStream(r)
      BY DEF InStream
    <3> QED
      BY <2>2, <2>4, <2>5, <3>1, <3>2 DEF Numbered, TypeOK
  <2> QED
    BY <2>8, <2>9, <2>10, <2>11 DEF Numbered
<1> QED
  BY <1>1, <1>2, <1>3

\* One event for each key, and one that is found by whoever answers False.
LEMMA KeysStep == IInv /\ [Next]_vars => OneRecordPerKey'
<1> SUFFICES ASSUME IInv, [Next]_vars PROVE OneRecordPerKey'
  OBVIOUS
<1> USE DEF IInv
<1>1. CASE \A r \in Records : ~Record(r)
  <2>1. Recorded' = Recorded /\ \A r : SameKey(r)' = SameKey(r)
    BY <1>1, RowsKept
  <2>2. \A r \in Records : producer'[r].at = "duplicate" => SameKey(r) # {}
    <3>1. CASE UNCHANGED producer
      BY <3>1 DEF OneRecordPerKey
    <3>2. ASSUME NEW r \in Records, Allocate(r) \/ CheckKey(r) \/ Abort(r) \/ Again(r)
          PROVE  \A q \in Records : producer'[q].at = "duplicate" => SameKey(q) # {}
      <4>1. \A q \in Records \ {r} : producer'[q] = producer[q]
        BY <3>2 DEF Allocate, CheckKey, Abort, Again, TypeOK
      <4>2. producer'[r].at = "duplicate" => SameKey(r) # {}
        BY <3>2 DEF Allocate, CheckKey, Abort, Again, TypeOK, Producer
      <4> QED
        BY <4>1, <4>2 DEF OneRecordPerKey
    <3> QED
      BY <1>1, <3>1, <3>2
         DEF Next, vars, ProducerStep, PublisherStep, Reclaim, Scan, ClaimBatch, Deliver,
             MarkPublished, MarkFailed, NotifyDeadLetter, Crash, Boot, Elapse, BackoffEnds
  <2> QED
    BY <2>1, <2>2 DEF OneRecordPerKey
<1>2. ASSUME NEW r \in Records, Record(r) PROVE OneRecordPerKey'
  <2>1. /\ Recorded \subseteq Recorded'
        /\ \A q \in Recorded' : q \in Recorded \/ (q = r /\ SameKey(r) = {})
    <3>1. CASE Unique(r)
      BY <1>2, <3>1, AfterRecord DEF Recorded, Columns, Unique, TypeOK
    <3>2. CASE ~Unique(r)
      BY <1>2, <3>2 DEF Record, Recorded
    <3> QED
      BY <3>1, <3>2
  <2>2. \A q \in Records : producer'[q].at = "duplicate" => producer[q].at = "duplicate"
    BY <1>2 DEF Record, TypeOK, Producer
  <2>3. \A q : SameKey(q) \subseteq SameKey(q)'
    BY <2>1 DEF SameKey
  <2>4. \A q \in Recorded : Key[q] = Key[r] /\ Key[r] # None => SameKey(r) # {}
    BY DEF SameKey
  <2> QED
    BY <2>1, <2>2, <2>3, <2>4 DEF OneRecordPerKey
<1> QED
  BY <1>1, <1>2

\* The columns keep telling the same story.
LEMMA RowsStep == IInv /\ [Next]_vars => RowsSound'
<1> SUFFICES ASSUME IInv, [Next]_vars PROVE RowsSound'
  OBVIOUS
<1> USE DEF IInv
<1>1. \A r \in Records : /\ row[r].attempt_count \in Nat /\ claims[r] \in Nat
                         /\ row[r].claim_token \in Nat \union {None}
  BY DEF TypeOK, Row
<1>2. CASE UNCHANGED <<row, claims, delivered>>
  BY <1>2 DEF RowsSound
<1>3. ASSUME NEW r \in Records, Record(r), Unique(r) PROVE RowsSound'
  <2>1. row[r].status = "absent"
    BY <1>3 DEF Record, Numbered, Recorded
  <2>2. claims' = claims /\ delivered' = delivered
    BY <1>3 DEF Record
  <2> QED
    BY <1>3, <2>1, <2>2, AfterRecord, OutboxBounds DEF RowsSound, Columns
<1>4. ASSUME NEW r \in Records, Elapse(r) \/ BackoffEnds(r) PROVE RowsSound'
  <2>1. claims' = claims /\ delivered' = delivered
    BY <1>4 DEF Elapse, BackoffEnds
  <2> QED
    BY <1>4, <2>1, AfterTime DEF RowsSound, Columns
<1>5. ASSUME NEW p \in Publishers, Reclaim(p) PROVE RowsSound'
  <2>1. claims' = claims /\ delivered' = delivered
    BY <1>5 DEF Reclaim
  <2> QED
    BY <1>1, <1>5, <2>1, AfterReclaim DEF RowsSound, Columns
<1>6. ASSUME NEW p \in Publishers, ClaimBatch(p) PROVE RowsSound'
  <2> DEFINE batch == locked[p] \intersect Pending
  <2>1. delivered' = delivered
    BY <1>6 DEF ClaimBatch
  <2>2. /\ \A q \in Records \ batch : row'[q] = row[q] /\ claims'[q] = claims[q]
        /\ \A q \in batch : /\ row[q].status = "pending"
                            /\ row'[q].status = "publishing"
                            /\ row'[q].attempt_count = row[q].attempt_count
                            /\ row'[q].claim_token = claims[q] + 1
                            /\ claims'[q] = claims[q] + 1
    BY <1>6, AfterClaim DEF Columns
  <2> HIDE DEF batch
  <2> QED
    BY <1>1, <2>1, <2>2, TokensAssumption DEF RowsSound
<1>7. ASSUME NEW p \in Publishers, Deliver(p) PROVE RowsSound'
  BY <1>7 DEF Deliver, RowsSound
<1>8. ASSUME NEW p \in Publishers, MarkPublished(p) PROVE RowsSound'
  <2>1. claims' = claims /\ delivered' = delivered /\ Head(p).id \in delivered
    BY <1>8 DEF MarkPublished, HeadSound
  <2>2. CASE OwnsClaim(Head(p))
    BY <1>1, <1>8, <2>1, <2>2, AfterPublished DEF RowsSound, Columns, OwnsClaim
  <2>3. CASE ~OwnsClaim(Head(p))
    BY <1>8, <2>1, <2>3, AfterPublished DEF RowsSound
  <2> QED
    BY <2>2, <2>3
<1>9. ASSUME NEW p \in Publishers, MarkFailed(p) PROVE RowsSound'
  <2>1. claims' = claims /\ delivered' = delivered
    BY <1>9 DEF MarkFailed
  <2>2. CASE OwnsClaim(Head(p))
    <3> DEFINE h == Head(p).id
               n == row[h].attempt_count + 1
    <3>1. /\ h \in Records /\ \A q \in Records \ {h} : row'[q] = row[q]
          /\ row'[h].status = IF n >= MaxAttempts THEN "dead_letter" ELSE "pending"
          /\ row'[h].attempt_count = n /\ row'[h].claim_token = None
      BY <1>9, <2>2, AfterFailed DEF Columns
    <3>2. n \in Nat
      BY <1>1, <3>1
    <3> HIDE DEF h, n
    <3> QED
      BY <2>1, <3>1, <3>2, OutboxBounds DEF RowsSound
  <2>3. CASE ~OwnsClaim(Head(p))
    BY <1>9, <2>1, <2>3, AfterFailed DEF RowsSound
  <2> QED
    BY <2>2, <2>3
<1> QED
  BY <1>2, <1>3, <1>4, <1>5, <1>6, <1>7, <1>8, <1>9
     DEF Next, vars, ProducerStep, PublisherStep, Allocate, CheckKey, Abort, Again, Record,
         OutboxUnchanged, Scan, NotifyDeadLetter, Crash, Boot

\* Rows stay recorded, and dead letters dead.
LEMMA RowsStay ==
    ASSUME IInv, [Next]_vars, NEW r \in Records
    PROVE  /\ r \in Recorded => r \in Recorded' /\ row'[r].sequence = row[r].sequence
           /\ row[r].status = "dead_letter" => row'[r].status = "dead_letter"
<1> USE DEF IInv
<1>1. r \in Recorded => r \in Recorded' /\ row'[r].sequence = row[r].sequence
  <2>1. CASE \A q \in Records : ~Record(q)
    BY <2>1, RowsKept
  <2>2. ASSUME NEW q \in Records, Record(q), Unique(q)
        PROVE  r \in Recorded => r \in Recorded' /\ row'[r].sequence = row[r].sequence
    BY <2>2, AfterRecord DEF Record, Numbered, Recorded
  <2>3. ASSUME NEW q \in Records, Record(q), ~Unique(q)
        PROVE  r \in Recorded => r \in Recorded' /\ row'[r].sequence = row[r].sequence
    BY <2>3 DEF Record, Recorded
  <2> QED
    BY <2>1, <2>2, <2>3
<1>2. ASSUME row[r].status = "dead_letter" PROVE row'[r].status = "dead_letter"
  <2>1. CASE UNCHANGED row
    BY <1>2, <2>1
  <2>2. ASSUME NEW q \in Records, Record(q), Unique(q) PROVE row'[r].status = "dead_letter"
    BY <1>2, <2>2, AfterRecord DEF Record, Numbered, Recorded
  <2>3. ASSUME NEW q \in Records, Elapse(q) \/ BackoffEnds(q)
        PROVE  row'[r].status = "dead_letter"
    BY <1>2, <2>3, AfterTime DEF Columns
  <2>4. ASSUME NEW p \in Publishers, Reclaim(p) PROVE row'[r].status = "dead_letter"
    BY <1>2, <2>4, AfterReclaim
  <2>5. ASSUME NEW p \in Publishers, ClaimBatch(p) PROVE row'[r].status = "dead_letter"
    BY <1>2, <2>5, AfterClaim
  <2>6. ASSUME NEW p \in Publishers, MarkPublished(p) PROVE row'[r].status = "dead_letter"
    BY <1>2, <2>6, AfterPublished DEF OwnsClaim
  <2>7. ASSUME NEW p \in Publishers, MarkFailed(p) PROVE row'[r].status = "dead_letter"
    BY <1>2, <2>7, AfterFailed DEF OwnsClaim
  <2> QED
    BY <2>1, <2>2, <2>3, <2>4, <2>5, <2>6, <2>7
       DEF Next, vars, ProducerStep, PublisherStep, Allocate, CheckKey, Abort, Again, Record,
           OutboxUnchanged, Scan, Deliver, NotifyDeadLetter, Crash, Boot
<1> QED
  BY <1>1, <1>2

\* What a step other than a scan does to a claim: none is made, and one that is owned
\* afterwards was owned before, with the same attempts.
LEMMA ClaimsOnlyEnd ==
    ASSUME IInv, [Next]_vars, \A p \in Publishers : ~ClaimBatch(p)
    PROVE  /\ claims' = claims
           /\ \A p \in Publishers : pub'[p].batch \subseteq pub[p].batch
           /\ \A r \in Records : row'[r].status = "publishing" =>
                 /\ row[r].status = "publishing"
                 /\ row'[r].claim_token = row[r].claim_token
                 /\ row'[r].attempt_count = row[r].attempt_count
<1> USE DEF IInv
<1>1. claims' = claims
  BY DEF Next, vars, ProducerStep, PublisherStep, Allocate, CheckKey, Abort, Again, Record,
         OutboxUnchanged, Elapse, BackoffEnds, Reclaim, Scan, Deliver, MarkPublished, MarkFailed,
         NotifyDeadLetter, Crash, Boot
<1>2. \A p \in Publishers : pub'[p].batch \subseteq pub[p].batch
  <2>1. CASE UNCHANGED pub
    BY <2>1
  <2>2. ASSUME NEW q \in Publishers, Continue(q)
        PROVE  \A p \in Publishers : pub'[p].batch \subseteq pub[p].batch
    BY <2>2 DEF Continue, TypeOK, Publisher
  <2>3. ASSUME NEW q \in Publishers, Reclaim(q) \/ Deliver(q) \/ Crash(q) \/ Boot(q)
        PROVE  \A p \in Publishers : pub'[p].batch \subseteq pub[p].batch
    BY <2>3 DEF Reclaim, Deliver, Crash, Boot, TypeOK, Publisher
  <2>5. ASSUME NEW q \in Publishers, Scan(q)
        PROVE  \A p \in Publishers : pub'[p].batch \subseteq pub[p].batch
    BY <2>5, AfterScan
  <2>4. ASSUME NEW q \in Publishers,
               MarkPublished(q) \/ MarkFailed(q) \/ NotifyDeadLetter(q)
        PROVE  \A p \in Publishers : pub'[p].batch \subseteq pub[p].batch
    BY <2>2, <2>4 DEF MarkPublished, MarkFailed, NotifyDeadLetter, TypeOK, Publisher
  <2> QED
    BY <2>1, <2>3, <2>4, <2>5
       DEF Next, vars, ProducerStep, PublisherStep, Allocate, CheckKey, Abort, Again,
           Record, OutboxUnchanged, Elapse, BackoffEnds
<1>3. ASSUME NEW r \in Records, row'[r].status = "publishing"
      PROVE  /\ row[r].status = "publishing"
             /\ row'[r].claim_token = row[r].claim_token
             /\ row'[r].attempt_count = row[r].attempt_count
  <2>1. CASE UNCHANGED row
    BY <1>3, <2>1
  <2>2. ASSUME NEW q \in Records, Record(q), Unique(q) PROVE row'[r] = row[r]
    BY <1>3, <2>2, AfterRecord DEF Columns
  <2>3. ASSUME NEW q \in Records, Elapse(q) \/ BackoffEnds(q)
        PROVE  /\ row[r].status = "publishing"
               /\ row'[r].claim_token = row[r].claim_token
               /\ row'[r].attempt_count = row[r].attempt_count
    BY <1>3, <2>3, AfterTime DEF Columns
  <2>4. ASSUME NEW p \in Publishers, Reclaim(p) PROVE row'[r] = row[r]
    BY <1>3, <2>4, AfterReclaim DEF Columns
  <2>5. ASSUME NEW p \in Publishers, MarkPublished(p) PROVE row'[r] = row[r]
    <3>1. CASE OwnsClaim(Head(p))
      BY <1>3, <2>5, <3>1, AfterPublished DEF Columns
    <3> QED
      BY <2>5, <3>1, AfterPublished
  <2>6. ASSUME NEW p \in Publishers, MarkFailed(p) PROVE row'[r] = row[r]
    <3>1. CASE OwnsClaim(Head(p))
      BY <1>3, <2>6, <3>1, AfterFailed DEF Columns
    <3> QED
      BY <2>6, <3>1, AfterFailed
  <2> QED
    BY <1>3, <2>1, <2>2, <2>3, <2>4, <2>5, <2>6
       DEF Next, vars, ProducerStep, PublisherStep, Allocate, CheckKey, Abort, Again, Record,
           OutboxUnchanged, Scan, Deliver, NotifyDeadLetter, Crash, Boot
<1> QED
  BY <1>1, <1>2, <1>3

\* A publisher works on a batch exactly while it has one.
LEMMA BatchesStep ==
    IInv /\ [Next]_vars =>
       \A p \in Publishers : pub'[p].batch = {} <=> pub'[p].at \in {"top", "claim", "claiming", "down"}
<1> SUFFICES ASSUME IInv, [Next]_vars, NEW p \in Publishers
             PROVE  pub'[p].batch = {} <=> pub'[p].at \in {"top", "claim", "claiming", "down"}
  OBVIOUS
<1> USE DEF IInv
<1>1. CASE UNCHANGED pub
  BY <1>1 DEF ClaimsSound
<1>2. ASSUME NEW q \in Publishers, Continue(q)
      PROVE  pub'[p].batch = {} <=> pub'[p].at \in {"top", "claim", "claiming", "down"}
  BY <1>2 DEF Continue, TypeOK, Publisher, ClaimsSound
<1>3. ASSUME NEW q \in Publishers, Reclaim(q) \/ Deliver(q) \/ Crash(q) \/ Boot(q)
      PROVE  pub'[p].batch = {} <=> pub'[p].at \in {"top", "claim", "claiming", "down"}
  BY <1>3 DEF Reclaim, Deliver, Crash, Boot, TypeOK, Publisher, ClaimsSound
<1>4. ASSUME NEW q \in Publishers, Scan(q) \/ ClaimBatch(q)
      PROVE  pub'[p].batch = {} <=> pub'[p].at \in {"top", "claim", "claiming", "down"}
  <2>1. CASE Scan(q)
    BY <2>1, AfterScan DEF ClaimsSound
  <2>2. CASE ClaimBatch(q)
    BY <2>2, AfterClaimBatch DEF ClaimsSound
  <2> QED
    BY <1>4, <2>1, <2>2
<1>5. ASSUME NEW q \in Publishers, MarkPublished(q) \/ MarkFailed(q) \/ NotifyDeadLetter(q)
      PROVE  pub'[p].batch = {} <=> pub'[p].at \in {"top", "claim", "claiming", "down"}
  BY <1>2, <1>5 DEF MarkPublished, MarkFailed, NotifyDeadLetter, TypeOK, Publisher, ClaimsSound
<1> QED
  BY <1>1, <1>3, <1>4, <1>5
     DEF Next, vars, ProducerStep, PublisherStep, Allocate, CheckKey, Abort, Again,
         Record, OutboxUnchanged, Elapse, BackoffEnds

\* Tokens are fresh: a claim made now differs from every claim of its row before.
LEMMA ClaimsStep == IInv /\ [Next]_vars => ClaimsSound'
<1> SUFFICES ASSUME IInv, [Next]_vars PROVE ClaimsSound'
  OBVIOUS
<1> USE DEF IInv
<1>1. \A r \in Recorded : r \in Records /\ r \in Recorded'
  BY RowsStay DEF Recorded
<1>2. \A p \in Publishers : pub'[p].batch = {} <=> pub'[p].at \in {"top", "claim", "claiming", "down"}
  BY BatchesStep
<1>3. CASE \A p \in Publishers : ~ClaimBatch(p)
  <2>1. /\ claims' = claims
        /\ \A p \in Publishers : pub'[p].batch \subseteq pub[p].batch
        /\ \A r \in Records : row'[r].status = "publishing" =>
              /\ row[r].status = "publishing"
              /\ row'[r].claim_token = row[r].claim_token
              /\ row'[r].attempt_count = row[r].attempt_count
    BY <1>3, ClaimsOnlyEnd
  <2>2. ASSUME NEW p \in Publishers, NEW c \in pub'[p].batch
        PROVE  /\ c.id \in Recorded'
               /\ c.claim_token > 0 /\ c.claim_token <= claims'[c.id]
               /\ OwnsClaim(c)' => c.attempt_count = row'[c.id].attempt_count
    <3>1. c \in pub[p].batch
      BY <2>1
    <3>2. c.id \in Recorded /\ c.id \in Records
      BY <1>1, <3>1 DEF ClaimsSound
    <3>3. OwnsClaim(c)' => OwnsClaim(c) /\ row'[c.id].attempt_count = row[c.id].attempt_count
      BY <2>1, <3>2 DEF OwnsClaim
    <3> QED
      BY <1>1, <2>1, <3>1, <3>2, <3>3 DEF ClaimsSound
  <2>3. /\ \A p \in Publishers : \A c, d \in pub'[p].batch : c.id = d.id => c = d
        /\ \A p, q \in Publishers : \A c \in pub'[p].batch, d \in pub'[q].batch :
              c.id = d.id /\ c.claim_token = d.claim_token => p = q
    BY <2>1 DEF ClaimsSound
  <2> QED
    BY <1>2, <2>2, <2>3 DEF ClaimsSound
<1>4. ASSUME NEW p \in Publishers, ClaimBatch(p) PROVE ClaimsSound'
  <2> DEFINE batch == locked[p] \intersect Pending
             Copy(r) == [id |-> r, claim_token |-> claims[r] + 1,
                         attempt_count |-> row[r].attempt_count]
  <2>1. /\ \A q \in Records \ batch : row'[q] = row[q] /\ claims'[q] = claims[q]
        /\ \A q \in batch : /\ row'[q].attempt_count = row[q].attempt_count
                            /\ row'[q].claim_token = claims[q] + 1
                            /\ claims'[q] = claims[q] + 1
    BY <1>4, AfterClaim DEF Columns
  <2>2. /\ batch \subseteq Recorded /\ batch \subseteq Records
        /\ \A r \in Records : claims[r] \in Nat
    BY DEF Pending, Recorded, TypeOK
  <2>3. /\ \A q \in Publishers \ {p} : pub'[q] = pub[q]
        /\ \A c \in pub'[p].batch : c.id \in batch /\ c = Copy(c.id)
    BY <1>4, AfterClaimBatch
  <2> HIDE DEF batch
  <2>4. ASSUME NEW c \in pub'[p].batch
        PROVE  /\ c.id \in batch /\ c.claim_token = claims[c.id] + 1
               /\ c = Copy(c.id)
               /\ c.attempt_count = row'[c.id].attempt_count
               /\ claims'[c.id] = claims[c.id] + 1
    <3>1. c.id \in batch /\ c = Copy(c.id)
      BY <2>3
    <3>2. Copy(c.id).claim_token = claims[c.id] + 1
          /\ Copy(c.id).attempt_count = row[c.id].attempt_count
      OBVIOUS
    <3> HIDE DEF Copy
    <3> QED
      BY <2>1, <3>1, <3>2
  <2> HIDE DEF Copy
  <2>5. ASSUME NEW q \in Publishers \ {p}, NEW c \in pub'[q].batch
        PROVE  /\ c \in pub[q].batch /\ c.id \in Recorded /\ c.claim_token \in Nat
               /\ c.claim_token > 0 /\ c.claim_token <= claims[c.id]
               /\ c.claim_token <= claims'[c.id]
               /\ OwnsClaim(c)' => c.attempt_count = row'[c.id].attempt_count
    <3>1. c \in pub[q].batch
      BY <2>3
    <3>2. /\ c.id \in Recorded /\ c.id \in Records /\ c.claim_token \in Nat
          /\ c.claim_token > 0 /\ c.claim_token <= claims[c.id]
      BY <1>1, <3>1 DEF ClaimsSound, TypeOK, Publisher, Claimed
    <3>3. CASE c.id \in batch
      <4>1. row'[c.id].claim_token = claims[c.id] + 1
        BY <2>1, <3>3
      <4> QED
        BY <2>1, <2>2, <3>1, <3>2, <3>3, <4>1 DEF OwnsClaim
    <3>4. CASE c.id \notin batch
      <4>1. row'[c.id] = row[c.id] /\ claims'[c.id] = claims[c.id]
        BY <2>1, <3>2, <3>4
      <4> QED
        BY <3>1, <3>2, <4>1 DEF OwnsClaim, ClaimsSound
    <3> QED
      BY <3>3, <3>4
  <2>6. \A q \in Publishers : \A c \in pub'[q].batch :
          /\ c.id \in Recorded'
          /\ c.claim_token > 0 /\ c.claim_token <= claims'[c.id]
          /\ OwnsClaim(c)' => c.attempt_count = row'[c.id].attempt_count
    BY <1>1, <2>2, <2>4, <2>5
  <2>7. \A q \in Publishers : \A c, d \in pub'[q].batch : c.id = d.id => c = d
    BY <2>4, <2>5 DEF ClaimsSound
  <2>8. ASSUME NEW a \in Publishers, NEW b \in Publishers, NEW c \in pub'[a].batch,
               NEW d \in pub'[b].batch, c.id = d.id, c.claim_token = d.claim_token
        PROVE  a = b
    <3>1. CASE a = p /\ b # p
      BY <2>2, <2>4, <2>5, <2>8, <3>1
    <3>2. CASE a # p /\ b = p
      BY <2>2, <2>4, <2>5, <2>8, <3>2
    <3>3. CASE a # p /\ b # p
      BY <2>5, <2>8, <3>3 DEF ClaimsSound
    <3> QED
      BY <3>1, <3>2, <3>3
  <2> QED
    BY <1>2, <2>6, <2>7, <2>8 DEF ClaimsSound
<1> QED
  BY <1>3, <1>4

\* A publisher that a step leaves in its place keeps the record it works on.
LEMMA HeadStays ==
    ASSUME IInv, [Next]_vars, NEW p \in Publishers, pub[p].batch # {},
           pub'[p].batch = pub[p].batch
    PROVE  Head(p)' = Head(p) /\ Head(p).id \in Records
<1> USE DEF IInv
<1>1. \A r \in Recorded : row'[r].sequence = row[r].sequence
  BY RowsStay DEF Recorded
<1> QED
  BY <1>1, HeadKept, HeadLeads

\* The publishers that a step moves to "succeeded" or to "notify", or leaves there.
LEMMA WorkingOnHead ==
    ASSUME IInv, [Next]_vars, NEW p \in Publishers, pub'[p].at \in {"succeeded", "notify"}
    PROVE  /\ pub[p].batch # {} /\ pub'[p].batch = pub[p].batch
           /\ \/ pub'[p] = pub[p]
              \/ pub'[p].at = "succeeded" /\ delivered' = delivered \union {Head(p).id}
              \/ /\ pub'[p].at = "notify" /\ MarkFailed(p)
                 /\ OwnsClaim(Head(p)) /\ AttemptedToDeath(Head(p))
<1> USE DEF IInv
<1>0. pub[p].at \notin {"top", "claim", "claiming", "down"} => pub[p].batch # {}
  BY DEF ClaimsSound
<1>1. CASE UNCHANGED pub
  BY <1>0, <1>1
<1>2. ASSUME NEW q \in Publishers, Continue(q) PROVE pub'[p] = pub[p]
  BY <1>2 DEF Continue, TypeOK, Publisher
<1>3. ASSUME NEW q \in Publishers, Reclaim(q) \/ Crash(q) \/ Boot(q) PROVE pub'[p] = pub[p]
  BY <1>3 DEF Reclaim, Crash, Boot, TypeOK, Publisher
<1>4. ASSUME NEW q \in Publishers, Scan(q) \/ ClaimBatch(q) PROVE pub'[p] = pub[p]
  BY <1>4, AfterScan, AfterClaimBatch
<1>5. ASSUME NEW q \in Publishers, Deliver(q)
      PROVE  /\ pub'[p].batch = pub[p].batch /\ pub[p].batch # {}
             /\ \/ pub'[p] = pub[p]
                \/ pub'[p].at = "succeeded" /\ delivered' = delivered \union {Head(p).id}
  BY <1>0, <1>5 DEF Deliver, TypeOK, Publisher
<1>6. ASSUME NEW q \in Publishers, MarkPublished(q) \/ NotifyDeadLetter(q)
      PROVE  pub'[p] = pub[p]
  BY <1>2, <1>6 DEF MarkPublished, NotifyDeadLetter
<1>7. ASSUME NEW q \in Publishers, MarkFailed(q)
      PROVE  /\ pub'[p].batch = pub[p].batch /\ pub[p].batch # {}
             /\ \/ pub'[p] = pub[p]
                \/ /\ pub'[p].at = "notify" /\ MarkFailed(p)
                   /\ OwnsClaim(Head(p)) /\ AttemptedToDeath(Head(p))
  <2>1. CASE Continue(q)
    BY <1>0, <1>2, <2>1
  <2>2. CASE ~Continue(q)
    <3>1. /\ pub' = [pub EXCEPT ![q].at = "notify"] /\ pub[q].at = "raised"
          /\ OwnsClaim(Head(q)) /\ AttemptedToDeath(Head(q))
      BY <1>7, <2>2, Zenon DEF MarkFailed
    <3> QED
      BY <1>0, <1>7, <3>1 DEF TypeOK, Publisher
  <2> QED
    BY <2>1, <2>2
<1>8. pub'[p] = pub[p] => pub[p].batch # {} /\ pub'[p].batch = pub[p].batch
  BY <1>0
<1> QED
  BY <1>1, <1>3, <1>4, <1>5, <1>6, <1>7, <1>8
     DEF Next, vars, ProducerStep, PublisherStep, Allocate, CheckKey, Abort, Again,
         Record, OutboxUnchanged, Elapse, BackoffEnds

\* Only one publisher is about to report a dead letter, the one that made it one.
LEMMA HeadStep == IInv /\ [Next]_vars => HeadSound'
<1> SUFFICES ASSUME IInv, [Next]_vars PROVE HeadSound'
  OBVIOUS
<1> USE DEF IInv
<1>1. delivered \subseteq delivered'
  BY DEF Next, vars, ProducerStep, PublisherStep, Allocate, CheckKey, Abort, Again, Record,
         OutboxUnchanged, Elapse, BackoffEnds, Reclaim, Scan, ClaimBatch, Deliver, MarkPublished,
         MarkFailed, NotifyDeadLetter, Crash, Boot
<1>2. ASSUME NEW p \in Publishers, pub'[p].at \in {"succeeded", "notify"}
      PROVE  Head(p)' = Head(p) /\ Head(p).id \in Records
  BY <1>2, WorkingOnHead, HeadStays
<1>3. ASSUME NEW p \in Publishers, pub'[p].at = "succeeded" PROVE (Head(p).id)' \in delivered'
  <2>1. \/ pub'[p] = pub[p] \/ delivered' = delivered \union {Head(p).id}
    BY <1>3, WorkingOnHead
  <2> QED
    BY <1>1, <1>2, <1>3, <2>1 DEF HeadSound
\* MarkFailed: the failure was the last one, and nobody has reported the record.
<1>4. ASSUME NEW p \in Publishers, MarkFailed(p), OwnsClaim(Head(p)),
             AttemptedToDeath(Head(p))
      PROVE  /\ row'[Head(p).id].status = "dead_letter" /\ notified' = notified
             /\ row[Head(p).id].status = "publishing" /\ notified[Head(p).id] = 0
             /\ Head(p).id \in Records
  <2>1. Head(p) \in pub[p].batch /\ Head(p).id \in Records
    BY <1>4, AfterFailed
  <2>2. Head(p).attempt_count = row[Head(p).id].attempt_count
    BY <1>4, <2>1 DEF ClaimsSound
  <2>3. row'[Head(p).id].status = "dead_letter"
    BY <1>4, <2>2, AfterFailed DEF AttemptedToDeath, Columns
  <2>4. row[Head(p).id].status = "publishing" /\ notified' = notified
    BY <1>4 DEF OwnsClaim, MarkFailed
  <2>5. notified[Head(p).id] = 0
    BY <2>1, <2>4 DEF Told, TypeOK
  <2> QED
    BY <2>1, <2>3, <2>4, <2>5
<1>5. ASSUME NEW p \in Publishers, pub'[p].at = "notify", pub'[p] = pub[p]
      PROVE  /\ row[Head(p).id].status = "dead_letter"
             /\ row'[Head(p).id].status = "dead_letter"
             /\ notified'[Head(p).id] = 0
  <2>1. /\ row[Head(p).id].status = "dead_letter" /\ notified[Head(p).id] = 0
        /\ Head(p).id \in Records
    BY <1>2, <1>5 DEF HeadSound
  <2>2. row'[Head(p).id].status = "dead_letter"
    BY <2>1, RowsStay
  <2>3. ASSUME NEW q \in Publishers, NotifyDeadLetter(q) PROVE notified'[Head(p).id] = 0
    <3>1. p # q
      BY <1>5, <2>3 DEF NotifyDeadLetter, Continue, TypeOK, Publisher
    <3>2. Head(q).id # Head(p).id
      BY <1>5, <2>3, <3>1 DEF NotifyDeadLetter, HeadSound
    <3> QED
      BY <2>1, <2>3, <3>2 DEF NotifyDeadLetter, TypeOK
  <2>4. (\A q \in Publishers : ~NotifyDeadLetter(q)) => notified' = notified
    BY DEF Next, vars, ProducerStep, PublisherStep, Allocate, CheckKey, Abort, Again, Record,
           OutboxUnchanged, Elapse, BackoffEnds, Reclaim, Scan, ClaimBatch, Deliver, MarkPublished,
           MarkFailed, Crash, Boot
  <2> QED
    BY <2>1, <2>2, <2>3, <2>4
<1>6. ASSUME NEW p \in Publishers, pub'[p].at = "notify"
      PROVE  \/ pub'[p] = pub[p]
             \/ MarkFailed(p) /\ OwnsClaim(Head(p)) /\ AttemptedToDeath(Head(p))
  BY <1>6, WorkingOnHead
<1>7. ASSUME NEW p \in Publishers, pub'[p].at = "notify"
      PROVE  row'[(Head(p).id)'].status = "dead_letter" /\ notified'[(Head(p).id)'] = 0
  BY <1>2, <1>4, <1>5, <1>6, <1>7
<1>8. ASSUME NEW p \in Publishers, NEW q \in Publishers, pub'[p].at = "notify",
             pub'[q].at = "notify", (Head(p).id)' = (Head(q).id)'
      PROVE  p = q
  <2>1. Head(p)' = Head(p) /\ Head(q)' = Head(q) /\ Head(p).id = Head(q).id
    BY <1>2, <1>8
  <2>2. CASE pub'[p] = pub[p] /\ pub'[q] = pub[q]
    BY <1>8, <2>1, <2>2 DEF HeadSound
  <2>3. CASE pub'[p] # pub[p] /\ pub'[q] = pub[q]
    BY <1>4, <1>5, <1>6, <1>8, <2>1, <2>3
  <2>4. CASE pub'[p] = pub[p] /\ pub'[q] # pub[q]
    BY <1>4, <1>5, <1>6, <1>8, <2>1, <2>4
  <2>5. CASE pub'[p] # pub[p] /\ pub'[q] # pub[q]
    <3>1. MarkFailed(p) /\ MarkFailed(q)
      BY <1>6, <1>8, <2>5
    <3> QED
      BY <2>5, <3>1 DEF MarkFailed, Continue, TypeOK
  <2> QED
    BY <2>2, <2>3, <2>4, <2>5
<1> QED
  BY <1>3, <1>7, <1>8 DEF HeadSound

\* A dead letter is reported, about to be, or was lost with its publisher.
LEMMA ToldStep == IInv /\ [Next]_vars => Told'
<1> SUFFICES ASSUME IInv, [Next]_vars, NEW r \in Records
             PROVE  /\ notified'[r] > 0 => notified'[r] = 1 /\ row'[r].status = "dead_letter"
                    /\ row'[r].status = "dead_letter" /\ notified'[r] = 0 =>
                          \/ crashes' > 0
                          \/ \E p \in Publishers : pub'[p].at = "notify" /\ (Head(p).id)' = r
  BY DEF Told
<1> USE DEF IInv
<1>1. /\ row[r].status = "dead_letter" => row'[r].status = "dead_letter"
      /\ \A p \in Publishers : pub'[p].at = "notify" =>
            Head(p)' = Head(p) /\ Head(p).id \in Records
  BY RowsStay, WorkingOnHead, HeadStays
<1>2. /\ notified \in [Records -> Nat] /\ crashes \in Nat
      /\ crashes' \in Nat /\ crashes' >= crashes
  <2>1. notified \in [Records -> Nat] /\ crashes \in Nat
    BY DEF TypeOK
  <2>2. crashes' = crashes \/ crashes' = crashes + 1
    BY DEF Next, vars, ProducerStep, PublisherStep, Allocate, CheckKey, Abort, Again, Record,
           OutboxUnchanged, Elapse, BackoffEnds, Reclaim, Scan, ClaimBatch, Deliver,
           MarkPublished, MarkFailed, NotifyDeadLetter, Crash, Boot
  <2> QED
    BY <2>1, <2>2
<1>3. ASSUME NEW p \in Publishers, NotifyDeadLetter(p)
      PROVE  /\ notified'[r] = IF r = Head(p).id THEN notified[r] + 1 ELSE notified[r]
             /\ r = Head(p).id => row[r].status = "dead_letter" /\ notified[r] = 0
  BY <1>2, <1>3 DEF NotifyDeadLetter, HeadSound
<1>4. (\A q \in Publishers : ~NotifyDeadLetter(q)) => notified' = notified
  BY DEF Next, vars, ProducerStep, PublisherStep, Allocate, CheckKey, Abort, Again, Record,
         OutboxUnchanged, Elapse, BackoffEnds, Reclaim, Scan, ClaimBatch, Deliver, MarkPublished,
         MarkFailed, Crash, Boot
<1>5. notified'[r] > 0 => notified'[r] = 1 /\ row'[r].status = "dead_letter"
  BY <1>1, <1>2, <1>3, <1>4 DEF Told
<1>6. ASSUME row'[r].status = "dead_letter", notified'[r] = 0, crashes' = 0
      PROVE  \E p \in Publishers : pub'[p].at = "notify" /\ (Head(p).id)' = r
  <2>1. notified[r] = 0 /\ crashes = 0
    BY <1>2, <1>3, <1>4, <1>6
  <2>2. CASE row[r].status = "dead_letter"
    <3>1. PICK p \in Publishers : pub[p].at = "notify" /\ Head(p).id = r
      BY <2>1, <2>2 DEF Told
    <3>2. ~NotifyDeadLetter(p)
      BY <1>2, <1>3, <1>6, <3>1
    <3>3. ~Crash(p)
      BY <1>2, <1>6, <2>1 DEF Crash
    <3>4. pub'[p] = pub[p]
      <4>1. \A q \in Publishers \ {p} : \A x : pub' = [pub EXCEPT ![q] = x] => pub'[p] = pub[p]
        BY DEF TypeOK
      <4>2. ASSUME NEW q \in Publishers \ {p}, PublisherStep(q) \/ Crash(q) \/ Boot(q)
            PROVE  pub'[p] = pub[p]
        BY <4>1, <4>2, AfterScan DEF PublisherStep, Reclaim, Scan, ClaimBatch, Deliver, MarkPublished,
                          MarkFailed, NotifyDeadLetter, Continue, Crash, Boot
      <4>3. ~PublisherStep(p) /\ ~Boot(p)
        BY <3>1, <3>2 DEF PublisherStep, Reclaim, Scan, ClaimBatch, Deliver, MarkPublished,
                          MarkFailed, Boot
      <4> QED
        BY <3>3, <4>2, <4>3
           DEF Next, vars, ProducerStep, Allocate, CheckKey, Abort, Again,
               Record, OutboxUnchanged, Elapse, BackoffEnds
    <3> QED
      BY <1>1, <3>1, <3>4
  <2>3. CASE row[r].status # "dead_letter"
    <3>1. PICK p \in Publishers : MarkFailed(p) /\ OwnsClaim(Head(p)) /\ Head(p).id = r
      <4>1. row'[r] # row[r]
        BY <1>6, <2>3
      <4>2. ASSUME NEW q \in Records, Record(q), Unique(q) PROVE FALSE
        BY <1>6, <4>1, <4>2, AfterRecord DEF Columns
      <4>3. ASSUME NEW q \in Records, Elapse(q) \/ BackoffEnds(q) PROVE FALSE
        BY <1>6, <2>3, <4>3, AfterTime DEF Columns
      <4>4. ASSUME NEW p \in Publishers, Reclaim(p) PROVE FALSE
        BY <1>6, <2>3, <4>4, AfterReclaim DEF Columns
      <4>5. ASSUME NEW p \in Publishers, ClaimBatch(p) PROVE FALSE
        BY <1>6, <4>1, <4>5, AfterClaim DEF Columns
      <4>6. ASSUME NEW p \in Publishers, MarkPublished(p) PROVE FALSE
        <5>1. CASE OwnsClaim(Head(p))
          BY <1>6, <4>1, <4>6, <5>1, AfterPublished DEF Columns
        <5> QED
          BY <4>1, <4>6, <5>1, AfterPublished
      <4>7. ASSUME NEW p \in Publishers, MarkFailed(p)
            PROVE  OwnsClaim(Head(p)) /\ Head(p).id = r
        BY <4>1, <4>7, AfterFailed
      <4>8. row' # row
        BY <4>1
      <4> QED
        BY <4>2, <4>3, <4>4, <4>5, <4>6, <4>7, <4>8
           DEF Next, vars, ProducerStep, PublisherStep, Allocate, CheckKey, Abort, Again,
               Record, OutboxUnchanged, Scan, Deliver, NotifyDeadLetter, Crash, Boot
    <3>2. Head(p).attempt_count = row[r].attempt_count
      BY <3>1, AfterFailed DEF ClaimsSound
    <3>3. row[r].attempt_count + 1 >= MaxAttempts
      BY <1>6, <3>1, AfterFailed DEF Columns
    <3>4. pub' = [pub EXCEPT ![p].at = "notify"]
      BY <3>1, <3>2, <3>3 DEF MarkFailed, AttemptedToDeath
    <3> QED
      BY <1>1, <3>1, <3>4 DEF TypeOK, Publisher
  <2> QED
    BY <2>2, <2>3
<1> QED
  BY <1>2, <1>5, <1>6

\* Only the commit of a claim takes a row out of the pending ones.
LEMMA PendingStays ==
    ASSUME IInv, [Next]_vars, NEW r \in Records, row[r].status = "pending"
    PROVE  \/ row'[r].status = "pending"
           \/ \E p \in Publishers : ClaimBatch(p) /\ r \in locked[p]
<1> USE DEF IInv
<1>1. CASE UNCHANGED row
  BY <1>1
<1>2. ASSUME NEW q \in Records, Record(q), Unique(q) PROVE row'[r].status = "pending"
  BY <1>2, AfterRecord DEF Columns
<1>3. ASSUME NEW q \in Records, Elapse(q) \/ BackoffEnds(q) PROVE row'[r].status = "pending"
  BY <1>3, AfterTime DEF Columns
<1>4. ASSUME NEW p \in Publishers, Reclaim(p) PROVE row'[r].status = "pending"
  BY <1>4, AfterReclaim
<1>5. ASSUME NEW p \in Publishers, ClaimBatch(p), r \notin locked[p]
      PROVE  row'[r].status = "pending"
  BY <1>5, AfterClaim
<1>6. ASSUME NEW p \in Publishers, MarkPublished(p) PROVE row'[r].status = "pending"
  BY <1>6, AfterPublished DEF OwnsClaim
<1>7. ASSUME NEW p \in Publishers, MarkFailed(p) PROVE row'[r].status = "pending"
  BY <1>7, AfterFailed DEF OwnsClaim
<1> QED
  BY <1>1, <1>2, <1>3, <1>4, <1>5, <1>6, <1>7
     DEF Next, vars, ProducerStep, PublisherStep, Allocate, CheckKey, Abort, Again, Record,
         OutboxUnchanged, Scan, Deliver, NotifyDeadLetter, Crash, Boot

\* How locks come and go.
LEMMA LocksMove ==
    ASSUME IInv, [Next]_vars
    PROVE  \/ /\ \A p \in Publishers : locked'[p] = {} \/ locked'[p] = locked[p]
              /\ passed' = passed
           \/ \E p \in Publishers : Scan(p)
<1> USE DEF IInv
<1>1. CASE UNCHANGED <<locked, passed>>
  BY <1>1
<1>2. ASSUME NEW p \in Publishers, ClaimBatch(p) \/ Crash(p)
      PROVE  /\ \A q \in Publishers : locked'[q] = {} \/ locked'[q] = locked[q]
             /\ passed' = passed
  BY <1>2 DEF ClaimBatch, Crash, TypeOK
<1> QED
  BY <1>1, <1>2
     DEF Next, vars, ProducerStep, PublisherStep, Allocate, CheckKey, Abort, Again, Record,
         OutboxUnchanged, Elapse, BackoffEnds, Reclaim, Deliver, MarkPublished, MarkFailed,
         NotifyDeadLetter, Boot

\* A scan locks pending rows that no other scan has locked, and keeps them pending.
LEMMA LocksStep == IInv /\ [Next]_vars => LocksSound'
<1> SUFFICES ASSUME IInv, [Next]_vars PROVE LocksSound'
  OBVIOUS
<1> USE DEF IInv
<1>1. CASE \A p \in Publishers : ~Scan(p)
  <2>1. \A p \in Publishers : locked'[p] = {} \/ locked'[p] = locked[p]
    BY <1>1, LocksMove
  <2>2. ASSUME NEW p \in Publishers, NEW r \in locked'[p] PROVE r \in Pending'
    <3>1. r \in locked[p] /\ r \in Records /\ row[r].status = "pending" /\ locked'[p] # {}
      BY <2>1, <2>2 DEF LocksSound, Pending
    <3>2. ASSUME NEW q \in Publishers, ClaimBatch(q), r \in locked[q] PROVE FALSE
      BY <3>1, <3>2, AfterClaimBatch DEF LocksSound
    <3> QED
      BY <3>1, <3>2, PendingStays DEF Pending
  <2>3. \A p, q \in Publishers : p # q => locked'[p] \intersect locked'[q] = {}
    BY <2>1 DEF LocksSound
  <2> QED
    BY <2>2, <2>3 DEF LocksSound
<1>2. ASSUME NEW p \in Publishers, Scan(p) PROVE LocksSound'
  <2>1. /\ Pending' = Pending
        /\ \A q \in Publishers \ {p} : locked'[q] = locked[q]
        /\ locked'[p] \subseteq Visible(p)
    BY <1>2, AfterScan DEF Pending, Scanned
  <2>2. /\ Visible(p) \subseteq Pending
        /\ \A q \in Publishers \ {p} : Visible(p) \intersect locked[q] = {}
    BY DEF Visible
  <2> QED
    BY <2>1, <2>2 DEF LocksSound
<1> QED
  BY <1>1, <1>2

\* What nobody has claimed stays pending.
LEMMA UnclaimedStep ==
    ASSUME IInv, [Next]_vars, NEW r \in Recorded', claims'[r] = 0
    PROVE  claims[r] = 0 /\ r \in Pending'
<1> USE DEF IInv
<1>1. r \in Records /\ \A q \in Records : claims[q] \in Nat
  BY DEF Recorded, TypeOK
<1>2. CASE \A p \in Publishers : ~ClaimBatch(p)
  <2>1. claims' = claims
    BY <1>2, ClaimsOnlyEnd
  <2>2. CASE r \in Recorded
    <3>1. row[r].status = "pending"
      BY <2>1, <2>2 DEF ClaimedInOrder, Pending
    <3> QED
      BY <1>1, <1>2, <2>1, <3>1, PendingStays DEF Pending
  <2>3. CASE r \notin Recorded
    <3>1. PICK q \in Records : Record(q)
      BY <2>3, RowsKept
    <3>2. Unique(q) /\ r = q
      BY <1>1, <2>3, <3>1, AfterRecord DEF Record, Recorded
    <3> QED
      BY <1>1, <2>1, <3>1, <3>2, AfterRecord DEF Columns, Pending
  <2> QED
    BY <2>2, <2>3
<1>3. ASSUME NEW p \in Publishers, ClaimBatch(p) PROVE claims[r] = 0 /\ r \in Pending'
  <2>1. r \notin locked[p] \intersect Pending /\ row'[r] = row[r] /\ claims'[r] = claims[r]
    BY <1>1, <1>3, AfterClaim
  <2> QED
    BY <1>1, <2>1 DEF ClaimedInOrder, Pending, Recorded
<1> QED
  BY <1>2, <1>3

\* Counts of claims only grow.
LEMMA ClaimsGrow ==
    ASSUME IInv, [Next]_vars
    PROVE  \A r \in Records : claims[r] \in Nat /\ claims'[r] \in Nat /\ claims'[r] >= claims[r]
<1> USE DEF IInv
<1>1. \A r \in Records : claims[r] \in Nat
  BY DEF TypeOK
<1>2. CASE \A p \in Publishers : ~ClaimBatch(p)
  BY <1>1, <1>2, ClaimsOnlyEnd
<1>3. ASSUME NEW p \in Publishers, ClaimBatch(p)
      PROVE  \A r \in Records : claims'[r] \in Nat /\ claims'[r] >= claims[r]
  BY <1>1, <1>3, AfterClaim
<1> QED
  BY <1>1, <1>2, <1>3

\* A record that has been claimed or locked has a place in its stream behind which
\* new records come.
LEMMA EarlierStays ==
    ASSUME IInv, [Next]_vars, NEW r \in Recorded, NEW q \in InStream(r)',
           row'[q].sequence < row'[r].sequence
    PROVE  q \in InStream(r) /\ row[q].sequence < row[r].sequence /\ q \in Records
<1> USE DEF IInv
<1>1. r \in Records /\ q \in Records
  BY DEF InStream, Recorded
<1>2. CASE \A x \in Records : ~Record(x)
  BY <1>1, <1>2, RowsKept
<1>3. ASSUME NEW x \in Records, Record(x), Unique(x)
      PROVE  q \in InStream(r) /\ row[q].sequence < row[r].sequence
  <2> DEFINE n == Cardinality(InStream(x))
  <2>1. /\ \A y \in Records \ {x} : row'[y] = row[y]
        /\ row'[x].sequence = producer[x].sequence /\ x \notin Recorded
        /\ producer[x].sequence \in Nat
    BY <1>3, AfterRecord DEF Columns, Record, Numbered, TypeOK, Producer
  <2>2. r # x /\ row'[r] = row[r]
    BY <1>1, <2>1
  <2>3. CASE q # x
    BY <1>1, <2>1, <2>2, <2>3 DEF InStream, Recorded
  <2>4. CASE q = x
    <3>1. r \in InStream(x)
      BY <2>4 DEF InStream
    <3>2. row[r].sequence \in 0..(n - 1)
      BY <3>1, NumbersOfStream
    <3>3. {row[y].sequence : y \in InStream(x)} = 0..(n - 1)
      BY NumbersOfStream
    <3>4. producer[x].sequence \notin 0..(n - 1)
      BY <1>3, <3>3 DEF Unique
    <3>5. n \in Nat
      BY StreamFinite
    <3>6. producer[x].sequence < row[r].sequence
      BY <2>1, <2>2, <2>4
    <3> QED
      BY <2>1, <3>2, <3>4, <3>5, <3>6
  <2> QED
    BY <2>3, <2>4
<1>4. ASSUME NEW x \in Records, Record(x), ~Unique(x)
      PROVE  q \in InStream(r) /\ row[q].sequence < row[r].sequence
  BY <1>4 DEF Record, InStream, Recorded
<1> QED
  BY <1>1, <1>2, <1>3, <1>4

\* A scan takes the first rows it can see and remembers the ones it could not, its
\* commit claims them all, and a new row is the last of its stream.
LEMMA OrderStep == IInv /\ [Next]_vars => ClaimedInOrder'
<1> SUFFICES ASSUME IInv, [Next]_vars PROVE ClaimedInOrder'
  OBVIOUS
<1> USE DEF IInv
<1>1. \A r \in Records : claims[r] \in Nat /\ claims'[r] \in Nat /\ claims'[r] >= claims[r]
  BY ClaimsGrow
<1>2. passed \subseteq passed'
  BY LocksMove, AfterScan
<1>3. \A r \in Recorded' : claims'[r] = 0 => r \in Pending'
  BY UnclaimedStep
<1>4. \A r \in delivered' : claims'[r] > 0
  <2>1. ASSUME NEW p \in Publishers, Deliver(p) PROVE \A r \in delivered' : claims'[r] > 0
    <3>1. Head(p) \in pub[p].batch /\ Head(p).id \in Records
      BY <2>1, HeadLeads DEF Deliver, ClaimsSound
    <3>2. claims[Head(p).id] > 0 /\ claims' = claims
      BY <1>1, <2>1, <3>1 DEF ClaimsSound, Deliver, TypeOK, Publisher, Claimed
    <3> QED
      BY <2>1, <3>1, <3>2 DEF Deliver, ClaimedInOrder
  <2>2. (\A p \in Publishers : ~Deliver(p)) => delivered' = delivered
    BY DEF Next, vars, ProducerStep, PublisherStep, Allocate, CheckKey, Abort, Again, Record,
           OutboxUnchanged, Elapse, BackoffEnds, Reclaim, Scan, ClaimBatch, MarkPublished,
           MarkFailed, NotifyDeadLetter, Crash, Boot
  <2>3. \A r \in delivered : claims'[r] > 0
    BY <1>1 DEF ClaimedInOrder, TypeOK
  <2> QED
    BY <2>1, <2>2, <2>3
\* Where a lock comes from: it was held before, or the scan of this step took it.
<1>5. ASSUME NEW p \in Publishers, NEW r \in locked'[p], NEW q \in InStream(r),
             row[q].sequence < row[r].sequence
      PROVE  claims[q] > 0 \/ q \in passed' \/ q \in locked'[p]
  <2>1. CASE locked'[p] = {} \/ locked'[p] = locked[p]
    BY <1>2, <1>5, <2>1 DEF ClaimedInOrder
  <2>2. CASE Scan(p)
    <3>1. /\ locked'[p] \subseteq Visible(p)
          /\ \A x \in locked'[p], y \in Visible(p) \ locked'[p] : Earlier(x, y)
          /\ passed' = passed \union PassedOver(p, locked'[p])
      BY <2>2, AfterScan DEF Scanned
    <3>2. /\ r \in Records /\ q \in Records /\ q \in Recorded /\ Stream[q] = Stream[r]
          /\ row[q].sequence \in Nat /\ row[r].sequence \in Nat /\ Stream[r] \in Nat
      BY <3>1, StreamAssumption DEF Visible, Pending, InStream, Recorded, TypeOK, Row
    <3>3. ~Earlier(r, q)
      BY <1>5, <3>2 DEF Earlier
    <3>4. ASSUME claims[q] = 0, q \notin locked'[p] PROVE q \in passed'
      <4>1. q \in Pending
        BY <3>2, <3>4 DEF ClaimedInOrder
      <4>2. q \notin Visible(p)
        BY <3>1, <3>3, <3>4
      <4> QED
        BY <1>5, <3>1, <3>2, <4>1, <4>2 DEF PassedOver
    <3> QED
      BY <1>1, <3>2, <3>4
  <2>3. ASSUME NEW x \in Publishers \ {p}, Scan(x) PROVE locked'[p] = locked[p]
    BY <2>3, AfterScan
  <2> QED
    BY <2>1, <2>2, <2>3, LocksMove
<1>6. ASSUME NEW p \in Publishers, NEW r \in locked'[p], NEW q \in InStream(r)',
             row'[q].sequence < row'[r].sequence
      PROVE  claims'[q] > 0 \/ q \in passed' \/ q \in locked'[p]
  <2>1. r \in Recorded
    <3>1. locked'[p] = {} \/ locked'[p] = locked[p] \/ locked'[p] \subseteq Visible(p)
      BY LocksMove, AfterScan DEF Scanned
    <3> QED
      BY <3>1 DEF LocksSound, Visible, Pending, Recorded
  <2>2. q \in InStream(r) /\ row[q].sequence < row[r].sequence /\ q \in Records
    BY <1>6, <2>1, EarlierStays
  <2> QED
    BY <1>1, <1>5, <2>2
<1>7. ASSUME NEW r \in Recorded', claims'[r] > 0, NEW q \in InStream(r)',
             row'[q].sequence < row'[r].sequence
      PROVE  claims'[q] > 0 \/ q \in passed'
  <2>1. r \in Records /\ q \in Records
    BY DEF InStream, Recorded
  <2>2. CASE claims[r] > 0
    <3>1. r \in Recorded
      BY <2>1, <2>2 DEF RowsSound, Recorded
    <3>2. q \in InStream(r) /\ row[q].sequence < row[r].sequence
      BY <1>7, <3>1, EarlierStays
    <3> QED
      BY <1>1, <1>2, <2>1, <2>2, <3>1, <3>2 DEF ClaimedInOrder
  <2>3. CASE claims[r] = 0
    <3>1. PICK p \in Publishers : ClaimBatch(p)
      BY <1>7, <2>3, ClaimsOnlyEnd
    <3>2. /\ r \in locked[p] \intersect Pending /\ r \in Recorded
          /\ \A x \in locked[p] \intersect Pending : claims'[x] = claims[x] + 1
      BY <1>7, <2>1, <2>3, <3>1, AfterClaim DEF Pending, Recorded
    <3>3. q \in InStream(r) /\ row[q].sequence < row[r].sequence
      BY <1>7, <3>2, EarlierStays
    <3>4. claims[q] > 0 \/ q \in passed \/ q \in locked[p]
      BY <3>2, <3>3 DEF ClaimedInOrder
    <3>5. q \in locked[p] => q \in Pending
      BY DEF LocksSound
    <3> QED
      BY <1>1, <1>2, <2>1, <3>2, <3>4, <3>5
  <2> QED
    BY <1>1, <2>1, <2>2, <2>3
<1> QED
  BY <1>3, <1>4, <1>6, <1>7 DEF ClaimedInOrder

-----------------------------------------------------------------------------
(* The theorems *)

\* IInv is an invariant of the outbox.
THEOREM Invariance == Spec => []IInv
<1>1. Init => IInv
  BY InitIInv
<1>2. IInv /\ [Next]_vars => IInv'
  BY TypeStep, NumberedStep, KeysStep, RowsStep, ClaimsStep, HeadStep, ToldStep, LocksStep,
     OrderStep
     DEF IInv
<1> QED
  BY <1>1, <1>2, PTL DEF Spec

\* Every row, call and publisher of the outbox has its type in every reachable state.
THEOREM TypeCorrect == Spec => []TypeOK
<1>1. IInv => TypeOK
  BY DEF IInv
<1> QED
  BY <1>1, Invariance, PTL

\* The events of every aggregate are numbered 0, 1, 2, ... without gaps or doubles,
\* whatever producers interleave or roll back, and an event is recorded exactly when
\* its call of record_next says so.
THEOREM StreamsAreGapless == Spec => []StreamsGapless
<1>1. IInv => StreamsGapless
  <2> SUFFICES ASSUME IInv PROVE StreamsGapless
    OBVIOUS
  <2>1. \A r \in Recorded :
          {row[q].sequence : q \in InStream(r)} = 0..(Cardinality(InStream(r)) - 1)
    BY NumbersOfStream DEF IInv, Recorded
  <2> QED
    BY <2>1 DEF StreamsGapless, IInv, Numbered
<1> QED
  BY <1>1, Invariance, PTL

\* Calls of record_next with one deduplication key record one event between them,
\* and one that answered False did so because the event is recorded.
THEOREM KeysAreUnique == Spec => []OneRecordPerKey
<1>1. IInv => OneRecordPerKey
  BY DEF IInv
<1> QED
  BY <1>1, Invariance, PTL

\* A claim of claim_batch belongs to one publisher at a time, and its copy of the
\* attempt counter is the row's, although leases elapse in the publisher's hands.
THEOREM ClaimsAreExclusive == Spec => []ClaimsExclusive
<1>1. IInv => ClaimsExclusive
  BY DEF IInv, ClaimsSound, ClaimsExclusive
<1> QED
  BY <1>1, Invariance, PTL

\* mark_published and mark_failed finalize only what happened: a published event was
\* accepted by the transport, a dead letter has failed max_attempts times.
THEOREM FinalizingIsTruthful == Spec => []FinalizedTruthfully
<1>1. IInv => FinalizedTruthfully
  BY DEF IInv, RowsSound, FinalizedTruthfully
<1> QED
  BY <1>1, Invariance, PTL

\* on_dead_letter is called at most once for a record and only for dead letters, and
\* is called or about to be called for each one unless a publisher has died.
THEOREM DeadLettersAreNotified == Spec => []DeadLettersNotified
<1>1. IInv => DeadLettersNotified
  <2> SUFFICES ASSUME IInv, NEW r \in Records
               PROVE  LET about == {p \in Publishers : pub[p].at = "notify" /\ Head(p).id = r}
                          calls == notified[r] + Cardinality(about)
                      IN  /\ row[r].status # "dead_letter" => calls = 0
                          /\ row[r].status = "dead_letter" =>
                                calls = 1 \/ (calls = 0 /\ crashes > 0)
    BY DEF DeadLettersNotified
  <2> DEFINE about == {p \in Publishers : pub[p].at = "notify" /\ Head(p).id = r}
  <2>1. notified[r] \in Nat
    BY DEF IInv, TypeOK
  <2>2. CASE about = {}
    <3>1. Cardinality(about) = 0
      BY <2>2, FS_EmptySet
    <3>2. ~ \E p \in Publishers : pub[p].at = "notify" /\ Head(p).id = r
      BY <2>2
    <3> QED
      BY <2>1, <3>1, <3>2 DEF IInv, Told
  <2>3. CASE about # {}
    <3>1. PICK p \in Publishers : pub[p].at = "notify" /\ Head(p).id = r
      BY <2>3
    <3>2. about = {p}
      BY <3>1 DEF IInv, HeadSound
    <3>3. Cardinality(about) = 1
      BY <3>2, FS_Singleton
    <3>4. row[r].status = "dead_letter" /\ notified[r] = 0
      BY <3>1 DEF IInv, HeadSound
    <3> QED
      BY <3>3, <3>4
  <2> QED
    BY <2>2, <2>3
<1> QED
  BY <1>1, Invariance, PTL

\* No event is delivered while an earlier one of its stream has never been claimed,
\* except for one that a scan of claim_batch passed over because it was locked by
\* another scan or not available yet, for any number of publishers and any batch size.
THEOREM NothingIsOvertaken == Spec => []NeverOvertaken
<1>1. IInv => NeverOvertaken
  <2> SUFFICES ASSUME IInv, NEW r \in delivered, NEW q \in InStream(r),
                      row[q].sequence < row[r].sequence
               PROVE  claims[q] > 0 \/ q \in passed
    BY DEF NeverOvertaken
  <2>1. claims[r] > 0 /\ r \in Records
    BY DEF IInv, ClaimedInOrder, TypeOK
  <2>2. r \in Recorded
    BY <2>1 DEF IInv, RowsSound, Recorded
  <2> QED
    BY <2>1, <2>2 DEF IInv, ClaimedInOrder
<1> QED
  BY <1>1, Invariance, PTL
=============================================================================
