------------------------------- MODULE Memory -------------------------------
(***************************************************************************)
(* The records of what agents have learned: MemoryService                  *)
(* (modules/memory/application/services.py) over SqlMemoryStore            *)
(* (infrastructure/repository.py).                                         *)
(*                                                                         *)
(* A record is kept under its scope, key, project and session, of which no *)
(* constraint makes it the only one, and under the hash of key and value,  *)
(* by which a save finds a duplicate whatever the scope, project or        *)
(* session of the two.  Records expire; the read that meets an expired one *)
(* deletes it.                                                             *)
(***************************************************************************)
EXTENDS Transactions

CONSTANTS
    Memories,         \* identifiers of records
    Named,            \* the ones that callers choose; the others are new when they are given
    MemoryKeys, MemoryValues,
    Scopes,           \* the scopes that are used, of MemoryScope
    Owners,           \* projects and sessions
    Ttls,             \* whether a save gives a time to live: values of BOOLEAN
    Claims            \* the states of validation that requests claim

MemoryIds == Memories

MemoryInit ==
    /\ row = [id \in MemoryIds |-> None]
    /\ call = [c \in Calls |-> None]
    /\ told = [id \in MemoryIds |-> None]

-----------------------------------------------------------------------------
(* Records *)

MemoryScope ==
    {"working", "session", "project", "user", "episodic", "semantic", "procedural", "policy"}

ValidationStatus ==
    {"unvalidated", "proposed", "validated", "promoted", "rejected", "superseded"}

\* VALIDATED_STATUSES
Validated == {"validated", "promoted"}

\* DEFAULT_SCOPE_TTL: the scopes whose records expire
Expiring == {"working", "session", "episodic"}

\* earned: the confidence, the sample and the evidence are enough to promote it.
LearningMetadata ==
    [status : ValidationStatus, earned : BOOLEAN, supersedes : Memories \union {None}]

\* revision: the column version; version: optimistic_version, which the store looks at.
MemoryRecord(r) ==
    /\ r.scope \in MemoryScope /\ r.owner \in Owners \union {None}
    /\ r.key \in MemoryKeys /\ r.value \in MemoryValues
    /\ r.hash = <<r.key, r.value>>
    /\ r.ttl \in BOOLEAN
    /\ r.learning \in LearningMetadata
    /\ r.revision \in 1 .. r.version

\* compute_content_hash
ContentHash(key, value) == <<key, value>>

\* is_expired: at any time, if the record has a time to live at all.
MayExpire(m) == Present(m) /\ (row[m].ttl \/ row[m].scope \in Expiring)

\* MemoryWritePolicy.validate_and_enforce: what it lets through.  Secrets, records of no
\* provenance and numbers out of range are refused before anything is read.
WritePolicyAllows(scope, owner, learning) ==
    /\ scope \in {"project", "session"} => owner # None
    /\ scope = "policy" /\ learning.status \in Validated => learning.earned

-----------------------------------------------------------------------------
(* The store *)

\* get: the records of a place, one of which is found
Kept(table, scope, owner, key) ==
    {m \in Memories : /\ table[m] # None
                      /\ table[m].scope = scope /\ table[m].owner = owner /\ table[m].key = key}

\* get_by_hash
Hashed(table, hash) == {m \in Memories : table[m] # None /\ table[m].hash = hash}

\* list_records: without an owner, the records of all
Listed(scope, owner) ==
    {m \in Memories : Present(m) /\ row[m].scope = scope /\ owner \in {None, row[m].owner}}

\* insert
InsertMemory(m, new) == Insert(m, new)

\* update: every column, if the row still has the version that was read
UpdateMemory(m, new) == Update(m, new, row[m].version)

\* delete
DeleteMemoryRow(m) == Delete(m)

\* MemoryEventFactory
MemorySays(m, what) == [x \in {m} |-> what]

-----------------------------------------------------------------------------
(* Commands *)

Superseded(r) ==
    [r EXCEPT !.learning.status = "superseded", !.revision = @ + 1, !.version = @ + 1]

\* The tables as the command sees them once it has marked what it supersedes.
Seen(learning) ==
    IF learning.supersedes # None /\ Present(learning.supersedes)
    THEN [row EXCEPT ![learning.supersedes] = Superseded(@)] ELSE row

\* Mutant of Resaved: new content without a new version of the record.
ResavedSilently(r, new) ==
    [new EXCEPT !.scope = r.scope, !.key = r.key, !.revision = r.revision,
                !.version = r.version + 1]

\* What a save does to the record it finds: all of the new content to the one under its
\* key, nothing but the learning metadata to a duplicate.
Resaved(r, new) ==
    [new EXCEPT !.scope = r.scope, !.key = r.key, !.revision = r.revision + 1,
                !.version = r.version + 1]

Deduplicated(r, new) == [r EXCEPT !.learning = new.learning, !.version = @ + 1]

\* The writes of a save: that of the record itself, and the mark on what it supersedes
\* unless the two are one row, which is written again.
SaveWrites(learning, write) ==
    {write} \union {UpdateMemory(old, Seen(learning)[old]) :
                        old \in {m \in Memories \ {write.on} : Seen(learning)[m] # row[m]}}

SaveSays(learning, m, what) ==
    Over(MemorySays(m, what),
         [old \in {x \in Memories : Seen(learning)[x] # row[x]} |-> "superseded"])

\* An identifier that is made up is one that no record has had and no other save has got.
Unused(m) ==
    /\ told[m] = None
    /\ \A c \in Calls : call[c] # None => \A w \in call[c].writes : w.on # m

SaveMemory(c, m, scope, owner, key, value, ttl, learning) ==
    LET table  == Seen(learning)
        new    == [scope |-> scope, owner |-> owner, key |-> key, value |-> value,
                   hash |-> ContentHash(key, value), ttl |-> ttl, learning |-> learning,
                   revision |-> 1, version |-> 1]
        dups   == Hashed(table, new.hash)
        kept   == Kept(table, scope, owner, key)
    IN  /\ WritePolicyAllows(scope, owner, learning)
        /\ \/ \E d \in dups :
                 Begin(c, SaveWrites(learning, UpdateMemory(d, Deduplicated(table[d], new))),
                       SaveSays(learning, d, "updated"))
           \/ /\ dups = {}
              /\ \E k \in kept :
                    Begin(c, SaveWrites(learning, UpdateMemory(k, Resaved(table[k], new))),
                          SaveSays(learning, k, "updated"))
           \/ /\ dups = {} /\ kept = {}
              /\ m \in Named \/ Unused(m)
              /\ Begin(c, SaveWrites(learning, InsertMemory(m, new)),
                       SaveSays(learning, m, "created"))

\* delete_memory: nothing is committed, and nothing said, if the row is gone.
DeleteMemory(c, m) ==
    /\ Present(m)
    /\ Begin(c, {Telling(DeleteMemoryRow(m), "deleted")}, << >>)

ForgetByPattern(c, scope, owner, keys) ==
    LET matched == {m \in Listed(scope, owner) : row[m].key \in keys}
    IN  /\ matched # {}
        /\ Begin(c, {Telling(DeleteMemoryRow(m), "deleted") : m \in matched}, << >>)

SetTtl(c, m) ==
    /\ Present(m)
    /\ Begin(c, {UpdateMemory(m, [row[m] EXCEPT !.ttl = TRUE, !.version = @ + 1])}, << >>)

\* evict_expired, by the job memory.evict_expired or the route.  The event has no record
\* of its own.
EvictExpired(c, expired) ==
    /\ expired # {}
    /\ Begin(c, {DeleteMemoryRow(m) : m \in expired}, << >>)

\* get_memory and get_by_id of an expired record
GetExpired(c, m) ==
    /\ MayExpire(m)
    /\ Begin(c, {DeleteMemoryRow(m)}, << >>)

-----------------------------------------------------------------------------
(* What is asked for through the routes *)

\* save_many is a save_memory of each record, in a transaction of its own; one that
\* fails is left out.
SaveRequests(c) ==
    \E m \in Memories, scope \in Scopes, owner \in Owners \union {None}, key \in MemoryKeys,
       value \in MemoryValues, ttl \in Ttls,
       learning \in [status : Claims, earned : BOOLEAN, supersedes : Memories \union {None}] :
        SaveMemory(c, m, scope, owner, key, value, ttl, learning)

ForgetRequests(c) ==
    \/ \E m \in Memories : DeleteMemory(c, m) \/ SetTtl(c, m)
    \/ \E scope \in Scopes, owner \in Owners \union {None}, keys \in SUBSET MemoryKeys :
          ForgetByPattern(c, scope, owner, keys)
    \/ \E expired \in SUBSET {m \in Memories : MayExpire(m)} : EvictExpired(c, expired)

\* The queries that write.
ReadRequests(c) == \E m \in Memories : GetExpired(c, m)

MemoryNext ==
    Finish \/ \E c \in Calls : SaveRequests(c) \/ ForgetRequests(c) \/ ReadRequests(c)

-----------------------------------------------------------------------------
(* Properties *)

MemoryTypeOK == \A m \in Memories : Present(m) => MemoryRecord(row[m])

\* However saves, evictions and reads interleave, the content of a record whose
\* identifier was made up by the service never changes under an unchanged version: who
\* has read a version knows what it says.  It is not so for an identifier of the caller's
\* choice, which the routes take: a record deleted and saved again under it has the
\* versions of the old one, and a save that has read the old one writes it back.
ContentStep ==
    \A m \in Memories \ Named : row[m] # None /\ row'[m] # None /\ row'[m].value # row[m].value
        => row'[m].revision > row[m].revision
=============================================================================
