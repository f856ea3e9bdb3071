----------------------------- MODULE RouteLocks -----------------------------
(***************************************************************************)
(* The model a scope is routed to: RouteLockService                        *)
(* (modules/model_gateway/application/route_locks.py), and the rules it    *)
(* reads, which ProviderRegistryService.upsert_rule and delete_rule write. *)
(*                                                                         *)
(* An operation is one or more transactions.  A step is a transaction, or  *)
(* the part of one up to or after the point where others may commit.  The  *)
(* partial unique index on active locks of a scope makes the insert of a   *)
(* lock one step with its check.                                           *)
(***************************************************************************)
EXTENDS GatewayPolicy

CONSTANTS
    Callers,      \* operations that may be under way at the same time
    Scopes,       \* scopes (session, task, workflow) with a valid type and id
    Locks,        \* lock ids
    Rules,        \* rule ids
    Contents,     \* what rules are written with: labels, agents, priority, model, fallback
    Contexts,     \* contexts of requests
    Disabled,     \* canonical models whose row says enabled = false
    None,
    MaxRuleVersion    \* bound on the versions of a rule

VARIABLES
    rule,       \* model_gateway_rules
    lock,       \* model_gateway_route_locks
    caller,     \* each operation under way
    published   \* every <<rule, version, model>> a committed rule has had

routeVars == <<rule, lock, caller, published>>

Named == UNION {{c.model, c.fallback} : c \in Contents}

Snapshot == [rule : Rules \union {"fallback"}, version : Nat, model : Named]

Lock == [scope : Scopes, snapshot : Snapshot, status : {"active", "released"},
         fallback : BOOLEAN, source : Locks \union {None}]

RouteInit ==
    /\ rule = [r \in Rules |-> None]
    /\ lock = [l \in Locks |-> None]
    /\ caller = [c \in Callers |-> None]
    /\ published = {}

Active(s) == {l \in Locks : lock[l] # None /\ lock[l].scope = s /\ lock[l].status = "active"}

Step(c, next) == caller' = [caller EXCEPT ![c] = next]

Doing(c, op) == caller[c] # None /\ caller[c].op = op

-----------------------------------------------------------------------------
(* Rules *)

\* upsert_rule reads the rule and compares the version the caller expects, if any.
ReadRule(c, r, content) ==
    /\ caller[c] = None
    /\ rule[r] # None => rule[r].version < MaxRuleVersion
    /\ Step(c, [op |-> "upsert", rule |-> r, content |-> content,
                version |-> IF rule[r] = None THEN 1 ELSE rule[r].version + 1])
    /\ UNCHANGED <<rule, lock, published>>

\* The row is written whatever version it has by now.
UpsertRule(c) ==
    LET call == caller[c]
    IN  /\ Doing(c, "upsert")
        /\ rule' = [rule EXCEPT ![call.rule] =
               [id |-> call.rule, version |-> call.version, enabled |-> TRUE,
                labels |-> call.content.labels, agents |-> call.content.agents,
                priority |-> call.content.priority, model |-> call.content.model,
                fallback |-> call.content.fallback]]
        /\ published' = published \union {<<call.rule, call.version, call.content.model>>}
        /\ Step(c, None)
        /\ UNCHANGED lock

DeleteRule(r) ==
    /\ rule[r] # None
    /\ rule' = [rule EXCEPT ![r] = None]
    /\ UNCHANGED <<lock, caller, published>>

\* disable_rules, when a provider is deleted
DisableRule(r) ==
    /\ rule[r] # None /\ rule[r].enabled
    /\ rule' = [rule EXCEPT ![r].enabled = FALSE]
    /\ UNCHANGED <<lock, caller, published>>

-----------------------------------------------------------------------------
(* resolve_or_create_lock; reselect_model enters it with a lock just released *)

Stored == {rule[r] : r \in {q \in Rules : rule[q] # None}}

SnapshotOf(row) == [rule |-> row.id, version |-> row.version, model |-> row.model]

\* An active lock is returned as it is; otherwise the first rule that matches makes
\* a snapshot, and without one, or with its model disabled, the call fails.
Resolve(c, s, ctx) ==
    /\ caller[c] = None \/ (Doing(c, "reselect") /\ caller[c].scope = s)
    /\ IF Active(s) # {}
       THEN \E l \in Active(s) : Step(c, [op |-> "routed", scope |-> s, lock |-> l])
       ELSE \/ \E row \in FirstMatch(Stored, ctx) :
                  /\ row.model \notin Disabled
                  /\ Step(c, [op |-> "pin", scope |-> s, snapshot |-> SnapshotOf(row)])
            \/ /\ \/ FirstMatch(Stored, ctx) = {}
                  \/ \E row \in FirstMatch(Stored, ctx) : row.model \in Disabled
               /\ caller[c] # None
               /\ Step(c, None)
    /\ UNCHANGED <<rule, lock, published>>

\* Mutant of Recorded: the lock is inserted without a look at the active ones.
RecordedAlways(s, new) ==
    \E l \in Locks : lock[l] = None /\ lock' = [lock EXCEPT ![l] = new]

\* record_route_lock: refused when the scope has an active lock
Recorded(s, new) ==
    /\ Active(s) = {}
    /\ \E l \in Locks : lock[l] = None /\ lock' = [lock EXCEPT ![l] = new]

NewLock(s, snapshot, source) ==
    [scope |-> s, snapshot |-> snapshot, status |-> "active",
     fallback |-> source # None, source |-> source]

Pin(c) ==
    LET call == caller[c]
    IN  /\ Doing(c, "pin")
        /\ \/ /\ Recorded(call.scope, NewLock(call.scope, call.snapshot, None))
              /\ \E l \in Locks : lock[l] = None /\ lock'[l] # None
                    /\ Step(c, [op |-> "routed", scope |-> call.scope, lock |-> l])
           \/ /\ Active(call.scope) # {}
              /\ Step(c, [op |-> "lost", scope |-> call.scope])
              /\ UNCHANGED lock
        /\ UNCHANGED <<rule, published>>

\* The winner's lock is authoritative, unless it has been released since.
TakeWinner(c) ==
    LET s == caller[c].scope
    IN  /\ Doing(c, "lost")
        /\ \/ \E l \in Active(s) : Step(c, [op |-> "routed", scope |-> s, lock |-> l])
           \/ Active(s) = {} /\ Step(c, None)
        /\ UNCHANGED <<rule, lock, published>>

\* invoke reads the rule of the lock it was given, for its fallback model.
ReadRuleOf(c) ==
    LET r == lock[caller[c].lock].snapshot.rule
    IN  /\ Doing(c, "routed")
        /\ Step(c, [op |-> "serving", scope |-> caller[c].scope, lock |-> caller[c].lock,
                    fallback |-> IF r \in Rules /\ rule[r] # None THEN rule[r].fallback ELSE None])
        /\ UNCHANGED <<rule, lock, published>>

\* create_fallback_lock, for a request the primary model has failed: the new lock is
\* returned and announced whether or not record_route_lock stored it.
CreateFallback(c) ==
    LET call == caller[c]
        snapshot == [rule |-> "fallback", version |-> 0, model |-> call.fallback]
    IN  /\ Doing(c, "serving") /\ call.fallback # None
        /\ \/ Recorded(call.scope, NewLock(call.scope, snapshot, call.lock))
           \/ Active(call.scope) # {} /\ UNCHANGED lock
        /\ Step(c, None)
        /\ UNCHANGED <<rule, published>>

\* reselect_model reads the active lock ...
ReadReselect(c, s) ==
    /\ caller[c] = None
    /\ \E l \in Active(s) : Step(c, [op |-> "release", scope |-> s, lock |-> l])
    /\ UNCHANGED <<rule, lock, published>>

Releases(l) == [lock EXCEPT ![l].status = "released"]

\* ... releases it, or fails when another caller has released it ...
Release(c) ==
    LET l == caller[c].lock
    IN  /\ Doing(c, "release")
        /\ IF lock[l].status = "active"
           THEN /\ lock' = Releases(l)
                /\ Step(c, [op |-> "reselect", scope |-> caller[c].scope])
           ELSE Step(c, None) /\ UNCHANGED lock
        /\ UNCHANGED <<rule, published>>

\* ... and resolves again.  A request is served, or the process dies at any point.
GiveUp(c) == caller[c] # None /\ Step(c, None) /\ UNCHANGED <<rule, lock, published>>

RouteNext ==
    \/ \E c \in Callers :
          \/ \E r \in Rules, content \in Contents : ReadRule(c, r, content)
          \/ \E s \in Scopes : ReadReselect(c, s) \/ \E ctx \in Contexts : Resolve(c, s, ctx)
          \/ UpsertRule(c) \/ Pin(c) \/ TakeWinner(c) \/ ReadRuleOf(c)
          \/ CreateFallback(c) \/ Release(c) \/ GiveUp(c)
    \/ \E r \in Rules : DeleteRule(r) \/ DisableRule(r)

-----------------------------------------------------------------------------
(* Properties *)

\* A scope has one active lock at most, however many callers resolve, reselect and
\* fall back at the same time; a lock that was given to a caller belongs to the
\* scope the caller asked for; and a lock names a version of a rule that was
\* committed with that very model, or, a fallback lock, a lock of its scope.
RoutesPinned ==
    /\ \A s \in Scopes : Cardinality(Active(s)) <= 1
    /\ \A c \in Callers : Doing(c, "routed") => lock[caller[c].lock].scope = caller[c].scope
    /\ \A l \in Locks : lock[l] # None =>
          IF lock[l].fallback
          THEN lock[lock[l].source] # None /\ lock[lock[l].source].scope = lock[l].scope
          ELSE LET snapshot == lock[l].snapshot
               IN  <<snapshot.rule, snapshot.version, snapshot.model>> \in published
=============================================================================
