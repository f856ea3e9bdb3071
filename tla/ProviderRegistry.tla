-------------------------- MODULE ProviderRegistry --------------------------
(***************************************************************************)
(* Providers, their endpoints and credentials, and the models discovered   *)
(* on them: ProviderRegistryService                                        *)
(* (modules/model_gateway/application/registry.py).                        *)
(*                                                                         *)
(* SECRETS.  The secret of a credential is kept by EncryptedSecretStore in *)
(* transactions of its own: it is written before the credential is         *)
(* committed and deleted after it is revoked, and the process may die in   *)
(* between.  A credential and its secret share a name.                     *)
(*                                                                         *)
(* TRANSACTIONS are READ COMMITTED: revoke_active_credentials revokes the  *)
(* credentials that are committed when its UPDATE starts, and a discovery  *)
(* marks the bindings unavailable that are committed when it reads them.   *)
(* Each is a step of its own, and rows that are written stay locked until  *)
(* the commit.  A check that a provider exists is a step of its own too.   *)
(***************************************************************************)
EXTENDS GatewayPolicy

CONSTANTS
    Admins,        \* operations that may be under way at the same time
    Providers,     \* providers
    Endpoints,     \* endpoints
    Owner,         \* provider of each endpoint
    Credentials,   \* credentials, and the names of their secrets
    RawIds,        \* ids of models that providers report
    None,
    MaxSecretVersion

VARIABLES
    provider,    \* model_gateway_providers: "absent", "enabled" or "disabled"
    endpoint,    \* model_gateway_endpoints
    credential,  \* model_gateway_credentials
    secret,      \* names in model_gateway_secrets
    model,       \* model_gateway_models: canonical names
    binding,     \* model_gateway_bindings: <<endpoint, canonical name>> -> raw id, or None
    active,      \* the bindings that are active
    op,          \* each operation under way
    discovery,   \* record_discovery under way, for each admin
    reported     \* for each endpoint, what its last discovery found, and what it and those
                 \* found that committed amid it, after it had read the bindings

registryVars == <<provider, endpoint, credential, secret, model, binding, active, op,
                  discovery, reported>>

Credential == [provider : Providers, version : Nat, revoked : BOOLEAN]

Pairs == Endpoints \X {CanonicalName(id) : id \in RawIds}

RegistryInit ==
    /\ provider = [p \in Providers |-> "absent"]
    /\ endpoint = {}
    /\ credential = [c \in Credentials |-> None]
    /\ secret = {}
    /\ model = {}
    /\ binding = [pair \in Pairs |-> None]
    /\ active = {}
    /\ op = [a \in Admins |-> None]
    /\ discovery = [a \in Admins |-> None]
    /\ reported = [e \in Endpoints |-> [ids |-> {}, amid |-> {}]]

Exists(p) == provider[p] # "absent"

ActiveCredentials(p) ==
    {c \in Credentials : credential[c] # None /\ credential[c].provider = p
                                              /\ ~credential[c].revoked}

\* An admin does one thing at a time.
Idle(a) == op[a] = None /\ discovery[a] = None

Become(a, next) == op' = [op EXCEPT ![a] = next]

Performs(a, name) == op[a] # None /\ op[a].name = name

\* A credential id nobody has: it is not in the table, not in the store of secrets,
\* and no operation under way knows it.
Unused(c) ==
    /\ credential[c] = None /\ c \notin secret
    /\ \A a \in Admins : op[a] # None => c \notin {op[a].new, op[a].stale}

Operation(name, p) == [name |-> name, provider |-> p, new |-> None, version |-> 1,
                       stale |-> None, visible |-> {}]

-----------------------------------------------------------------------------
(* register_provider, update_provider, delete_provider *)

\* The secret is written before the transaction starts.
WriteFirstSecret(a, p, c) ==
    /\ Idle(a)
    /\ Unused(c)
    /\ secret' = secret \union {c}
    /\ Become(a, [Operation("register", p) EXCEPT !.new = c])
    /\ UNCHANGED <<provider, endpoint, credential, model, binding, active, discovery, reported>>

\* The row that insert_credential makes
InsertedCredential(p, version) == [provider |-> p, version |-> version, revoked |-> FALSE]

Register(p, e, c) ==
    /\ Owner[e] = p
    /\ provider' = [provider EXCEPT ![p] = "enabled"]
    /\ endpoint' = endpoint \union {e}
    /\ credential' = IF c = None THEN credential
                     ELSE [credential EXCEPT ![c] = InsertedCredential(p, 1)]
    /\ UNCHANGED <<secret, model, binding, active, discovery, reported>>

\* With a credential or without; a provider of that name is refused, and the secret
\* stays behind.
RegisterProvider(a, p, e) ==
    \/ ~Exists(p) /\ Idle(a) /\ Register(p, e, None) /\ UNCHANGED op
    \/ /\ Performs(a, "register") /\ op[a].provider = p
       /\ Become(a, None)
       /\ IF Exists(p) THEN UNCHANGED <<provider, endpoint, credential, secret, model, binding,
                                        active, discovery, reported>>
          ELSE Register(p, e, op[a].new)

UpdateProvider(p) ==
    /\ Exists(p)
    /\ provider' = [provider EXCEPT ![p] = IF @ = "enabled" THEN "disabled" ELSE "enabled"]
    /\ UNCHANGED <<endpoint, credential, secret, model, binding, active, op, discovery, reported>>

\* delete_provider of the store: the provider with its endpoints and credentials
DeleteRows(p) ==
    /\ provider' = [provider EXCEPT ![p] = "absent"]
    /\ endpoint' = {e \in endpoint : Owner[e] # p}
    /\ credential' = [c \in Credentials |->
          IF credential[c] # None /\ credential[c].provider = p THEN None ELSE credential[c]]

\* The rules that name models of the provider are disabled first, or refuse it
\* (RouteLocks has the rules).  Its bindings and secrets stay.
DeleteProvider(p) ==
    /\ Exists(p)
    /\ DeleteRows(p)
    /\ UNCHANGED <<secret, model, binding, active, op, discovery, reported>>

\* add_endpoint checks the provider before it inserts, and nothing holds the provider:
\* an endpoint may outlive it.
CheckProvider(a, p) ==
    /\ Idle(a) /\ Exists(p)
    /\ Become(a, Operation("add", p))
    /\ UNCHANGED <<provider, endpoint, credential, secret, model, binding, active, discovery,
                   reported>>

AddEndpoint(a, e) ==
    /\ Performs(a, "add") /\ op[a].provider = Owner[e]
    /\ endpoint' = endpoint \union {e}
    /\ Become(a, None)
    /\ UNCHANGED <<provider, credential, secret, model, binding, active, discovery, reported>>

-----------------------------------------------------------------------------
(* rotate_credential and remove_credential *)

ReadRotate(a, p, c) ==
    /\ Idle(a)
    /\ Exists(p) /\ Unused(c)
    /\ \/ /\ ActiveCredentials(p) = {}
          /\ Become(a, [Operation("rotate", p) EXCEPT !.new = c])
       \/ \E old \in ActiveCredentials(p) :
             /\ credential[old].version < MaxSecretVersion
             /\ Become(a, [Operation("rotate", p) EXCEPT !.new = c, !.stale = old,
                                                        !.version = credential[old].version + 1])
    /\ UNCHANGED <<provider, endpoint, credential, secret, model, binding, active, discovery,
                   reported>>

WriteSecret(a) ==
    /\ Performs(a, "rotate")
    /\ secret' = secret \union {op[a].new}
    /\ Become(a, [op[a] EXCEPT !.name = "rotate_revoke"])
    /\ UNCHANGED <<provider, endpoint, credential, model, binding, active, discovery, reported>>

ReadRemove(a, p) ==
    /\ Idle(a)
    /\ \E old \in ActiveCredentials(p) :
          Become(a, [Operation("remove_revoke", p) EXCEPT !.stale = old])
    /\ UNCHANGED <<provider, endpoint, credential, secret, model, binding, active, discovery,
                   reported>>

\* revoke_active_credentials starts: what it will revoke is what it sees now.
Revoke(a) ==
    /\ Performs(a, "rotate_revoke") \/ Performs(a, "remove_revoke")
    /\ Become(a, [op[a] EXCEPT !.name = IF @ = "rotate_revoke" THEN "check" ELSE "commit",
                               !.visible = ActiveCredentials(op[a].provider)])
    /\ UNCHANGED <<provider, endpoint, credential, secret, model, binding, active, discovery,
                   reported>>

\* insert_credential inserts nothing when the provider is gone by now, and is not asked
\* whether it did.
CheckInsert(a) ==
    /\ Performs(a, "check")
    /\ Become(a, [op[a] EXCEPT !.name = "commit",
                               !.new = IF Exists(op[a].provider) THEN @ ELSE None])
    /\ UNCHANGED <<provider, endpoint, credential, secret, model, binding, active, discovery,
                   reported>>

\* Mutant of Revoked: the credentials of before stay as they are.
RevokedNever(a, c) == FALSE

Revoked(a, c) == credential[c] # None /\ c \in op[a].visible

\* The rows are revoked, the new credential is inserted, and the transaction commits.
CommitCredential(a) ==
    /\ Performs(a, "commit")
    /\ credential' = [c \in Credentials |->
          IF c = op[a].new THEN InsertedCredential(op[a].provider, op[a].version)
          ELSE IF Revoked(a, c) THEN [credential[c] EXCEPT !.revoked = TRUE] ELSE credential[c]]
    /\ Become(a, IF op[a].stale = None THEN None ELSE [op[a] EXCEPT !.name = "delete"])
    /\ UNCHANGED <<provider, endpoint, secret, model, binding, active, discovery, reported>>

\* The secret of the credential that was read at first is deleted.
DeleteSecret(a) ==
    /\ Performs(a, "delete")
    /\ secret' = secret \ {op[a].stale}
    /\ Become(a, None)
    /\ UNCHANGED <<provider, endpoint, credential, model, binding, active, discovery, reported>>

GiveUpOperation(a) ==
    /\ op[a] # None
    /\ Become(a, None)
    /\ UNCHANGED <<provider, endpoint, credential, secret, model, binding, active, discovery,
                   reported>>

-----------------------------------------------------------------------------
(* record_discovery, one transaction of many statements *)

NamesOf(ids) == {CanonicalName(id) : id \in ids}

\* The rows of a discovery in model_gateway_bindings
Found(d) == {<<d.endpoint, name>> : name \in NamesOf(d.ids)}

Discovers(a, stage) == discovery[a] # None /\ discovery[a].stage = stage

Proceed(a, next) == discovery' = [discovery EXCEPT ![a] = next]

\* The rows of a model that a discovery wrote stay locked until it commits.
Holds(a, name) ==
    /\ Discovers(a, "upserted") \/ Discovers(a, "scanned")
    /\ name \in NamesOf(discovery[a].ids)

\* The endpoint and its provider are there when it begins.
BeginDiscovery(a, e, ids) ==
    /\ Idle(a)
    /\ e \in endpoint /\ Exists(Owner[e])
    /\ Proceed(a, [stage |-> "begun", endpoint |-> e, ids |-> ids, pick |-> <<>>,
                   gone |-> {}, amid |-> ids])
    /\ UNCHANGED <<provider, endpoint, credential, secret, model, binding, active, op, reported>>

\* upsert_model and upsert_binding for each id: an UPDATE waits for whoever holds the
\* row, an INSERT does too and fails when the other one commits.  Of several raw ids
\* with one canonical name the last one of the snapshot is kept.
UpsertFound(a) ==
    LET d == discovery[a]
    IN  /\ Discovers(a, "begun")
        /\ \A b \in Admins \ {a}, name \in NamesOf(d.ids) : ~Holds(b, name)
        /\ \E pick \in [Found(d) -> d.ids] :
              /\ \A pair \in Found(d) : CanonicalName(pick[pair]) = pair[2]
              /\ Proceed(a, [d EXCEPT !.stage = "upserted", !.pick = pick])
        /\ UNCHANGED <<provider, endpoint, credential, secret, model, binding, active, op, reported>>

\* Mutant of Unavailable: models that are not reported any more stay available.
UnavailableNever(d) == {}

\* What the SELECT of mark_unavailable_bindings finds to mark: of the rows that are
\* committed now, those with other ids.  Its own rows have ids that it found.
Unavailable(d) == {pair \in active \ Found(d) : pair[1] = d.endpoint /\ binding[pair] \notin d.ids}

ReadBindings(a) ==
    /\ Discovers(a, "upserted")
    /\ Proceed(a, [discovery[a] EXCEPT !.stage = "scanned", !.gone = Unavailable(discovery[a])])
    /\ UNCHANGED <<provider, endpoint, credential, secret, model, binding, active, op, reported>>

UpsertModels(d) == model' = model \union NamesOf(d.ids)

\* The row of an endpoint and a model gets the id it is reported with.
UpsertBindings(d) ==
    binding' = [pair \in Pairs |-> IF pair \in Found(d) THEN d.pick[pair] ELSE binding[pair]]

\* What a discovery of the endpoint knows once it has committed its ids, for those that
\* have read the bindings before
Missed(d, before) ==
    IF before # None /\ before.stage = "scanned" /\ before.endpoint = d.endpoint
    THEN [before EXCEPT !.amid = @ \union d.ids] ELSE before

\* The rows it read are marked by their id, after whoever holds them, whatever they
\* have become; the transaction commits.
CommitDiscovery(a) ==
    LET d == discovery[a]
    IN  /\ Discovers(a, "scanned")
        /\ \A b \in Admins \ {a}, pair \in d.gone :
              Holds(b, pair[2]) => discovery[b].endpoint # d.endpoint
        /\ UpsertModels(d)
        /\ UpsertBindings(d)
        /\ active' = (active \ d.gone) \union Found(d)
        /\ reported' = [reported EXCEPT ![d.endpoint] = [ids |-> d.ids, amid |-> d.amid]]
        /\ discovery' = [b \in Admins |-> IF b = a THEN None ELSE Missed(d, discovery[b])]
        /\ UNCHANGED <<provider, endpoint, credential, secret, op>>

GiveUpDiscovery(a) ==
    /\ discovery[a] # None
    /\ Proceed(a, None)
    /\ UNCHANGED <<provider, endpoint, credential, secret, model, binding, active, op, reported>>

\* list_selectable_bindings: a binding whose endpoint or provider is gone is skipped.
SelectableBindings(name) ==
    {pair \in active : pair[2] = name /\ pair[1] \in endpoint /\ Exists(Owner[pair[1]])}

CredentialsNext ==
    \/ \E a \in Admins :
          \/ \E p \in Providers :
                \/ \E c \in Credentials : WriteFirstSecret(a, p, c) \/ ReadRotate(a, p, c)
                \/ \E e \in Endpoints : RegisterProvider(a, p, e)
                \/ ReadRemove(a, p)
          \/ WriteSecret(a) \/ Revoke(a) \/ CheckInsert(a) \/ CommitCredential(a) \/ DeleteSecret(a)
          \/ GiveUpOperation(a)
    \/ \E p \in Providers : DeleteProvider(p)

CatalogNext ==
    \/ \E a \in Admins :
          \/ \E p \in Providers :
                CheckProvider(a, p) \/ \E e \in Endpoints : RegisterProvider(a, p, e)
          \/ \E e \in Endpoints :
                AddEndpoint(a, e) \/ \E ids \in SUBSET RawIds : BeginDiscovery(a, e, ids)
          \/ UpsertFound(a) \/ ReadBindings(a) \/ CommitDiscovery(a)
          \/ GiveUpDiscovery(a) \/ GiveUpOperation(a)
    \/ \E p \in Providers : UpdateProvider(p) \/ DeleteProvider(p)

-----------------------------------------------------------------------------
(* Properties *)

\* The credential an endpoint is called with always finds its secret, although the
\* two are never written in one transaction and rotations race with each other,
\* with removals and with the end of the process.
SecretsOfActive ==
    \A p \in Providers : ActiveCredentials(p) \subseteq secret

\* However discoveries of an endpoint overlap, a request may be sent to it for all that
\* the last one found, under an id that it found; and for nothing else, except what
\* another one found that committed after the last one had read the bindings, which it
\* could not see to mark unavailable.  The id is one of the model of the catalog that
\* the request is locked to.
DiscoveryKept ==
    \A pair \in Pairs :
        LET e == pair[1]
            name == pair[2]
            last == reported[e]
        IN  /\ e \in endpoint /\ Exists(Owner[e]) /\ name \in NamesOf(last.ids) =>
                  pair \in SelectableBindings(name) /\ binding[pair] \in last.ids
            /\ pair \in SelectableBindings(name) =>
                  /\ binding[pair] \in last.amid
                  /\ CanonicalName(binding[pair]) = name
                  /\ name \in model
=============================================================================
