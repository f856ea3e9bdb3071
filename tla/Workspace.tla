----------------------------- MODULE Workspace -----------------------------
(***************************************************************************)
(* Workspaces: their members, the projects bound to them, quotas, and the  *)
(* locks on their resources.  WorkspaceService                             *)
(* (modules/workspace/application/services.py) over SqlWorkspaceStore      *)
(* (infrastructure/repository.py).                                         *)
(*                                                                         *)
(* A workspace is read with its members, bindings and locks, and written   *)
(* back with all of them.  Only the commands with an expected_version      *)
(* (update, archive, suspend, restore) look at the version they write      *)
(* over; a write by any other may take back what was committed since it    *)
(* read, the lock of someone else included.                                *)
(***************************************************************************)
EXTENDS Transactions, FiniteSets

CONSTANTS
    Workspaces, Slugs, Snapshots,
    Users,            \* members and holders of locks
    BoundProjects,    \* projects that are bound to workspaces
    Resources,        \* what is locked
    Limits            \* values of max_projects

WorkspaceIds == Workspaces \union Snapshots

\* The locks of a resource, as the events tell of them.
Grants == Workspaces \X Resources

WorkspaceInit ==
    /\ row = [id \in WorkspaceIds |-> None]
    /\ call = [c \in Calls |-> None]
    /\ told = [id \in Workspaces \union Grants |-> None]

-----------------------------------------------------------------------------
(* The aggregate *)

WorkspaceStatus == {"ACTIVE", "SUSPENDED", "ARCHIVED"}

WorkspaceRole == {"OWNER", "ADMIN", "MEMBER", "VIEWER"}

CanAdmin(w, user) ==
    user \in DOMAIN row[w].members /\ row[w].members[user] \in {"OWNER", "ADMIN"}

WorkspaceLock == [holder : Users, expires : BOOLEAN, token : Nat]

WorkspaceSnapshot ==
    [of : Workspaces, status : WorkspaceStatus, members : Nat, projects : Nat, version : {0}]

WorkspaceAggregate(agg) ==
    /\ agg.slug \in Slugs /\ agg.owner \in Users /\ agg.status \in WorkspaceStatus
    /\ agg.sandbox \in BOOLEAN /\ agg.max \in Limits
    /\ agg.used \in Nat /\ agg.version \in Nat
    /\ agg.bound \subseteq BoundProjects
    /\ DOMAIN agg.members \subseteq Users
    /\ \A user \in DOMAIN agg.members : agg.members[user] \in WorkspaceRole
    /\ DOMAIN agg.locks \subseteq Resources
    /\ \A x \in DOMAIN agg.locks : agg.locks[x] \in WorkspaceLock

NotArchived(w) == Present(w) /\ row[w].status # "ARCHIVED"

\* touch
Touched(w, set) == Over(Bumped(w, set), row[w])

\* What is bound is counted.
BoundTo(w, projects) == Touched(w, [bound |-> projects, used |-> Cardinality(projects)])

Without(f, x) == [y \in DOMAIN f \ {x} |-> f[y]]

NoLocks == [x \in {} |-> None]

\* WorkspaceAggregate.create: the owner is its first member.
Created(slug, owner, max) ==
    [slug |-> slug, owner |-> owner, status |-> "ACTIVE", sandbox |-> TRUE, max |-> max, used |-> 0,
     members |-> [user \in {owner} |-> "OWNER"], bound |-> {}, locks |-> NoLocks, version |-> 1]

\* archive: an archived workspace stays as it is, another one loses its locks.
Archived(w) ==
    IF row[w].status = "ARCHIVED" THEN row[w]
    ELSE Touched(w, [status |-> "ARCHIVED", locks |-> NoLocks])

\* restore
Restored(w) == IF row[w].status = "ACTIVE" THEN row[w] ELSE Touched(w, [status |-> "ACTIVE"])

\* add_or_update_member
WithMember(w, user, role) == Touched(w, [members |-> Over([x \in {user} |-> role], row[w].members)])

\* remove_member
WithoutMember(w, user) ==
    IF user \in DOMAIN row[w].members THEN Touched(w, [members |-> Without(row[w].members, user)])
    ELSE row[w]

\* bind_project
MayBind(w, p) == p \in row[w].bound \/ Cardinality(row[w].bound) < row[w].max

WithProject(w, p) == IF p \in row[w].bound THEN row[w] ELSE BoundTo(w, row[w].bound \union {p})

\* unbind_project
WithoutProject(w, p) == IF p \in row[w].bound THEN BoundTo(w, row[w].bound \ {p}) ELSE row[w]

\* to_snapshot
ToSnapshot(w) ==
    [of |-> w, status |-> row[w].status, version |-> 0,
     members |-> Cardinality(DOMAIN row[w].members), projects |-> Cardinality(row[w].bound)]

\* release_lock
WithoutLock(w, x) ==
    IF x \in DOMAIN row[w].locks THEN Touched(w, [locks |-> Without(row[w].locks, x)]) ELSE row[w]

-----------------------------------------------------------------------------
(* The store *)

\* save: over the row if there is one, with every column but the owner's.  Slugs are
\* unique.
Save(w, new, expected) ==
    Unique(IF Present(w) THEN Update(w, [f \in DOMAIN new \ {"owner"} |-> new[f]], expected)
           ELSE Insert(w, new), "slug")

SaveSnapshot(n, snapshot) == Insert(n, snapshot)

\* WorkspaceEventFactory
WorkspaceSays(id, what) == [x \in {id} |-> what]

-----------------------------------------------------------------------------
(* Lifecycle *)

\* The caller may name the workspace: one that is there is
\* written over, and keeps nothing but its owner, who may not even be a member then.
CreateWorkspace(c, w, slug, owner, max) ==
    /\ \A other \in Workspaces : Present(other) => row[other].slug # slug
    /\ Begin(c, {Save(w, Created(slug, owner, max), None)}, WorkspaceSays(w, "created"))

UpdateWorkspace(c, w, expected) ==
    /\ expected \in Stated(w)
    /\ NotArchived(w)
    /\ Begin(c, {Save(w, Touched(w, << >>), expected)}, WorkspaceSays(w, row[w].status))

\* An archived workspace is saved and announced again as it is.
ArchiveWorkspace(c, w, expected) ==
    /\ expected \in Stated(w)
    /\ Begin(c, {Save(w, Archived(w), expected)}, WorkspaceSays(w, "ARCHIVED"))

SuspendWorkspace(c, w, expected) ==
    /\ expected \in Stated(w)
    /\ NotArchived(w)
    /\ Begin(c, {Save(w, Touched(w, [status |-> "SUSPENDED"]), expected)},
             WorkspaceSays(w, "SUSPENDED"))

RestoreWorkspace(c, w, expected) ==
    /\ expected \in Stated(w)
    /\ Begin(c, {Save(w, Restored(w), expected)}, WorkspaceSays(w, "ACTIVE"))

-----------------------------------------------------------------------------
(* Members, projects, quota and policy *)

AddMember(c, w, actor, user, role) ==
    /\ NotArchived(w)
    /\ CanAdmin(w, actor)
    /\ user = row[w].owner => role = "OWNER"
    /\ Begin(c, {Save(w, WithMember(w, user, role), None)}, WorkspaceSays(w, "member_added"))

RemoveMember(c, w, actor, user) ==
    /\ NotArchived(w)
    /\ CanAdmin(w, actor)
    /\ user # row[w].owner
    /\ Begin(c, {Save(w, WithoutMember(w, user), None)}, WorkspaceSays(w, "member_removed"))

BindProject(c, w, p) ==
    /\ NotArchived(w)
    /\ MayBind(w, p)
    /\ Begin(c, {Save(w, WithProject(w, p), None)}, WorkspaceSays(w, "project_bound"))

UnbindProject(c, w, p) ==
    /\ NotArchived(w)
    /\ Begin(c, {Save(w, WithoutProject(w, p), None)}, WorkspaceSays(w, "project_unbound"))

UpdateQuota(c, w, max) ==
    /\ Present(w)
    /\ Begin(c, {Save(w, Touched(w, [max |-> max]), None)}, WorkspaceSays(w, "updated"))

UpdatePolicy(c, w, sandbox) ==
    /\ Present(w)
    /\ Begin(c, {Save(w, Touched(w, [sandbox |-> sandbox]), None)}, WorkspaceSays(w, "updated"))

\* update_usage, from the job workspace.quota.recalculate
RecalculateQuota(c, w) ==
    /\ Present(w)
    /\ Begin(c, {Save(w, BoundTo(w, row[w].bound), None)}, [id \in {} |-> None])

CreateSnapshot(c, n, w) ==
    /\ Present(w)
    /\ Begin(c, {SaveSnapshot(n, ToSnapshot(w))}, [id \in {} |-> None])

-----------------------------------------------------------------------------
(* Locks *)

\* The lock of a resource is free, of the holder's own, or expired: it expires when its
\* time has come, if it has one, at any time.
MayAcquire(w, x, holder) ==
    x \in DOMAIN row[w].locks => row[w].locks[x].holder = holder \/ row[w].locks[x].expires

\* The token is one more than that of the lock in place: after a release it is 1 again.
NextToken(w, x) == IF x \in DOMAIN row[w].locks THEN row[w].locks[x].token + 1 ELSE 1

AcquireLock(c, w, x, holder, expires) ==
    LET lock == [holder |-> holder, expires |-> expires, token |-> NextToken(w, x)]
    IN  /\ Present(w) /\ row[w].status = "ACTIVE"
        /\ MayAcquire(w, x, holder)
        /\ Begin(c, {Save(w, Touched(w, [locks |-> Over([y \in {x} |-> lock], row[w].locks)]), None)},
                 WorkspaceSays(<<w, x>>, lock))

\* A lock that is not there is announced as released.
ReleaseLock(c, w, x, holder) ==
    /\ Present(w)
    /\ x \in DOMAIN row[w].locks => row[w].locks[x].holder = holder
    /\ Begin(c, {Save(w, WithoutLock(w, x), None)}, WorkspaceSays(w, "lock_released"))

-----------------------------------------------------------------------------
(* What is asked for through the routes *)

LifecycleRequests(c) ==
    \E w \in Workspaces :
        \/ \E slug \in Slugs, owner \in Users, max \in Limits :
              CreateWorkspace(c, w, slug, owner, max)
        \/ \E v \in Stated(w) : \/ UpdateWorkspace(c, w, v)  \/ ArchiveWorkspace(c, w, v)
                                \/ SuspendWorkspace(c, w, v) \/ RestoreWorkspace(c, w, v)

MemberRequests(c) ==
    \E w \in Workspaces, actor, user \in Users :
        \/ \E role \in WorkspaceRole : AddMember(c, w, actor, user, role)
        \/ RemoveMember(c, w, actor, user)

QuotaRequests(c) ==
    \E w \in Workspaces :
        \/ \E p \in BoundProjects : BindProject(c, w, p) \/ UnbindProject(c, w, p)
        \/ \E max \in Limits : UpdateQuota(c, w, max)
        \/ \E sandbox \in BOOLEAN : UpdatePolicy(c, w, sandbox)
        \/ RecalculateQuota(c, w)
        \/ \E n \in Snapshots : CreateSnapshot(c, n, w)

LockRequests(c) ==
    \E w \in Workspaces, x \in Resources, holder \in Users :
        \/ \E expires \in BOOLEAN : AcquireLock(c, w, x, holder, expires)
        \/ ReleaseLock(c, w, x, holder)

SomeWorkspace(c) ==
    \E w \in Workspaces, slug \in Slugs, owner \in Users, max \in Limits :
        ~Present(w) /\ CreateWorkspace(c, w, slug, owner, max)

WorkspaceLifecycleNext == Finish \/ \E c \in Calls : LifecycleRequests(c)

WorkspaceMembersNext == Finish \/ \E c \in Calls : SomeWorkspace(c) \/ MemberRequests(c)

WorkspaceQuotasNext == Finish \/ \E c \in Calls : SomeWorkspace(c) \/ QuotaRequests(c)

WorkspaceLocksNext == Finish \/ \E c \in Calls : SomeWorkspace(c) \/ LockRequests(c)

-----------------------------------------------------------------------------
(* Properties *)

WorkspaceTypeOK ==
    /\ \A w \in Workspaces : Present(w) => WorkspaceAggregate(row[w])
    /\ \A n \in Snapshots : Present(n) => row[n] \in WorkspaceSnapshot

\* "WorkspaceLock with monotonic fencing tokens": of two locks granted on a resource
\* one after the other, the later one has the larger token.  It does not hold: the
\* token is 1 again after a release, and two commands that read the same workspace are
\* granted the lock of one resource at the same time, with the same token.
TokensGrow ==
    \A g \in Grants : told'[g] # told[g] /\ told[g] # None => told'[g].token > told[g].token
=============================================================================
