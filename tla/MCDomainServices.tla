-------------------------- MODULE MCDomainServices --------------------------
(***************************************************************************)
(* Instances of DomainServices for TLC.                                    *)
(***************************************************************************)
EXTENDS DomainServices, TLC

\* How far the version of each row counts: enough for the longest chain of commands
\* that the part is about, and for a second command that has read an older version.
Bounds ==
    LET upTo(ids, n) == [id \in ids |-> n]
    IN  upTo(Episodes, 5) @@ upTo(UNION {Projects, Series, S!Revisions}, 2) @@ upTo(EvalRuns, 5)
            @@ upTo(Workspaces, 3) @@ upTo(Memories, 2) @@ upTo(L!Takes, 2) @@ upTo(Assets, 4)
            @@ upTo(L!Plans, 3)
            @@ upTo(CodeVideos \union RenderJobs, 4)
            @@ upTo(UNION {S!StudioIds, P!ProductionIds, L!LiveRecordIds, Q!QualityIds,
                           W!WorkspaceIds, A!AutomationIds}, 1)

\* Where one command follows the other, the lock of a workspace is taken, released and
\* taken again.
LockBounds ==
    LET upTo(ids, n) == [id \in ids |-> n]
    IN  upTo(UNION {S!StudioIds, P!ProductionIds, L!LiveRecordIds, Q!QualityIds,
                    W!WorkspaceIds, A!AutomationIds, Memories}, 5)

\* A dangerous tool behind the policy gate, which edits make less so.
DangerousTool == {[enabled |-> TRUE, gated |-> TRUE, destructive |-> TRUE, high |-> TRUE]}

\* The values of a set are interchangeable, and so are all of those that are called x,
\* in whatever sets they are, and all of those that are called y.
Symmetry == UNION {Permutations(Calls), Permutations(Texts), Permutations(Panels)}
=============================================================================
