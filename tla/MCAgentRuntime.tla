--------------------------- MODULE MCAgentRuntime ---------------------------
(***************************************************************************)
(* Instances of AgentRuntime for TLC.                                      *)
(***************************************************************************)
EXTENDS AgentRuntime, TLC

CONSTANTS r1, s1, na, nb

TwoAttempts == [t \in Tasks |-> 2]

\* One limit on turns and children, or two children and any number of turns.
TwoTurnsOneChild == {[turns |-> 2, children |-> 1]}
TwoChildren == {[turns |-> None, children |-> 2]}

\* Every workflow is the chain na -> nb.
Chain == [w \in Workflows |-> {na, nb}]
ChainRoot == [w \in Workflows |-> {na}]

\* r1 is to come back from waiting for a child, r2 to be that child.
RunVersions == [r \in Runs |-> IF r = r1 THEN 5 ELSE 1]

\* One step goes through its whole lifecycle, the others move once.
RowVersions ==
    [x \in Sessions \union Workflows \union Steps |->
        IF x = s1 THEN 6 ELSE IF x \in Workflows THEN 4 ELSE 1]

RuntimeSymmetry ==
    UNION {Permutations(Approvals), Permutations(Delegations), Permutations(Calls)}
=============================================================================
