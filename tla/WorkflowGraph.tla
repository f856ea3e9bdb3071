---------------------------- MODULE WorkflowGraph ----------------------------
(***************************************************************************)
(* WorkflowDefinition of modules/agent_runtime/domain/workflow.py:         *)
(* validate_dag and topological_order, the same walk, as a state machine   *)
(* over every small graph, and ready_nodes as an operator.                 *)
(*                                                                         *)
(* The two methods keep their queue in different orders (insertion order,  *)
(* sorted ids); here any queued node may be the next one.                  *)
(***************************************************************************)
EXTENDS Integers, Sequences, FiniteSets

CONSTANTS
    Names,    \* ids that nodes have and edges refer to
    MaxEdges  \* bound on the number of edges

Edge == Names \X Names

VARIABLES
    nodes,     \* the ids of the definition's nodes
    edges,     \* its edges, from and to, in the order given
    inDegree,  \* in_degree
    queue,     \* the queued nodes
    order,     \* the nodes visited, in order
    verdict    \* "asked", "walking", "accepted" or "rejected"

vars == <<nodes, edges, inDegree, queue, order, verdict>>

EdgeSet == {edges[i] : i \in DOMAIN edges}
Into(n) == {i \in DOMAIN edges : edges[i][2] = n}
Between(m, n) == {i \in DOMAIN edges : edges[i] = <<m, n>>}
Visited == {order[i] : i \in DOMAIN order}

Init ==
    /\ nodes \in SUBSET Names
    /\ edges \in UNION {[1..k -> Edge] : k \in 0..MaxEdges}
    /\ inDegree = [n \in nodes |-> 0]
    /\ queue = {}
    /\ order = <<>>
    /\ verdict = "asked"

-----------------------------------------------------------------------------

\* Mutant of WellFormed: only the ends are looked up.
WellFormedEnds ==
    /\ nodes # {}
    /\ \A i \in DOMAIN edges : edges[i][1] \in nodes /\ edges[i][2] \in nodes

\* What the edges are checked for before the walk: known ends, no self-loop and
\* no duplicate, in a graph that has nodes.
WellFormed ==
    /\ nodes # {}
    /\ \A i \in DOMAIN edges : edges[i][1] \in nodes /\ edges[i][2] \in nodes
    /\ \A i \in DOMAIN edges : edges[i][1] # edges[i][2]
    /\ \A i, j \in DOMAIN edges : edges[i] = edges[j] => i = j

Reject ==
    /\ verdict = "asked"
    /\ ~WellFormed
    /\ verdict' = "rejected"
    /\ UNCHANGED <<nodes, edges, inDegree, queue, order>>

\* Count the edges into each node and queue those with none.
Begin ==
    /\ verdict = "asked"
    /\ WellFormed
    /\ verdict' = "walking"
    /\ inDegree' = [n \in nodes |-> Cardinality(Into(n))]
    /\ queue' = {n \in nodes : Into(n) = {}}
    /\ UNCHANGED <<nodes, edges, order>>

\* The successors whose last unvisited predecessor is n.
Freed(n) ==
    {x \in nodes : Between(n, x) # {} /\ inDegree[x] = Cardinality(Between(n, x))}

Visit(n) ==
    /\ verdict = "walking"
    /\ n \in queue
    /\ order' = Append(order, n)
    /\ inDegree' = [x \in nodes |-> inDegree[x] - Cardinality(Between(n, x))]
    /\ queue' = (queue \ {n}) \union Freed(n)
    /\ UNCHANGED <<nodes, edges, verdict>>

\* Mutant of Finish: the walk accepts whatever it visited.
FinishAccepting ==
    /\ verdict = "walking"
    /\ queue = {}
    /\ verdict' = "accepted"
    /\ UNCHANGED <<nodes, edges, inDegree, queue, order>>

\* A node that was not visited is on a cycle or behind one.
Finish ==
    /\ verdict = "walking"
    /\ queue = {}
    /\ verdict' = IF Len(order) = Cardinality(nodes) THEN "accepted" ELSE "rejected"
    /\ UNCHANGED <<nodes, edges, inDegree, queue, order>>

Next == Reject \/ Begin \/ (\E n \in nodes : Visit(n)) \/ Finish

Spec == Init /\ [][Next]_vars

-----------------------------------------------------------------------------
(* Reference definitions and ready_nodes *)

Preds(n) == {m \in nodes : <<m, n>> \in EdgeSet}

\* Mutant of Ready: one completed predecessor is enough.
ReadyAny(completed) ==
    {n \in nodes \ completed : Preds(n) \intersect completed # {}}

\* ready_nodes, without its sorting by priority
Ready(completed) == {n \in nodes \ completed : Preds(n) \subseteq completed}

\* A finite graph has a cycle exactly when some nonempty set of its nodes has,
\* for every member, a predecessor in the set.
Acyclic ==
    \A set \in SUBSET nodes :
        set # {} => \E n \in set : Preds(n) \intersect set = {}

-----------------------------------------------------------------------------
(* Properties *)

\* Every variable keeps its type; in particular no in-degree drops below zero.
TypeOK ==
    /\ nodes \subseteq Names
    /\ \A i \in DOMAIN edges : edges[i] \in Edge
    /\ inDegree \in [nodes -> Nat]
    /\ queue \subseteq nodes
    /\ Visited \subseteq nodes
    /\ verdict \in {"asked", "walking", "accepted", "rejected"}

\* validate_dag returns exactly for the nonempty acyclic graphs on known nodes
\* without duplicate edges, and raises for the others.
AcceptsDags ==
    LET isDag == /\ nodes # {}
                 /\ EdgeSet \subseteq nodes \X nodes
                 /\ Cardinality(EdgeSet) = Len(edges)
                 /\ Acyclic
    IN  /\ verdict = "accepted" => isDag
        /\ verdict = "rejected" => ~isDag

\* topological_order returns every node once, after all of its predecessors.
OrderTopological ==
    verdict = "accepted" =>
        /\ Visited = nodes
        /\ \A i, j \in DOMAIN order :
              /\ order[i] = order[j] => i = j
              /\ <<order[i], order[j]>> \in EdgeSet => i < j

\* In an accepted workflow ready_nodes always offers a node until all are
\* completed, whatever was completed so far, and offers it after its predecessors.
NeverStalls ==
    verdict = "accepted" =>
        \A completed \in SUBSET nodes :
            /\ completed # nodes => Ready(completed) # {}
            /\ \A i, j \in DOMAIN order :
                  order[j] \in Ready(completed) /\ <<order[i], order[j]>> \in EdgeSet
                      => order[i] \in completed
=============================================================================
