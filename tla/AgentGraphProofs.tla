-------------------------- MODULE AgentGraphProofs --------------------------
(***************************************************************************)
(* What holds of validate_dag, topological_order and ready_nodes for every *)
(* finite graph: the proof of DagsOrdered, which the run agent_runtime     *)
(* checks on small graphs.                                                 *)
(*                                                                         *)
(* The walk is Kahn's algorithm.  Its invariant: the counter of a node is  *)
(* the number of its incoming edges that start at nodes not yet visited,   *)
(* the queue holds the unvisited nodes for which there are none, and the   *)
(* nodes visited so far are closed under predecessors.                     *)
(***************************************************************************)
EXTENDS AgentRuntime, FiniteSetTheorems, SequenceTheorems, WellFoundedInduction, TLAPS

\* The incoming edges of x that start at nodes not yet visited.
Waiting(x) == {i \in G!Into(x) : edges[i][1] \notin G!Visited}

GraphTyped ==
    /\ nodes \subseteq Names
    /\ edges \in Seq(G!Edge)
    /\ inDegree \in [nodes -> Nat]
    /\ queue \subseteq nodes
    /\ order \in Seq(nodes)
    /\ verdict \in {"asked", "walking", "accepted", "rejected"}

\* The nodes visited are all different, and each comes after its predecessors.
OrderSound ==
    /\ \A i, j \in DOMAIN order : order[i] = order[j] => i = j
    /\ \A j \in DOMAIN order, m \in Names :
          <<m, order[j]>> \in G!EdgeSet => \E i \in DOMAIN order : i < j /\ order[i] = m
    /\ IsFiniteSet(G!Visited) /\ Cardinality(G!Visited) = Len(order)

\* What the walk keeps of the counters and the queue.
Walking ==
    /\ G!WellFormed
    /\ \A x \in nodes : inDegree[x] = Cardinality(Waiting(x))
    /\ queue = {x \in nodes \ G!Visited : Waiting(x) = {}}

\* Each node the walk did not reach waits for another one.
Stuck ==
    /\ nodes # G!Visited
    /\ \A x \in nodes \ G!Visited : Waiting(x) # {}

\* The inductive invariant of the walk.
GraphInv ==
    /\ GraphTyped
    /\ OrderSound
    /\ verdict = "asked" => order = <<>>
    /\ verdict = "walking" => Walking
    /\ verdict = "accepted" => G!WellFormed /\ G!Visited = nodes
    /\ verdict = "rejected" => ~G!WellFormed \/ Stuck

-----------------------------------------------------------------------------

\* The graph's cardinality is that of the library's theorems.
LEMMA SameCardinality == \A S : G!Cardinality(S) = Cardinality(S)
  <1> TAKE S
  <1> QED BY DEF G!Cardinality, Cardinality

\* The definition has finitely many nodes and edges.
LEMMA GraphFinite ==
    ASSUME GraphTyped
    PROVE  /\ IsFiniteSet(nodes)
           /\ DOMAIN edges = 1..Len(edges) /\ Len(edges) \in Nat
           /\ IsFiniteSet(DOMAIN edges)
           /\ \A i \in DOMAIN edges : edges[i] \in Names \X Names
           /\ DOMAIN order = 1..Len(order) /\ Len(order) \in Nat
           /\ \A j \in DOMAIN order : order[j] \in nodes
           /\ G!Visited \subseteq nodes
  <1>1. IsFiniteSet(nodes)
    BY GraphsAssumption, FS_Subset DEF GraphTyped
  <1>2. DOMAIN edges = 1..Len(edges) /\ Len(edges) \in Nat
        /\ \A i \in DOMAIN edges : edges[i] \in Names \X Names
    BY DEF GraphTyped, G!Edge
  <1>3. IsFiniteSet(DOMAIN edges)
    BY <1>2, FS_Interval
  <1>4. DOMAIN order = 1..Len(order) /\ Len(order) \in Nat
        /\ \A j \in DOMAIN order : order[j] \in nodes
    BY DEF GraphTyped
  <1> QED BY <1>1, <1>2, <1>3, <1>4 DEF G!Visited

\* The edges a node waits for are finitely many.
LEMMA WaitingFinite ==
    ASSUME GraphTyped, NEW x
    PROVE  /\ IsFiniteSet(G!Into(x)) /\ Cardinality(G!Into(x)) \in Nat
           /\ IsFiniteSet(Waiting(x)) /\ Cardinality(Waiting(x)) \in Nat
           /\ Cardinality(Waiting(x)) = 0 <=> Waiting(x) = {}
  <1>1. IsFiniteSet(G!Into(x)) /\ IsFiniteSet(Waiting(x))
    <2>1. G!Into(x) \in SUBSET DOMAIN edges /\ Waiting(x) \in SUBSET DOMAIN edges
      BY DEF G!Into, Waiting
    <2> QED BY <2>1, GraphFinite, FS_Subset
  <1> QED BY <1>1, FS_CardinalityType, FS_EmptySet

\* One node is visited: it is taken off the edges its successors wait for.
LEMMA WaitingShrinks ==
    ASSUME GraphTyped, NEW n \in nodes, NEW x \in nodes, n \notin G!Visited,
           order' = Append(order, n), UNCHANGED edges
    PROVE  /\ G!Visited' = G!Visited \union {n}
           /\ G!Between(n, x) \subseteq Waiting(x)
           /\ Waiting(x)' = Waiting(x) \ G!Between(n, x)
  <1>1. /\ DOMAIN order = 1..Len(order) /\ Len(order) \in Nat
        /\ DOMAIN order' = 1..Len(order) + 1
        /\ order'[Len(order) + 1] = n /\ \A i \in 1..Len(order) : order'[i] = order[i]
    BY DEF GraphTyped
  <1>2. G!Visited' = G!Visited \union {n}
    BY <1>1 DEF G!Visited
  <1>3. \A i \in DOMAIN edges : edges[i] = <<n, x>> <=> edges[i][1] = n /\ edges[i][2] = x
    BY GraphFinite
  <1>4. G!Between(n, x) \subseteq Waiting(x)
    BY <1>3 DEF G!Between, Waiting, G!Into
  <1>5. Waiting(x)' = {i \in DOMAIN edges : edges[i][2] = x /\ edges[i][1] \notin G!Visited'}
    BY DEF Waiting, G!Into
  <1>6. Waiting(x)' = Waiting(x) \ G!Between(n, x)
    BY <1>2, <1>3, <1>5 DEF G!Between, Waiting, G!Into
  <1> QED BY <1>2, <1>4, <1>6

\* A step of the walk.
LEMMA AfterVisit ==
    ASSUME GraphInv, NEW n \in nodes, G!Visit(n)
    PROVE  GraphInv'
  <1>1. /\ verdict = "walking" /\ n \in queue /\ order' = Append(order, n)
        /\ UNCHANGED <<nodes, edges, verdict>>
        /\ queue' = (queue \ {n}) \union G!Freed(n)
        /\ inDegree' = [x \in nodes |-> inDegree[x] - Cardinality(G!Between(n, x))]
    BY SameCardinality DEF G!Visit
  <1>2. GraphTyped /\ OrderSound /\ Walking
    BY <1>1 DEF GraphInv
  <1>3. n \notin G!Visited /\ Waiting(n) = {}
    BY <1>1, <1>2 DEF Walking
  <1>4. ASSUME NEW x \in nodes
        PROVE  /\ G!Visited' = G!Visited \union {n}
               /\ G!Between(n, x) \subseteq Waiting(x)
               /\ Waiting(x)' = Waiting(x) \ G!Between(n, x)
               /\ IsFiniteSet(Waiting(x)) /\ IsFiniteSet(G!Between(n, x))
               /\ Cardinality(Waiting(x)) \in Nat /\ Cardinality(G!Between(n, x)) \in Nat
               /\ Cardinality(Waiting(x)') = Cardinality(Waiting(x)) - Cardinality(G!Between(n, x))
               /\ Cardinality(Waiting(x)') \in Nat
               /\ Cardinality(Waiting(x)') = 0 <=> Waiting(x)' = {}
    <2>1. /\ G!Visited' = G!Visited \union {n}
          /\ G!Between(n, x) \subseteq Waiting(x)
          /\ Waiting(x)' = Waiting(x) \ G!Between(n, x)
      BY <1>1, <1>2, <1>3, WaitingShrinks
    <2>2. IsFiniteSet(Waiting(x)) /\ Cardinality(Waiting(x)) \in Nat
      BY <1>2, WaitingFinite
    <2>3. IsFiniteSet(G!Between(n, x)) /\ Cardinality(G!Between(n, x)) \in Nat
      BY <2>1, <2>2, FS_Subset, FS_CardinalityType
    <2>4. Waiting(x) \cap G!Between(n, x) = G!Between(n, x)
      BY <2>1
    <2>5. /\ IsFiniteSet(Waiting(x) \ G!Between(n, x))
          /\ Cardinality(Waiting(x) \ G!Between(n, x))
               = Cardinality(Waiting(x)) - Cardinality(G!Between(n, x))
      BY <2>2, <2>4, FS_Difference
    <2>6. IsFiniteSet(Waiting(x)')
      BY <2>1, <2>5
    <2>7. Cardinality(Waiting(x)') \in Nat /\ (Cardinality(Waiting(x)') = 0 <=> Waiting(x)' = {})
      BY <2>6, FS_CardinalityType, FS_EmptySet
    <2> QED BY <2>1, <2>2, <2>3, <2>5, <2>7
  <1>5. \A x \in nodes : inDegree'[x] = Cardinality(Waiting(x)')
    BY <1>1, <1>2, <1>4 DEF Walking
  <1>6. G!Visited' = G!Visited \union {n}
    BY <1>4
  <1>7. \A x \in nodes : G!Between(n, x) # {} => x \notin G!Visited /\ x # n /\ x \notin queue
    <2> SUFFICES ASSUME NEW x \in nodes, NEW i \in G!Between(n, x)
                 PROVE  x \notin G!Visited /\ x # n /\ x \notin queue
      OBVIOUS
    <2>1. i \in DOMAIN edges /\ edges[i] = <<n, x>> /\ <<n, x>> \in G!EdgeSet
      BY DEF G!Between, G!EdgeSet
    <2>2. x # n
      BY <1>2, <2>1 DEF Walking, G!WellFormed
    <2>3. x \notin G!Visited
      BY <1>2, <1>3, <2>1 DEF OrderSound, G!Visited, GraphTyped
    <2>4. Waiting(x) # {}
      BY <1>4
    <2> QED BY <1>2, <2>2, <2>3, <2>4 DEF Walking
  <1>8. queue' = {x \in nodes \ G!Visited' : Waiting(x)' = {}}
    <2>1. \A x \in nodes : x \in G!Freed(n) <=> G!Between(n, x) # {} /\ Waiting(x)' = {}
      <3> TAKE x \in nodes
      <3>1. x \in G!Freed(n)
              <=> G!Between(n, x) # {} /\ inDegree[x] = Cardinality(G!Between(n, x))
        BY SameCardinality DEF G!Freed
      <3>2. inDegree[x] = Cardinality(Waiting(x))
        BY <1>2 DEF Walking
      <3> QED BY <1>4, <3>1, <3>2
    <2>2. \A x \in nodes : G!Between(n, x) = {} => Waiting(x)' = Waiting(x)
      BY <1>4
    <2>3. G!Freed(n) \subseteq nodes
      BY DEF G!Freed
    <2>4. \A x \in nodes : x \in queue <=> x \notin G!Visited /\ Waiting(x) = {}
      BY <1>2 DEF Walking
    <2>5. \A x \in nodes : x \in queue' <=> x \notin G!Visited' /\ Waiting(x)' = {}
      <3> TAKE x \in nodes
      <3>1. CASE G!Between(n, x) = {}
        <4>1. x \notin G!Freed(n) /\ Waiting(x)' = Waiting(x)
          BY <2>1, <2>2, <3>1
        <4> QED BY <1>1, <1>6, <2>4, <4>1
      <3>2. CASE G!Between(n, x) # {}
        BY <1>1, <1>6, <1>7, <2>1, <3>2
      <3> QED BY <3>1, <3>2
    <2>6. queue' \subseteq nodes
      BY <1>1, <1>2, <2>3 DEF GraphTyped
    <2> QED BY <2>5, <2>6
  <1>9. GraphTyped'
    <2>1. inDegree' \in [nodes -> Nat]
      <3>1. inDegree' = [x \in nodes |-> Cardinality(Waiting(x)')]
        BY <1>1, <1>2, <1>4 DEF Walking
      <3> QED BY <1>4, <3>1
    <2>2. queue' \subseteq nodes
      BY <1>8
    <2>3. order' \in Seq(nodes)
      BY <1>1, <1>2 DEF GraphTyped
    <2> QED BY <1>1, <1>2, <2>1, <2>2, <2>3 DEF GraphTyped
  <1>10. OrderSound'
    <2>1. /\ DOMAIN order = 1..Len(order) /\ Len(order) \in Nat
          /\ Len(order') = Len(order) + 1 /\ DOMAIN order' = 1..Len(order) + 1
          /\ order'[Len(order) + 1] = n /\ \A i \in 1..Len(order) : order'[i] = order[i]
      BY <1>1, <1>2 DEF GraphTyped
    <2>2. \A i, j \in DOMAIN order' : order'[i] = order'[j] => i = j
      <3>1. \A i \in 1..Len(order) : order[i] # n
        BY <1>3, <2>1 DEF G!Visited
      <3>2. \A i, j \in 1..Len(order) : order[i] = order[j] => i = j
        BY <1>2, <2>1 DEF OrderSound
      <3> QED BY <2>1, <3>1, <3>2
    <2>3. ASSUME NEW j \in DOMAIN order', NEW m \in Names, <<m, order'[j]>> \in G!EdgeSet
          PROVE  \E i \in DOMAIN order' : i < j /\ order'[i] = m
      <3>1. CASE j \in DOMAIN order
        <4>1. PICK i \in DOMAIN order : i < j /\ order[i] = m
          BY <1>2, <2>1, <2>3, <3>1 DEF OrderSound
        <4> QED BY <2>1, <4>1
      <3>2. CASE j = Len(order) + 1
        <4>1. PICK e \in DOMAIN edges : edges[e] = <<m, n>>
          BY <2>1, <2>3, <3>2 DEF G!EdgeSet
        <4>2. m \in G!Visited
          BY <1>3, <4>1 DEF Waiting, G!Into
        <4>3. PICK i \in DOMAIN order : order[i] = m
          BY <4>2 DEF G!Visited
        <4> QED BY <2>1, <3>2, <4>3
      <3> QED BY <2>1, <3>1, <3>2
    <2>4. IsFiniteSet(G!Visited') /\ Cardinality(G!Visited') = Len(order')
      <3>1. IsFiniteSet(G!Visited) /\ Cardinality(G!Visited) = Len(order)
        BY <1>2 DEF OrderSound
      <3>2. /\ IsFiniteSet(G!Visited \union {n})
            /\ Cardinality(G!Visited \union {n}) = Cardinality(G!Visited) + 1
        BY <1>3, <3>1, FS_AddElement
      <3> QED BY <1>6, <2>1, <3>1, <3>2
    <2>5. G!EdgeSet' = G!EdgeSet
      BY <1>1 DEF G!EdgeSet
    <2> QED BY <2>2, <2>3, <2>4, <2>5 DEF OrderSound
  <1>11. Walking'
    <2>1. G!WellFormed'
      BY <1>1, <1>2 DEF Walking, G!WellFormed
    <2> QED BY <1>1, <1>5, <1>8, <2>1 DEF Walking
  <1> QED BY <1>1, <1>9, <1>10, <1>11 DEF GraphInv

\* Before the walk, every node waits for all its incoming edges.
LEMMA AfterBegin ==
    ASSUME GraphInv, G!Begin
    PROVE  GraphInv'
  <1>1. /\ verdict = "asked" /\ G!WellFormed /\ verdict' = "walking"
        /\ inDegree' = [x \in nodes |-> Cardinality(G!Into(x))]
        /\ queue' = {x \in nodes : G!Into(x) = {}}
        /\ UNCHANGED <<nodes, edges, order>>
    BY SameCardinality DEF G!Begin
  <1>2. GraphTyped /\ OrderSound /\ order = <<>>
    BY <1>1 DEF GraphInv
  <1>3. G!Visited = {} /\ G!Visited' = {}
    BY <1>1, <1>2 DEF G!Visited
  <1>4. \A x : G!Into(x)' = G!Into(x) /\ Waiting(x)' = G!Into(x)
    BY <1>1, <1>3 DEF Waiting, G!Into
  <1>5. GraphTyped'
    <2>1. \A x \in nodes : Cardinality(G!Into(x)) \in Nat
      BY <1>2, WaitingFinite
    <2> QED BY <1>1, <1>2, <2>1 DEF GraphTyped
  <1>6. OrderSound'
    BY <1>1, <1>2 DEF OrderSound, G!Visited, G!EdgeSet
  <1>7. Walking'
    <2>1. G!WellFormed'
      BY <1>1 DEF G!WellFormed
    <2> QED BY <1>1, <1>3, <1>4, <2>1 DEF Walking
  <1> QED BY <1>1, <1>5, <1>6, <1>7 DEF GraphInv

\* The walk ends: with all nodes visited, or stuck.
LEMMA AfterFinish ==
    ASSUME GraphInv, G!Finish
    PROVE  GraphInv'
  <1>1. /\ verdict = "walking" /\ queue = {}
        /\ verdict' = IF Len(order) = Cardinality(nodes) THEN "accepted" ELSE "rejected"
        /\ UNCHANGED <<nodes, edges, inDegree, queue, order>>
    BY SameCardinality DEF G!Finish
  <1>2. GraphTyped /\ OrderSound /\ Walking
    BY <1>1 DEF GraphInv
  <1>3. G!WellFormed' /\ G!Visited' = G!Visited /\ (Stuck => Stuck')
    BY <1>1, <1>2 DEF Walking, G!WellFormed, G!Visited, Stuck, Waiting, G!Into
  <1>4. GraphTyped' /\ OrderSound'
    BY <1>1, <1>2 DEF GraphTyped, OrderSound, G!Visited, G!EdgeSet
  <1>5. CASE Len(order) = Cardinality(nodes)
    <2>1. G!Visited = nodes
      BY <1>2, <1>5, GraphFinite, FS_Subset DEF OrderSound
    <2> QED BY <1>1, <1>3, <1>4, <1>5, <2>1 DEF GraphInv
  <1>6. CASE Len(order) # Cardinality(nodes)
    <2>1. nodes # G!Visited
      BY <1>2, <1>6 DEF OrderSound
    <2>2. Stuck
      BY <1>1, <1>2, <2>1 DEF Stuck, Walking
    <2> QED BY <1>1, <1>3, <1>4, <1>6, <2>2 DEF GraphInv
  <1> QED BY <1>5, <1>6

\* Every step of the walk keeps its invariant.
LEMMA GraphStep == GraphInv /\ [G!Next]_graphVars => GraphInv'
  <1> SUFFICES ASSUME GraphInv, [G!Next]_graphVars PROVE GraphInv'
    OBVIOUS
  <1>1. CASE UNCHANGED graphVars
    <2>1. /\ UNCHANGED <<nodes, edges, inDegree, queue, order, verdict>>
          /\ G!Visited' = G!Visited /\ G!EdgeSet' = G!EdgeSet
      BY <1>1 DEF graphVars, G!Visited, G!EdgeSet
    <2>2. \A x : Waiting(x)' = Waiting(x)
      BY <2>1 DEF Waiting, G!Into
    <2>3. G!WellFormed' <=> G!WellFormed
      BY <2>1 DEF G!WellFormed
    <2>4. GraphTyped' /\ OrderSound'
      BY <2>1 DEF GraphInv, GraphTyped, OrderSound
    <2>5. (Walking => Walking') /\ (Stuck => Stuck')
      BY <2>1, <2>2, <2>3 DEF Walking, Stuck
    <2> QED BY <2>1, <2>3, <2>4, <2>5 DEF GraphInv
  <1>2. CASE G!Reject
    <2>1. /\ verdict = "asked" /\ ~G!WellFormed /\ verdict' = "rejected"
          /\ UNCHANGED <<nodes, edges, inDegree, queue, order>>
      BY <1>2 DEF G!Reject
    <2>2. ~G!WellFormed'
      BY <2>1 DEF G!WellFormed
    <2>3. GraphTyped' /\ OrderSound'
      BY <2>1 DEF GraphInv, GraphTyped, OrderSound, G!Visited, G!EdgeSet
    <2> QED BY <2>1, <2>2, <2>3 DEF GraphInv
  <1>3. CASE G!Begin
    BY <1>3, AfterBegin
  <1>4. ASSUME NEW n \in nodes, G!Visit(n) PROVE GraphInv'
    BY <1>4, AfterVisit
  <1>5. CASE G!Finish
    BY <1>5, AfterFinish
  <1> QED BY <1>1, <1>2, <1>3, <1>4, <1>5 DEF G!Next

\* The definition is any finite graph, and nothing has been visited.
LEMMA GraphInit == G!Init => GraphInv
  <1> SUFFICES ASSUME G!Init PROVE GraphInv
    OBVIOUS
  <1>1. edges \in Seq(G!Edge)
    <2>1. PICK k \in 0..MaxEdges : edges \in [1..k -> G!Edge]
      BY DEF G!Init
    <2>2. k \in Nat
      BY GraphsAssumption
    <2> QED BY <2>1, <2>2, SeqDef
  <1>2. order = <<>> /\ G!Visited = {}
    BY DEF G!Init, G!Visited
  <1>3. GraphTyped
    BY <1>1 DEF G!Init, GraphTyped
  <1>4. OrderSound
    BY <1>2, FS_EmptySet DEF OrderSound
  <1> QED BY <1>2, <1>3, <1>4 DEF GraphInv, G!Init

-----------------------------------------------------------------------------
(* What the verdicts mean *)

\* The edges are all different exactly if there are as many in the set of them.
LEMMA NoDuplicates ==
    ASSUME GraphTyped
    PROVE  Cardinality(G!EdgeSet) = Len(edges)
             <=> \A i, j \in DOMAIN edges : edges[i] = edges[j] => i = j
  <1> DEFINE D == DOMAIN edges
  <1>1. IsFiniteSet(D) /\ Cardinality(D) = Len(edges)
    <2>1. D = 1..Len(edges) /\ Len(edges) \in Nat /\ IsFiniteSet(D)
      BY GraphFinite
    <2>2. \A k \in Nat : Cardinality(1..k) = k
      <3> TAKE k \in Nat
      <3>1. Cardinality(1..k) = IF 1 > k THEN 0 ELSE k - 1 + 1
        BY FS_Interval
      <3> QED BY <3>1
    <2> QED BY <2>1, <2>2
  <1>2. edges \in [D -> G!EdgeSet] /\ \A e \in G!EdgeSet : \E i \in D : edges[i] = e
    BY DEF GraphTyped, G!EdgeSet
  <1> HIDE DEF D
  <1>3. edges \in Surjection(D, G!EdgeSet)
    BY <1>2 DEF Surjection
  <1>4. Cardinality(G!EdgeSet) = Cardinality(D) <=> edges \in Injection(D, G!EdgeSet)
    BY <1>1, <1>3, FS_Surjection
  <1>5. edges \in Injection(D, G!EdgeSet) <=> \A i, j \in D : edges[i] = edges[j] => i = j
    BY <1>2 DEF Injection, IsInjective
  <1> QED BY <1>1, <1>4, <1>5 DEF D

\* A graph all of whose nodes were visited has no cycle: of any set of nodes, the one visited
\* first has no predecessor in the set.
LEMMA VisitedAcyclic ==
    ASSUME GraphTyped, OrderSound, G!Visited = nodes
    PROVE  G!Acyclic
  <1> SUFFICES ASSUME NEW set \in SUBSET nodes, set # {}
               PROVE  \E n \in set : G!Preds(n) \intersect set = {}
    BY DEF G!Acyclic
  <1> DEFINE indices == {i \in DOMAIN order : order[i] \in set}
  <1>1. DOMAIN order \subseteq Nat
    BY GraphFinite
  <1>2. indices \in SUBSET Nat /\ indices # {}
    BY <1>1 DEF G!Visited
  <1>3. PICK i \in indices : \A j \in indices : ~(<<j, i>> \in OpToRel(<, Nat))
    BY <1>2, NatLessThanWellFounded, WFMin
  <1>4. \A j \in indices : ~(j < i)
    BY <1>2, <1>3 DEF OpToRel
  <1>5. ASSUME NEW m \in G!Preds(order[i]) \intersect set PROVE FALSE
    <2>1. <<m, order[i]>> \in G!EdgeSet /\ m \in Names
      BY <1>5 DEF G!Preds, GraphTyped
    <2>2. PICK j \in DOMAIN order : j < i /\ order[j] = m
      BY <1>3, <2>1 DEF OrderSound
    <2> QED BY <1>4, <1>5, <2>2
  <1> QED BY <1>3, <1>5

\* In a graph that is stuck, the nodes not visited have a predecessor among them.
LEMMA StuckCyclic ==
    ASSUME GraphTyped, G!WellFormed, Stuck
    PROVE  ~G!Acyclic
  <1> DEFINE rest == nodes \ G!Visited
  <1>1. rest \in SUBSET nodes /\ rest # {}
    BY GraphFinite DEF Stuck
  <1>2. ASSUME NEW x \in rest PROVE G!Preds(x) \intersect rest # {}
    <2>1. PICK i \in Waiting(x) : TRUE
      BY <1>2 DEF Stuck
    <2>2. i \in DOMAIN edges /\ edges[i][2] = x /\ edges[i][1] \notin G!Visited
      BY DEF Waiting, G!Into
    <2>3. edges[i] = <<edges[i][1], x>> /\ edges[i][1] \in nodes
      BY <2>2, GraphFinite DEF G!WellFormed
    <2>4. edges[i][1] \in G!Preds(x) /\ edges[i][1] \in rest
      BY <2>2, <2>3 DEF G!Preds, G!EdgeSet
    <2> QED BY <2>4
  <1> QED BY <1>1, <1>2 DEF G!Acyclic

\* A graph that passes the checks on its edges, and has no cycle, is what validate_dag is to
\* accept, and conversely.
LEMMA DagWellFormed ==
    ASSUME GraphTyped, nodes # {}, G!EdgeSet \subseteq nodes \X nodes,
           Cardinality(G!EdgeSet) = Len(edges), G!Acyclic
    PROVE  G!WellFormed
  <1>1. \A i \in DOMAIN edges : edges[i] \in nodes \X nodes
    BY DEF G!EdgeSet
  <1>2. ASSUME NEW i \in DOMAIN edges, edges[i][1] = edges[i][2] PROVE FALSE
    <2> DEFINE n == edges[i][1]
    <2>1. n \in nodes /\ edges[i] = <<n, n>>
      BY <1>1, <1>2
    <2>2. n \in G!Preds(n)
      BY <2>1 DEF G!Preds, G!EdgeSet
    <2> HIDE DEF n
    <2>3. {n} \in SUBSET nodes /\ {n} # {} /\ \A m \in {n} : G!Preds(m) \intersect {n} # {}
      BY <2>1, <2>2
    <2> QED BY <2>3 DEF G!Acyclic
  <1>3. \A i, j \in DOMAIN edges : edges[i] = edges[j] => i = j
    BY NoDuplicates
  <1> QED BY <1>1, <1>2, <1>3 DEF G!WellFormed

\* The invariant implies what the verdicts, the order and ready_nodes are to mean.
LEMMA GraphCorrect == GraphInv => DagsOrdered
  <1> SUFFICES ASSUME GraphInv PROVE DagsOrdered
    OBVIOUS
  <1>1. GraphTyped /\ OrderSound
    BY DEF GraphInv
  <1>2. ASSUME verdict = "accepted"
        PROVE  /\ nodes # {} /\ G!EdgeSet \subseteq nodes \X nodes
               /\ Cardinality(G!EdgeSet) = Len(edges) /\ G!Acyclic /\ G!Visited = nodes
    <2>1. G!WellFormed /\ G!Visited = nodes
      BY <1>2 DEF GraphInv
    <2>2. G!EdgeSet \subseteq nodes \X nodes
      BY <1>1, <2>1, GraphFinite DEF G!WellFormed, G!EdgeSet
    <2>3. Cardinality(G!EdgeSet) = Len(edges)
      BY <1>1, <2>1, NoDuplicates DEF G!WellFormed
    <2>4. G!Acyclic
      BY <1>1, <2>1, VisitedAcyclic
    <2> QED BY <2>1, <2>2, <2>3, <2>4 DEF G!WellFormed
  <1>3. ASSUME verdict = "rejected", nodes # {}, G!EdgeSet \subseteq nodes \X nodes,
               Cardinality(G!EdgeSet) = Len(edges), G!Acyclic
        PROVE  FALSE
    <2>1. G!WellFormed
      BY <1>1, <1>3, DagWellFormed
    <2>2. Stuck
      BY <1>3, <2>1 DEF GraphInv
    <2> QED BY <1>1, <1>3, <2>1, <2>2, StuckCyclic
  <1>4. G!AcceptsDags
    BY <1>2, <1>3, SameCardinality DEF G!AcceptsDags
  <1>5. G!OrderTopological
    <2> SUFFICES ASSUME verdict = "accepted"
                 PROVE  /\ G!Visited = nodes
                        /\ \A i, j \in DOMAIN order :
                              /\ order[i] = order[j] => i = j
                              /\ <<order[i], order[j]>> \in G!EdgeSet => i < j
      BY DEF G!OrderTopological
    <2>1. \A i \in DOMAIN order : order[i] \in Names
      BY <1>1, GraphFinite DEF GraphTyped
    <2> QED BY <1>1, <1>2, <2>1 DEF OrderSound
  <1>6. G!NeverStalls
    <2> SUFFICES ASSUME verdict = "accepted", NEW completed \in SUBSET nodes
                 PROVE  /\ completed # nodes => G!Ready(completed) # {}
                        /\ \A i, j \in DOMAIN order :
                              order[j] \in G!Ready(completed)
                                /\ <<order[i], order[j]>> \in G!EdgeSet
                                => order[i] \in completed
      BY DEF G!NeverStalls
    <2>1. ASSUME completed # nodes PROVE G!Ready(completed) # {}
      <3>1. nodes \ completed \in SUBSET nodes /\ nodes \ completed # {}
        BY <2>1
      <3>2. PICK n \in nodes \ completed : G!Preds(n) \intersect (nodes \ completed) = {}
        BY <1>2, <3>1 DEF G!Acyclic
      <3>3. G!Preds(n) \subseteq completed
        BY <3>2 DEF G!Preds
      <3> QED BY <3>2, <3>3 DEF G!Ready
    <2>2. ASSUME NEW i \in DOMAIN order, NEW j \in DOMAIN order,
                 order[j] \in G!Ready(completed), <<order[i], order[j]>> \in G!EdgeSet
          PROVE  order[i] \in completed
      BY <1>1, <2>2, GraphFinite DEF G!Ready, G!Preds
    <2> QED BY <2>1, <2>2
  <1> QED BY <1>4, <1>5, <1>6 DEF DagsOrdered

\* validate_dag accepts exactly the nonempty directed acyclic graphs on known nodes without
\* duplicate edges, topological_order puts every node once and after its predecessors, and
\* ready_nodes offers a node until all are completed: for every finite graph.
THEOREM GraphsAreOrdered == Spec => []DagsOrdered
  <1>1. Init => GraphInv
    BY GraphInit DEF Init
  <1>2. GraphInv /\ [Next]_vars => GraphInv'
    <2>1. [Next]_vars => [G!Next]_graphVars
      BY DEF Next, vars, graphVars
    <2> QED BY <2>1, GraphStep
  <1> QED BY <1>1, <1>2, GraphCorrect, PTL DEF Spec
=============================================================================
