---------------------------- MODULE AgentRuntime ----------------------------
(***************************************************************************)
(* The agent runtime as a whole: the tables of AgentTasks, AgentRuns and   *)
(* AgentWorkflows, and the validation of workflow graphs.                  *)
(*                                                                         *)
(* The commands of one part look into the tables of another only for       *)
(* whether a row exists, and which session and run it belongs to, and none *)
(* of that ever changes.  Interleaving the parts would show nothing new: a *)
(* behaviour exercises one of them, any of them, and leaves the others     *)
(* alone.                                                                  *)
(***************************************************************************)
EXTENDS Integers, FiniteSets, AgentLifecycle

CONSTANTS
    Parts,                                      \* the parts to exercise
    Tasks, Approvals, Checkpoints, MaxAttempts, MaxTaskVersion,
    Runs, Delegations, Targets, Limits, Deltas, MaxRunVersion,
    Sessions, Workflows, Steps, Nodes, Rooted, MaxRowVersion,
    Names, MaxEdges,
    Calls, None

ASSUME PartsAssumption == Parts \subseteq {"tasks", "runs", "workflows", "graphs"}
ASSUME TasksAssumption ==
    /\ None \notin Tasks \union Approvals \union TaskState
    /\ MaxAttempts \in [Tasks -> Nat \ {0}]
    /\ MaxTaskVersion \in Nat
ASSUME RunsAssumption ==
    /\ None \notin Runs \union Nat
    /\ Targets \subseteq LoopState
    /\ Limits \subseteq [turns : Nat \union {None}, children : Nat \union {None}]
    /\ Deltas \subseteq Nat
    /\ MaxRunVersion \in [Runs -> Nat]
ASSUME WorkflowsAssumption ==
    /\ None \notin Sessions \union Workflows \union Steps
    /\ None \notin SessionState \union WorkflowState \union StepState
    /\ Sessions \intersect Workflows = {}
    /\ Steps \intersect (Sessions \union Workflows) = {}
    /\ \A w \in Workflows : Rooted[w] \subseteq Nodes[w] /\ (Nodes[w] # {} => Rooted[w] # {})
    /\ MaxRowVersion \in [Sessions \union Workflows \union Steps -> Nat]
ASSUME GraphsAssumption == IsFiniteSet(Names) /\ MaxEdges \in Nat

VARIABLES
    part,                                                \* the part exercised
    task, approval, checkpoint, taskTold, taskCall,
    run, delegation, runTold, spent, runCall,
    row, place, rowCall,
    nodes, edges, inDegree, queue, order, verdict

T == INSTANCE AgentTasks WITH
        told <- taskTold, call <- taskCall, MaxVersion <- MaxTaskVersion
R == INSTANCE AgentRuns WITH
        told <- runTold, call <- runCall, MaxVersion <- MaxRunVersion
W == INSTANCE AgentWorkflows WITH call <- rowCall, MaxVersion <- MaxRowVersion
G == INSTANCE WorkflowGraph

ASSUME NullAssumption == None \notin R!Delegation \union W!Place

taskVars == <<task, approval, checkpoint, taskTold, taskCall>>
runVars == <<run, delegation, runTold, spent, runCall>>
workflowVars == <<row, place, rowCall>>
graphVars == <<nodes, edges, inDegree, queue, order, verdict>>
vars == <<part, taskVars, runVars, workflowVars, graphVars>>

Init ==
    /\ part \in Parts
    /\ T!Init /\ R!Init /\ W!Init /\ G!Init
    /\ part # "graphs" => nodes = {} /\ edges = <<>>

Next ==
    /\ UNCHANGED part
    /\ \/ part = "tasks" /\ T!Next /\ UNCHANGED <<runVars, workflowVars, graphVars>>
       \/ part = "runs" /\ R!Next /\ UNCHANGED <<taskVars, workflowVars, graphVars>>
       \/ part = "workflows" /\ W!Next /\ UNCHANGED <<taskVars, runVars, graphVars>>
       \/ part = "graphs" /\ G!Next /\ UNCHANGED <<taskVars, runVars, workflowVars>>

Spec == Init /\ [][Next]_vars

-----------------------------------------------------------------------------
(* Properties *)

\* Every table keeps its type, and so does the walk of validate_dag.
TypeOK == T!TypeOK /\ R!TypeOK /\ W!TypeOK /\ G!TypeOK

\* Every change of a task, run, workflow, step or session is one its transition table
\* allows from the state it replaces, although the commands were checked against
\* the state they had read; the exceptions of the code are a retry within
\* max_attempts, a refused approval, an exhausted budget, and a draft that is
\* scheduled, which takes two moves at once.  A workflow or step that ended, and an
\* archived session, is not written again.
AlongLifecycles ==
    /\ T!AlongLifecycle /\ R!RunsAlongLifecycle
    /\ W!RowsAlongLifecycle /\ W!EndedStays

\* What the outbox says last of a task or run is the state of its row, but for the
\* events that resolve_approval and the delegations record without looking at
\* their update.
ToldTruthfully == T!ToldTruthfully /\ R!RunToldTruthfully

\* awaiting_approval_id is set only while the task waits for permission, and names
\* a request of that task.
AwaitingWhileWaiting == T!AwaitingWhileWaiting

\* Of two decisions on one approval that race in resolve_approval, the first
\* stands.
DecidedOnce == T!DecidedOnce

\* record_run_budget_usage loses no report to a command that read the same row,
\* counts none twice, and fails closed: a run whose turns are used up has failed
\* and stays so.
UsageWithinBudget == R!UsageExact /\ R!ExhaustedFailed

\* schedule_workflow gives a started workflow one step for each of its nodes,
\* however it races with another one and with transition_workflow.
OneStepPerNode == W!OneStepPerNode

\* validate_dag accepts exactly the nonempty directed acyclic graphs; of those
\* topological_order returns every node once, after its predecessors, and
\* ready_nodes offers a node until all are completed, none too early.
DagsOrdered == G!AcceptsDags /\ G!OrderTopological /\ G!NeverStalls

-----------------------------------------------------------------------------
(* What the documentation says, and the code does not keep *)

\* PHASE_13_AGENT_RUNTIME.md on tasks: COMPLETED, FAILED and CANCELLED are terminal,
\* with the exception of a retry.
TerminalFinal == T!TerminalFinal

\* PHASE_13_AGENT_RUNTIME.md on transition_delegation: the last delegation to end
\* releases the parent that waits for its children.
ParentReleased == R!ParentReleased
=============================================================================
