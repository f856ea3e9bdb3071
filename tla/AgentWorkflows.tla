--------------------------- MODULE AgentWorkflows ---------------------------
(***************************************************************************)
(* Sessions, workflows and their steps:                                    *)
(* modules/agent_runtime/application/services.py on the store of           *)
(* infrastructure/repository.py.  Transactions are modelled as in          *)
(* AgentTasks: a Read step, and the step that writes and commits.          *)
(*                                                                         *)
(* The graph of a workflow is one that WorkflowGraph's validation accepts, *)
(* or empty; the acceptance is checked there.                              *)
(***************************************************************************)
EXTENDS Integers, AgentLifecycle

CONSTANTS
    Sessions,    \* session ids
    Workflows,   \* workflow ids
    Steps,       \* step ids
    Nodes,       \* the nodes of each workflow
    Rooted,      \* the nodes of each workflow that have no predecessor
    Calls,       \* commands that may be under way at the same time
    None,        \* SQL NULL
    MaxVersion   \* bound on the optimistic_version of each row

Ids == Sessions \union Workflows \union Steps
AllNodes == UNION {Nodes[w] : w \in Workflows}

VARIABLES
    row,    \* agent_sessions, agent_workflows and agent_workflow_steps
    place,  \* the workflow and the node of each step
    call    \* each command under way: what it read, or None

vars == <<row, place, call>>

Row == [state : SessionState \union WorkflowState \union StepState \union {"ABSENT"},
        version : Nat]

Place == [workflow : Workflows, node : AllNodes]

\* target is None for schedule_workflow.
Call == [id : Ids, seen : Row,
         target : SessionState \union WorkflowState \union StepState \union {None}]

Absent == [state |-> "ABSENT", version |-> 0]

Init ==
    /\ row = [x \in Ids |-> Absent]
    /\ place = [s \in Steps |-> None]
    /\ call = [c \in Calls |-> None]

-----------------------------------------------------------------------------

InsertSession(x) == [row EXCEPT ![x].state = "IDLE"]

CreateSession(x) ==
    /\ row[x] = Absent
    /\ row' = InsertSession(x)
    /\ UNCHANGED <<place, call>>

InsertWorkflow(w) == [row EXCEPT ![w].state = "DRAFT"]

CreateWorkflow(w) ==
    /\ row[w] = Absent
    /\ \E x \in Sessions : row[x] # Absent
    /\ row' = InsertWorkflow(w)
    /\ UNCHANGED <<place, call>>

Issue(c, x, target) ==
    /\ call[c] = None
    /\ row[x].version < MaxVersion[x]
    /\ call' = [call EXCEPT ![c] = [id |-> x, seen |-> row[x], target |-> target]]
    /\ UNCHANGED <<row, place>>

\* A transition to the current state returns the row as it is.
ReadTransitionSession(c, x, target) ==
    /\ <<row[x].state, target>> \in SessionMoves
    /\ Issue(c, x, target)

\* A workflow without nodes is not run by a transition.
ReadTransitionWorkflow(c, w, target) ==
    /\ <<row[w].state, target>> \in WorkflowMoves
    /\ target = "RUNNING" => Nodes[w] # {}
    /\ Issue(c, w, target)

ReadTransitionStep(c, s, target) ==
    /\ <<row[s].state, target>> \in StepMoves
    /\ Issue(c, s, target)

\* Mutant of Fresh: the updates of the store ignore the version.
FreshAlways(c) == TRUE

\* The compare-and-swap finds the version the command read; if not, it raises.
Fresh(c) == row[call[c].id].version = call[c].seen.version

Return(c) == call' = [call EXCEPT ![c] = None]

Transition(c) ==
    /\ call[c] # None /\ call[c].target # None
    /\ Return(c)
    /\ row' = IF Fresh(c)
              THEN [row EXCEPT ![call[c].id] = [state |-> call[c].target,
                                                version |-> call[c].seen.version + 1]]
              ELSE row
    /\ UNCHANGED place

\* Mutant of Schedulable: a paused workflow is scheduled again.
SchedulablePaused(state) == state \in {"DRAFT", "READY", "PENDING", "PAUSED"}

Schedulable(state) == state \in {"DRAFT", "READY", "PENDING"}

\* Any run of the workflow's session may be the one the steps belong to.
ReadSchedule(c, w) ==
    /\ Schedulable(row[w].state)
    /\ Issue(c, w, None)

\* A draft becomes ready first, in an update of its own.
ScheduledVersion(seen) == seen.version + (IF seen.state = "DRAFT" THEN 2 ELSE 1)

InsertSteps(w, steps) ==
    [s \in Steps |-> IF \E n \in Nodes[w] : steps[n] = s
                    THEN [workflow |-> w, node |-> CHOOSE n \in Nodes[w] : steps[n] = s]
                    ELSE place[s]]

\* The workflow runs, and each of its nodes gets a step: pending if it has no
\* predecessor, blocked if it has.
ScheduleWorkflow(c, steps) ==
    LET w == call[c].id
    IN  /\ call[c] # None /\ call[c].target = None
        /\ Return(c)
        /\ IF Fresh(c)
           THEN /\ row' = [x \in Ids |->
                      IF x = w THEN [state |-> "RUNNING",
                                     version |-> ScheduledVersion(call[c].seen)]
                      ELSE IF \E n \in Nodes[w] : steps[n] = x
                      THEN [state |-> IF \E n \in Rooted[w] : steps[n] = x
                                      THEN "PENDING" ELSE "BLOCKED",
                            version |-> 0]
                      ELSE row[x]]
                /\ place' = InsertSteps(w, steps)
           ELSE UNCHANGED <<row, place>>

\* Fresh step ids for the nodes of a workflow; any will do.
NewSteps(w) ==
    {f \in [Nodes[w] -> {s \in Steps : place[s] = None}] :
        \A m, n \in Nodes[w] : f[m] = f[n] => m = n}

\* The client or the process goes away, or the transaction is rolled back.
GiveUp(c) ==
    /\ call[c] # None
    /\ Return(c)
    /\ UNCHANGED <<row, place>>

Read(c) ==
    \/ \E x \in Sessions, target \in SessionState : ReadTransitionSession(c, x, target)
    \/ \E w \in Workflows, target \in WorkflowState : ReadTransitionWorkflow(c, w, target)
    \/ \E s \in Steps, target \in StepState : ReadTransitionStep(c, s, target)
    \/ \E w \in Workflows : ReadSchedule(c, w)

Write(c) ==
    \/ Transition(c)
    \/ /\ call[c] # None /\ call[c].id \in Workflows
       /\ NewSteps(call[c].id) # {}
       /\ ScheduleWorkflow(c, CHOOSE steps \in NewSteps(call[c].id) : TRUE)

Next ==
    \/ \E x \in Sessions : CreateSession(x)
    \/ \E w \in Workflows : CreateWorkflow(w)
    \/ \E c \in Calls : Read(c) \/ Write(c) \/ GiveUp(c)

Spec == Init /\ [][Next]_vars

-----------------------------------------------------------------------------
(* Properties *)

\* Every variable keeps its type, and every row a state of its own kind.
TypeOK ==
    /\ row \in [Ids -> Row]
    /\ \A x \in Sessions : row[x].state \in SessionState \union {"ABSENT"}
    /\ \A w \in Workflows : row[w].state \in WorkflowState \union {"ABSENT"}
    /\ \A s \in Steps : row[s].state \in StepState \union {"ABSENT"}
    /\ place \in [Steps -> Place \union {None}]
    /\ call \in [Calls -> Call \union {None}]

\* However schedules and transitions race, a workflow has steps only once it has
\* been started, and then exactly one for each of its nodes.
OneStepPerNode ==
    \A s \in Steps : place[s] # None =>
        LET w == place[s].workflow
            at(n) == {t \in Steps : place[t] = [workflow |-> w, node |-> n]}
        IN  /\ row[w].state \notin {"DRAFT", "READY", "PENDING"}
            /\ \A n \in Nodes[w] : \E t \in Steps : at(n) = {t}

LifecycleOf(x) ==
    CASE x \in Sessions -> SessionMoves
      [] x \in Workflows -> WorkflowMoves
      [] OTHER -> StepMoves

\* Every change of a session, workflow or step is a move of its table from the state
\* it replaces, although the command was checked against the state it had read.  A
\* draft that is scheduled becomes ready and running in two updates of one
\* transaction.
RowsAlongLifecycle ==
    [][\A x \in Ids :
        LET s == row[x].state
            n == row'[x].state
        IN  \/ s \in {n, "ABSENT"}
            \/ <<s, n>> \in LifecycleOf(x)
            \/ /\ x \in Workflows /\ s = "DRAFT" /\ n = "RUNNING"
               /\ row'[x].version = row[x].version + 2]_vars

Ended(x) ==
    \/ x \in Sessions /\ row[x].state = "ARCHIVED"
    \/ x \in Workflows /\ row[x].state \in WorkflowTerminal
    \/ x \in Steps /\ row[x].state \in StepTerminal

\* A workflow or step that ended stays as it ended, and an archived session stays
\* archived.
EndedStays ==
    [][\A x \in Ids : Ended(x) => row'[x] = row[x]]_vars
=============================================================================
