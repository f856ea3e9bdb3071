------------------------------ MODULE AgentRuns ------------------------------
(***************************************************************************)
(* Runs, their budgets and the delegations between them:                   *)
(* modules/agent_runtime/application/services.py on the store of           *)
(* infrastructure/repository.py.  Transactions are modelled as in          *)
(* AgentTasks: a Read step, and the step that writes and commits.          *)
(*                                                                         *)
(* BUDGET.  Two of the nine limits are kept: turns stands for those only   *)
(* record_run_budget_usage counts, children for child_agents, which        *)
(* delegate_run counts as well.  All runs belong to one session: commands  *)
(* on runs of different sessions are refused.                              *)
(***************************************************************************)
EXTENDS Integers, FiniteSets, AgentLifecycle

CONSTANTS
    Runs,          \* run ids
    Delegations,   \* delegation ids
    Calls,         \* commands that may be under way at the same time
    Targets,       \* states clients ask transition_run for
    Limits,        \* budget limits clients ask create_run for
    Deltas,        \* turns clients report
    None,          \* SQL NULL, no limit
    MaxVersion     \* bound on the optimistic_version of each run

Command == {"transition", "usage", "delegate", "settle"}

Limit == [turns : Nat \union {None}, children : Nat \union {None}]

VARIABLES
    run,         \* agent_runs
    delegation,  \* agent_delegations
    told,        \* to_state of the last event in each run's stream
    spent,       \* turns whose report was accepted
    call         \* each command under way: what it read, or None

vars == <<run, delegation, told, spent, call>>

Row == [state : LoopState \union {"ABSENT"},
        limits : Limit,
        turns : Nat,
        children : Nat,
        version : Nat]   \* optimistic_version

Delegation == [parent : Runs, child : Runs, status : DelegationStatus]

\* A transition of a delegation goes through "settle" and "release", a delegation
\* whose first update was lost through "delegate" and "block".
Call == [op : Command \union {"block", "release"},
         run : Runs,
         seen : Row,
         child : Runs \union {None},
         delegation : Delegations \union {None},
         target : LoopState \union DelegationStatus \union {None},
         delta : Nat]

Unlimited == [turns |-> None, children |-> None]

AbsentRow == [state |-> "ABSENT", limits |-> Unlimited, turns |-> 0, children |-> 0,
              version |-> 0]

Init ==
    /\ run = [r \in Runs |-> AbsentRow]
    /\ delegation = [d \in Delegations |-> None]
    /\ told = [r \in Runs |-> "ABSENT"]
    /\ spent = [r \in Runs |-> 0]
    /\ call = [c \in Calls |-> None]

-----------------------------------------------------------------------------

NoCall(r) == [op |-> "transition", run |-> r, seen |-> run[r], child |-> None,
              delegation |-> None, target |-> None, delta |-> 0]

Issue(c, request) ==
    /\ call[c] = None
    /\ request.seen.state # "ABSENT"
    /\ request.seen.version < MaxVersion[request.run]
    /\ call' = [call EXCEPT ![c] = request]
    /\ UNCHANGED <<run, delegation, told, spent>>

UnderWay(c, op) == call[c] # None /\ call[c].op = op

\* AgentRuntimeEventFactory: the event of a run that is created or makes a transition
Says(r, state) == [told EXCEPT ![r] = state]

Return(c) == call' = [call EXCEPT ![c] = None]

\* Mutant of Fresh: an UPDATE without WHERE optimistic_version = :expected_version.
FreshAlways(c) == TRUE

\* The compare-and-swap of update_run finds the version the command read.
Fresh(c) == run[call[c].run].version = call[c].seen.version

\* update_run with a new state
Moved(row, state) == [row EXCEPT !.state = state, !.version = @ + 1]

Tighter(a, b) ==
    IF a = None THEN b ELSE IF b = None THEN a ELSE IF a < b THEN a ELSE b

\* inherit_limits: the component-wise minimum
Inherit(parent, child) ==
    [turns |-> Tighter(parent.turns, child.turns),
     children |-> Tighter(parent.children, child.children)]

InsertRun(r, limits) ==
    [run EXCEPT ![r] = [AbsentRow EXCEPT !.state = "CREATED", !.limits = limits]]

\* A run is created on its own or with a parent whose limits it inherits.
CreateRun(r, parent, limits) ==
    /\ run[r].state = "ABSENT"
    /\ parent # None => run[parent].state # "ABSENT"
    /\ run' = InsertRun(r, IF parent = None THEN limits ELSE Inherit(run[parent].limits, limits))
    /\ told' = Says(r, "CREATED")
    /\ UNCHANGED <<delegation, spent, call>>

-----------------------------------------------------------------------------
(* transition_run and record_run_budget_usage *)

\* A transition to the current state returns the row as it is.
ReadTransition(c, r, target) ==
    /\ <<run[r].state, target>> \in LoopMoves
    /\ Issue(c, [NoCall(r) EXCEPT !.target = target])

TransitionRun(c) ==
    LET r == call[c].run
    IN  /\ UnderWay(c, "transition")
        /\ Return(c)
        /\ UNCHANGED <<delegation, spent>>
        /\ IF Fresh(c)
           THEN /\ run' = [run EXCEPT ![r] = Moved(call[c].seen, call[c].target)]
                /\ told' = Says(r, call[c].target)
           ELSE UNCHANGED <<run, told>>

Reached(limit, used) == limit # None /\ used >= limit

\* Mutant of Exhausted: a limit may be reached and is only not to be passed.
ExhaustedBeyond(row) ==
    \/ row.limits.turns # None /\ row.turns > row.limits.turns
    \/ row.limits.children # None /\ row.children > row.limits.children

Exhausted(row) ==
    Reached(row.limits.turns, row.turns) \/ Reached(row.limits.children, row.children)

Used(row, delta) == [row EXCEPT !.turns = @ + delta, !.version = @ + 1]

ReadUsage(c, r, delta) ==
    Issue(c, [NoCall(r) EXCEPT !.op = "usage", !.delta = delta])

\* A report that exhausts the budget fails the run in a second update of the row
\* it has locked, whatever state the run is in.
RecordUsage(c) ==
    LET r == call[c].run
        used == Used(call[c].seen, call[c].delta)
        fails == Exhausted(used) /\ used.state # "FAILED"
    IN  /\ UnderWay(c, "usage")
        /\ Return(c)
        /\ UNCHANGED delegation
        /\ IF Fresh(c)
           THEN /\ run' = [run EXCEPT ![r] = IF fails THEN Moved(used, "FAILED") ELSE used]
                /\ told' = IF fails THEN Says(r, "FAILED") ELSE told
                /\ spent' = [spent EXCEPT ![r] = @ + call[c].delta]
           ELSE UNCHANGED <<run, told, spent>>

-----------------------------------------------------------------------------
(* delegate_run *)

ReadDelegate(c, r, child) ==
    /\ r # child
    /\ run[child].state # "ABSENT"
    /\ ~Reached(run[r].limits.children, run[r].children)
    /\ Issue(c, [NoCall(r) EXCEPT !.op = "delegate", !.child = child])

InsertDelegation(d, parent, child) ==
    [delegation EXCEPT ![d] = [parent |-> parent, child |-> child, status |-> "PENDING"]]

Delegated(c, d) ==
    /\ delegation[d] = None
    /\ delegation' = InsertDelegation(d, call[c].run, call[c].child)
    /\ Return(c)
    /\ UNCHANGED spent

\* The update that counts the child locks the row, so that the second one, which
\* makes a running parent wait, cannot be lost.
DelegateRun(c, d) ==
    LET r == call[c].run
    IN  /\ UnderWay(c, "delegate")
        /\ Fresh(c)
        /\ Delegated(c, d)
        /\ LET counted == [run[r] EXCEPT !.children = @ + 1, !.version = @ + 1]
               waits == call[c].seen.state = "RUNNING"
           IN  /\ run' = [run EXCEPT ![r] =
                             IF waits THEN Moved(counted, "WAITING_CHILD") ELSE counted]
               /\ told' = IF waits THEN Says(r, "WAITING_CHILD") ELSE told

\* The child was not counted, and nobody looks.  If the parent was running it is
\* read again.
CountLost(c) ==
    /\ UnderWay(c, "delegate")
    /\ ~Fresh(c)
    /\ call' = [call EXCEPT ![c].op = "block",
                            ![c].seen = IF @.state = "RUNNING" THEN run[call[c].run] ELSE @]
    /\ UNCHANGED <<run, delegation, told, spent>>

\* A parent that still runs is made to wait, if its version is still the one just
\* read; the event says so in either case.
BlockParent(c, d) ==
    LET r == call[c].run
        waits == call[c].seen.state = "RUNNING"
    IN  /\ UnderWay(c, "block")
        /\ Delegated(c, d)
        /\ run' = IF waits /\ Fresh(c)
                  THEN [run EXCEPT ![r] = Moved(@, "WAITING_CHILD")] ELSE run
        /\ told' = IF waits THEN Says(r, "WAITING_CHILD") ELSE told

-----------------------------------------------------------------------------
(* transition_delegation *)

ReadSettle(c, d, target) ==
    /\ delegation[d] # None
    /\ Allows(DelegationMoves, delegation[d].status, target)
    /\ Issue(c, [NoCall(delegation[d].parent) EXCEPT !.op = "settle",
                    !.delegation = d, !.target = target])

Open(d) == delegation[d] # None /\ delegation[d].status \in {"PENDING", "RUNNING"}

Siblings(d) ==
    {e \in Delegations \ {d} : delegation[e] # None
                               /\ delegation[e].parent = delegation[d].parent}

Locked(d) == \E c \in Calls : UnderWay(c, "release") /\ call[c].delegation = d

\* update_delegation locks the row, whatever status it has by now.  Then the
\* parent and the siblings are read as they are committed: the call remembers
\* whether the parent is to be released, as the state it will get.
WriteDelegation(c) ==
    LET d == call[c].delegation
        r == call[c].run
        releases == /\ call[c].target \in DelegationTerminal
                    /\ run[r].state = "WAITING_CHILD"
                    /\ \A e \in Siblings(d) : ~Open(e)
    IN  /\ UnderWay(c, "settle")
        /\ ~Locked(d)
        /\ call' = [call EXCEPT ![c].op = "release",
                                ![c].seen = IF releases THEN run[r] ELSE AbsentRow]
        /\ UNCHANGED <<run, delegation, told, spent>>

\* The status is committed.  The parent is released if its version is still the
\* one read; the event says so in either case.
ReleaseParent(c) ==
    LET r == call[c].run
        releases == call[c].seen.state = "WAITING_CHILD"
    IN  /\ UnderWay(c, "release")
        /\ delegation' = [delegation EXCEPT ![call[c].delegation].status = call[c].target]
        /\ run' = IF releases /\ Fresh(c)
                  THEN [run EXCEPT ![r] = Moved(@, "RUNNING")] ELSE run
        /\ told' = IF releases THEN Says(r, "RUNNING") ELSE told
        /\ Return(c)
        /\ UNCHANGED spent

-----------------------------------------------------------------------------

\* The client or the process goes away, or the transaction is rolled back.
GiveUp(c) ==
    /\ call[c] # None
    /\ Return(c)
    /\ UNCHANGED <<run, delegation, told, spent>>

Read(c) ==
    \/ \E r \in Runs :
          \/ \E target \in Targets : ReadTransition(c, r, target)
          \/ \E delta \in Deltas : ReadUsage(c, r, delta)
          \/ \E child \in Runs : ReadDelegate(c, r, child)
    \/ \E d \in Delegations, target \in DelegationStatus : ReadSettle(c, d, target)

Write(c) ==
    \/ TransitionRun(c)
    \/ RecordUsage(c)
    \/ CountLost(c)
    \/ \E d \in Delegations : DelegateRun(c, d) \/ BlockParent(c, d)
    \/ WriteDelegation(c)
    \/ ReleaseParent(c)

Next ==
    \/ \E r \in Runs, parent \in Runs \union {None}, limits \in Limits :
          CreateRun(r, parent, limits)
    \/ \E c \in Calls : Read(c) \/ Write(c) \/ GiveUp(c)

Spec == Init /\ [][Next]_vars

-----------------------------------------------------------------------------
(* Properties *)

\* Every variable keeps its type.
TypeOK ==
    /\ run \in [Runs -> Row]
    /\ delegation \in [Delegations -> Delegation \union {None}]
    /\ told \in [Runs -> LoopState \union {"ABSENT"}]
    /\ spent \in [Runs -> Nat]
    /\ call \in [Calls -> Call \union {None}]

\* No accepted report of usage is lost to another command that read the same
\* row, and none is counted twice.
UsageExact == \A r \in Runs : run[r].turns = spent[r]

\* Fail-closed: once a report has used up the turns of a run, the run has failed,
\* and no command that read it earlier brings it back.
ExhaustedFailed ==
    \A r \in Runs :
        spent[r] > 0 /\ Reached(run[r].limits.turns, run[r].turns) => run[r].state = "FAILED"

\* Commands are checked against the state they read, and still every change is a
\* move of the lifecycle from the state it replaces, or the failure of a run
\* whose budget is exhausted.
RunsAlongLifecycle ==
    [][\A r \in Runs :
        LET s == run[r].state
            n == run'[r].state
        IN  \/ s \in {n, "ABSENT"}
            \/ <<s, n>> \in LoopMoves
            \/ n = "FAILED" /\ Exhausted(run'[r])]_vars

Children(r) == {d \in Delegations : delegation[d] # None /\ delegation[d].parent = r}

\* State and event are committed together: the last event in a run's stream names
\* the state of its row.  Delegations of the run may break it, for their events are
\* recorded even if the update of the parent was lost.
RunToldTruthfully == \A r \in Runs : told[r] = run[r].state \/ Children(r) # {}

\* When the last delegation of a waiting parent has ended and no command is under
\* way, the parent has been released.
ParentReleased ==
    (\A c \in Calls : call[c] = None) =>
        \A r \in Runs : run[r].state = "WAITING_CHILD" => \E d \in Children(r) : Open(d)
=============================================================================
