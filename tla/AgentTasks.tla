----------------------------- MODULE AgentTasks -----------------------------
(***************************************************************************)
(* Tasks, approvals and checkpoints of the agent runtime:                  *)
(* modules/agent_runtime/application/services.py on the store of           *)
(* infrastructure/repository.py.                                           *)
(*                                                                         *)
(* TRANSACTIONS.  A command is one transaction of READ COMMITTED: it reads *)
(* its rows, checks them, and writes with WHERE optimistic_version = the   *)
(* version it read.  Two steps model it.  A Read step is the command up to *)
(* its writes; a command the checks refuse changes nothing and is no step. *)
(* The step that ends it is its writes with their commit: a write locks    *)
(* its row, so that nobody can act between the two.  In between any other  *)
(* command may commit, and a command may be given up at any time.          *)
(*                                                                         *)
(* A caller's expected_version can only refuse a command earlier than the  *)
(* version read by the command itself would, and is left out.              *)
(***************************************************************************)
EXTENDS Integers, FiniteSets, FiniteSetsExt, AgentLifecycle

CONSTANTS
    Tasks,         \* task ids
    Approvals,     \* approval ids
    Checkpoints,   \* checkpoint ids
    Runs,          \* runs a checkpoint may be taken of
    Calls,         \* commands that may be under way at the same time
    MaxAttempts,   \* max_attempts of each task
    None,          \* SQL NULL
    MaxVersion     \* bound on optimistic_version

Command == {"transition", "complete", "fail", "retry", "request", "resolve",
            "checkpoint"}

VARIABLES
    task,        \* agent_tasks
    approval,    \* agent_approvals
    checkpoint,  \* agent_checkpoints
    told,        \* to_state of the last event in each task's stream
    call         \* each command under way: what it read, or None

vars == <<task, approval, checkpoint, told, call>>

Decision == {"APPROVED", "DENIED", "EXPIRED"}

Row == [state : TaskState \union {"ABSENT"},
        attempt : Nat,
        awaiting : Approvals \union {None},   \* awaiting_approval_id
        version : Nat]                        \* optimistic_version

Approval == [state : Decision \union {"ABSENT", "PENDING"},
             task : Tasks \union {None}]

Checkpoint == [run : Runs, task : Tasks \union {None}, seq : Nat]

Call == [op : Command,
         task : Tasks \union {None},
         seen : Row,
         target : TaskState \union Decision \union {None},
         approval : Approvals \union {None},
         checkpoint : Checkpoint \union {None}]

AbsentRow == [state |-> "ABSENT", attempt |-> 0, awaiting |-> None, version |-> 0]

Init ==
    /\ task = [t \in Tasks |-> AbsentRow]
    /\ approval = [a \in Approvals |-> [state |-> "ABSENT", task |-> None]]
    /\ checkpoint = [k \in Checkpoints |-> None]
    /\ told = [t \in Tasks |-> "ABSENT"]
    /\ call = [c \in Calls |-> None]

-----------------------------------------------------------------------------
(* What a command reads, and what update_task writes *)

Issue(c, op, t, target, a, k) ==
    /\ call[c] = None
    /\ t # None => task[t].state # "ABSENT" /\ task[t].version < MaxVersion
    /\ call' = [call EXCEPT ![c] =
          [op |-> op, task |-> t, seen |-> IF t = None THEN AbsentRow ELSE task[t],
           target |-> target, approval |-> a, checkpoint |-> k]]
    /\ UNCHANGED <<task, approval, checkpoint, told>>

\* The compare-and-swap of update_task finds the version the command read.
Fresh(c) == task[call[c].task].version = call[c].seen.version

\* Mutant of Updated: awaiting_approval_id is written only when one is given.
UpdatedKept(row, state, a) ==
    [row EXCEPT !.state = IF state = None THEN @ ELSE state,
                !.awaiting = IF a # None THEN a ELSE @,
                !.version = @ + 1]

\* update_task: None leaves a column alone, but a new state other than
\* WAITING_PERMISSION clears awaiting_approval_id.
Updated(row, state, a) ==
    [row EXCEPT !.state = IF state = None THEN @ ELSE state,
                !.awaiting = IF a # None THEN a
                             ELSE IF state \in {None, "WAITING_PERMISSION"} THEN @
                             ELSE None,
                !.version = @ + 1]

\* AgentRuntimeEventFactory: the event of a task that is created or makes a transition
Says(t, state) == [told EXCEPT ![t] = state]

Return(c) == call' = [call EXCEPT ![c] = None]

\* Mutant of WriteTask: the event is recorded before the update is looked at.
WriteTaskTold(c, row) ==
    /\ Return(c)
    /\ UNCHANGED <<approval, checkpoint>>
    /\ task' = IF Fresh(c) THEN [task EXCEPT ![call[c].task] = row] ELSE task
    /\ told' = Says(call[c].task, row.state)

\* A command that writes its task or nothing: a lost compare-and-swap raises.
WriteTask(c, row) ==
    /\ Return(c)
    /\ UNCHANGED <<approval, checkpoint>>
    /\ IF Fresh(c)
       THEN /\ task' = [task EXCEPT ![call[c].task] = row]
            /\ told' = Says(call[c].task, row.state)
       ELSE UNCHANGED <<task, told>>

-----------------------------------------------------------------------------
(* Tasks *)

InsertTask(t) == [task EXCEPT ![t] = [AbsentRow EXCEPT !.state = "RECEIVED", !.attempt = 1]]

CreateTask(t) ==
    /\ task[t].state = "ABSENT"
    /\ task' = InsertTask(t)
    /\ told' = Says(t, "RECEIVED")
    /\ UNCHANGED <<approval, checkpoint, call>>

\* A transition to the current state returns the row as it is.
ReadTransition(c, t, target) ==
    /\ <<task[t].state, target>> \in TaskMoves
    /\ Issue(c, "transition", t, target, None, None)

TransitionTask(c) ==
    /\ call[c] # None /\ call[c].op = "transition"
    /\ WriteTask(c, Updated(call[c].seen, call[c].target, None))

\* A completed task may be completed again.
ReadComplete(c, t) ==
    /\ Allows(TaskMoves, task[t].state, "COMPLETED")
    /\ Issue(c, "complete", t, "COMPLETED", None, None)

CompleteTask(c) ==
    /\ call[c] # None /\ call[c].op = "complete"
    /\ WriteTask(c, Updated(call[c].seen, "COMPLETED", None))

ReadFail(c, t) ==
    /\ task[t].state \notin TaskTerminal
    /\ Allows(TaskMoves, task[t].state, "FAILED")
    /\ Issue(c, "fail", t, "FAILED", None, None)

FailTask(c) ==
    /\ call[c] # None /\ call[c].op = "fail"
    /\ WriteTask(c, Updated(call[c].seen, "FAILED", None))

\* Mutant of MayRetry: off by one.
MayRetryOnceMore(t) == task[t].attempt <= MaxAttempts[t]

MayRetry(t) == task[t].attempt < MaxAttempts[t]

ReadRetry(c, t) ==
    /\ MayRetry(t)
    /\ \/ task[t].state \in {"RETRY_WAIT", "RECOVERING"}
       \/ Allows(TaskMoves, task[t].state, "RETRY_WAIT")
    /\ Issue(c, "retry", t, "RUNNING", None, None)

\* From RETRY_WAIT and RECOVERING in one update, otherwise through RETRY_WAIT in
\* two; the attempt is counted once.
Retried(row) ==
    LET bumped == [row EXCEPT !.attempt = @ + 1]
    IN  IF row.state \in {"RETRY_WAIT", "RECOVERING"}
        THEN Updated(bumped, "RUNNING", None)
        ELSE Updated(Updated(bumped, "RETRY_WAIT", None), "RUNNING", None)

RetryTask(c) ==
    /\ call[c] # None /\ call[c].op = "retry"
    /\ WriteTask(c, Retried(call[c].seen))

-----------------------------------------------------------------------------
(* Approvals *)

InsertApproval(a, t) == [approval EXCEPT ![a] = [state |-> "PENDING", task |-> t]]

ReadRequest(c, t) ==
    /\ task[t].state \in {"RUNNING", "WAITING_PERMISSION"}
    /\ Issue(c, "request", t, None, None, None)

\* A running task starts to wait, or the request is refused.  A task that waits
\* already is only bound to the new approval, and the outcome of that update is
\* not looked at.
RequestApproval(c, a) ==
    LET t == call[c].task
        running == call[c].seen.state = "RUNNING"
        state == IF running THEN "WAITING_PERMISSION" ELSE None
    IN  /\ call[c] # None /\ call[c].op = "request"
        /\ Return(c)
        /\ UNCHANGED checkpoint
        /\ IF running /\ ~Fresh(c)
           THEN UNCHANGED <<task, approval, told>>
           ELSE /\ approval[a].state = "ABSENT"
                /\ approval' = InsertApproval(a, t)
                /\ task' = IF Fresh(c)
                           THEN [task EXCEPT ![t] = Updated(@, state, a)] ELSE task
                /\ told' = IF running
                           THEN Says(t, "WAITING_PERMISSION") ELSE told

ReadResolve(c, a, decision) ==
    /\ approval[a].state = "PENDING"
    /\ Issue(c, "resolve", approval[a].task, decision, a, None)

\* Mutant of StillPending: update_approval without its expected_state.
StillPendingAlways(a) == TRUE

\* UPDATE ... WHERE state = 'PENDING'
StillPending(a) == approval[a].state = "PENDING"

\* The task follows the decision: an approval resumes it if it waits, a denial
\* or expiry fails it whatever its state.  The outcome of its update is not
\* looked at, and the event of the transition is recorded all the same.
ResolveApproval(c) ==
    LET t == call[c].task
        approved == call[c].target = "APPROVED"
        follows == approved => call[c].seen.state = "WAITING_PERMISSION"
        state == IF approved THEN "RUNNING" ELSE "FAILED"
    IN  /\ call[c] # None /\ call[c].op = "resolve"
        /\ Return(c)
        /\ UNCHANGED checkpoint
        /\ IF StillPending(call[c].approval)
           THEN /\ approval' = [approval EXCEPT ![call[c].approval].state = call[c].target]
                /\ task' = IF follows /\ Fresh(c)
                           THEN [task EXCEPT ![t] = Updated(@, state, None)] ELSE task
                /\ told' = IF follows THEN Says(t, state) ELSE told
           ELSE UNCHANGED <<task, approval, told>>

-----------------------------------------------------------------------------
(* Checkpoints, with the seq create_checkpoint chooses when its caller gives none *)

\* list_checkpoints: without a task, all those of the run.
Listed(r, t) == {checkpoint[k] : k \in {k \in Checkpoints :
                    /\ checkpoint[k] # None
                    /\ checkpoint[k].run = r
                    /\ t # None => checkpoint[k].task = t}}

NextSeq(r, t) == Max({p.seq : p \in Listed(r, t)} \union {-1}) + 1

\* The checks for a duplicate: create_checkpoint looks at the run and task,
\* insert_checkpoint at the run.
SeqFree(r, seq) == \A p \in Listed(r, None) : p.seq # seq

ReadCheckpoint(c, r, t) ==
    /\ SeqFree(r, NextSeq(r, t))
    /\ Issue(c, "checkpoint", t, None, None,
             [run |-> r, task |-> t, seq |-> NextSeq(r, t)])

\* The task is bound to the checkpoint if its version is still the one read.
CreateCheckpoint(c, k) ==
    LET t == call[c].task
    IN  /\ call[c] # None /\ call[c].op = "checkpoint"
        /\ checkpoint[k] = None
        /\ checkpoint' = [checkpoint EXCEPT ![k] = call[c].checkpoint]
        /\ task' = IF t # None /\ Fresh(c)
                   THEN [task EXCEPT ![t] = Updated(@, None, None)] ELSE task
        /\ Return(c)
        /\ UNCHANGED <<approval, told>>

-----------------------------------------------------------------------------

\* The client or the process goes away, or the transaction is rolled back.
GiveUp(c) ==
    /\ call[c] # None
    /\ Return(c)
    /\ UNCHANGED <<task, approval, checkpoint, told>>

Read(c) ==
    \/ \E t \in Tasks :
          \/ \E target \in TaskState : ReadTransition(c, t, target)
          \/ ReadComplete(c, t)
          \/ ReadFail(c, t)
          \/ ReadRetry(c, t)
          \/ ReadRequest(c, t)
    \/ \E a \in Approvals, decision \in Decision : ReadResolve(c, a, decision)
    \/ \E r \in Runs, t \in Tasks \union {None} : ReadCheckpoint(c, r, t)

Write(c) ==
    \/ TransitionTask(c)
    \/ CompleteTask(c)
    \/ FailTask(c)
    \/ RetryTask(c)
    \/ \E a \in Approvals : RequestApproval(c, a)
    \/ ResolveApproval(c)
    \/ \E k \in Checkpoints : CreateCheckpoint(c, k)

Next ==
    \/ \E t \in Tasks : CreateTask(t)
    \/ \E c \in Calls : Read(c) \/ Write(c) \/ GiveUp(c)

Spec == Init /\ [][Next]_vars

-----------------------------------------------------------------------------
(* Properties *)

\* Every variable keeps its type.
TypeOK ==
    /\ task \in [Tasks -> Row]
    /\ approval \in [Approvals -> Approval]
    /\ checkpoint \in [Checkpoints -> Checkpoint \union {None}]
    /\ told \in [Tasks -> TaskState \union {"ABSENT"}]
    /\ call \in [Calls -> Call \union {None}]

\* awaiting_approval_id names a request of this very task, and is set only while
\* the task waits for permission: whatever takes it out of the state clears it.
AwaitingWhileWaiting ==
    \A t \in Tasks : task[t].awaiting # None =>
        /\ task[t].state = "WAITING_PERMISSION"
        /\ approval[task[t].awaiting].task = t

\* Of two decisions on one approval that race, the first stands.
DecidedOnce ==
    [][\A a \in Approvals :
        approval[a].state \in Decision => approval'[a] = approval[a]]_vars

DeniedNow(t) ==
    \E a \in Approvals : /\ approval[a] = [state |-> "PENDING", task |-> t]
                         /\ approval'[a].state \in {"DENIED", "EXPIRED"}

\* Commands are checked against the state they read, and still every change is
\* a move of the lifecycle from the state it replaces, a retry that counts its
\* attempt, or the failure that follows a refused approval; and retries that race
\* take no task past its max_attempts.
AlongLifecycle ==
    [][\A t \in Tasks :
        LET s == task[t].state
            n == task'[t].state
        IN  /\ task'[t].attempt <= MaxAttempts[t]
            /\ \/ s \in {n, "ABSENT"}
               \/ <<s, n>> \in TaskMoves
               \/ /\ <<s, "RETRY_WAIT">> \in TaskMoves /\ n = "RUNNING"
                  /\ task'[t].attempt = task[t].attempt + 1
               \/ n = "FAILED" /\ DeniedNow(t)]_vars

\* A terminal task stays as it ended; a retry of a failed one is the only
\* escape.
TerminalFinal ==
    [][\A t \in Tasks :
        task[t].state \in TaskTerminal /\ task'[t].state # task[t].state =>
            task[t].state = "FAILED" /\ task'[t].state \in {"RETRY_WAIT", "RUNNING"}]_vars

\* State and event are committed together: the last event in a task's stream names
\* the state of its row.  A decision on an approval of the task may break it, for
\* its event is recorded even if its update of the task was lost.
ToldTruthfully ==
    \A t \in Tasks :
        \/ told[t] = task[t].state
        \/ \E a \in Approvals : approval[a].task = t /\ approval[a].state \in Decision
=============================================================================
