------------------------- MODULE AgentRuntimeProofs -------------------------
(***************************************************************************)
(* What holds of AgentRuntime for every set of tasks, runs, workflows and  *)
(* commands: proofs of the invariants and action properties that the run   *)
(* agent_runtime checks on a small instance.  (AgentGraphProofs has the    *)
(* walk of validate_dag.)                                                  *)
(*                                                                         *)
(* The heart of each part is the same.  A command is checked against the   *)
(* row it read and written against the row it finds, and the two agree     *)
(* because the update is conditional on optimistic_version: as long as the *)
(* version is the one that was read, so is the whole row.                  *)
(***************************************************************************)
EXTENDS AgentRuntime, FiniteSetTheorems, WellFoundedInduction, TLAPS

-----------------------------------------------------------------------------
(* Tasks *)

\* What a command under way remembers of its task was true when it was read, and still
\* is if the version is the same; and the command passed its checks on it.
Remembers(q, rows, requests) ==
    /\ q.task = None => q.op = "checkpoint"
    /\ q.task # None =>
        /\ rows[q.task].state # "ABSENT"
        /\ q.seen.version <= rows[q.task].version
        /\ q.seen.version = rows[q.task].version => q.seen = rows[q.task]
    /\ q.op = "transition" =>
        q.target \in T!TaskState /\ <<q.seen.state, q.target>> \in T!TaskMoves
    /\ q.op = "complete" => T!Allows(T!TaskMoves, q.seen.state, "COMPLETED")
    /\ q.op = "fail" => <<q.seen.state, "FAILED">> \in T!TaskMoves
    /\ q.op = "retry" =>
        /\ q.seen.attempt < MaxAttempts[q.task]
        /\ \/ q.seen.state \in {"RETRY_WAIT", "RECOVERING"}
           \/ <<q.seen.state, "RETRY_WAIT">> \in T!TaskMoves
    /\ q.op = "request" => q.seen.state \in {"RUNNING", "WAITING_PERMISSION"}
    /\ q.op = "resolve" =>
        /\ q.target \in T!Decision
        /\ q.approval \in Approvals
        /\ requests[q.approval].task = q.task

CommandsTrue == \A c \in Calls : taskCall[c] # None => Remembers(taskCall[c], task, approval)

\* The approvals there are belong to tasks, the others to none.
ApprovalsBound ==
    \A a \in Approvals : approval[a].state = "ABSENT" <=> approval[a].task = None

AttemptsBounded == \A t \in Tasks : task[t].attempt <= MaxAttempts[t]

Stored == {k \in Checkpoints : checkpoint[k] # None}

\* The inductive invariant of the tasks.
TasksInv ==
    /\ T!TypeOK
    /\ IsFiniteSet(Stored)
    /\ CommandsTrue
    /\ ApprovalsBound
    /\ AttemptsBounded
    /\ T!AwaitingWhileWaiting
    /\ T!ToldTruthfully

\* A row that is there is left alone by a step, or gets a higher version.
RowsGrow ==
    \A t \in Tasks : task[t].state # "ABSENT" =>
        \/ task'[t] = task[t]
        \/ task'[t].version > task[t].version /\ task'[t].state # "ABSENT"

BindingsKept ==
    \A a \in Approvals : approval[a].task # None => approval'[a].task = approval[a].task

\* SQL NULL is no state of a task.
LEMMA NullIsNoState == None \notin T!TaskState /\ T!TaskState = TaskState
  BY TasksAssumption DEF TaskState, T!TaskState, TaskTerminal, T!TaskTerminal

\* update_task: what the columns are after it.
LEMMA UpdatedRow ==
    ASSUME NEW old \in T!Row, NEW s \in T!TaskState \union {None},
           NEW a \in Approvals \union {None}
    PROVE  LET new == T!Updated(old, s, a)
           IN  /\ new \in T!Row
               /\ new.state = IF s = None THEN old.state ELSE s
               /\ new.attempt = old.attempt
               /\ new.version = old.version + 1
               /\ new.awaiting = IF a # None THEN a
                                 ELSE IF s \in {None, "WAITING_PERMISSION"} THEN old.awaiting
                                 ELSE None
  <1> DEFINE awaiting == IF a # None THEN a
                         ELSE IF s \in {None, "WAITING_PERMISSION"} THEN old.awaiting ELSE None
             state == IF s = None THEN old.state ELSE s
  <1>1. awaiting \in Approvals \union {None} /\ state \in T!TaskState \union {"ABSENT"}
    BY DEF T!Row
  <1>2. T!Updated(old, s, a) = [old EXCEPT !.state = state, !.awaiting = awaiting,
                                           !.version = @ + 1]
    BY DEF T!Updated
  <1> HIDE DEF awaiting, state
  <1> DEFINE version == old.version + 1
  <1>3. version \in Nat
    BY DEF T!Row
  <1>4. T!Updated(old, s, a) = [old EXCEPT !.state = state, !.awaiting = awaiting,
                                           !.version = version]
    BY <1>2
  <1> HIDE DEF version
  <1>5. T!Updated(old, s, a) = [state |-> state, attempt |-> old.attempt,
                                awaiting |-> awaiting, version |-> version]
    BY <1>4 DEF T!Row
  <1>6. /\ T!Updated(old, s, a) \in T!Row
        /\ T!Updated(old, s, a).state = state
        /\ T!Updated(old, s, a).attempt = old.attempt
        /\ T!Updated(old, s, a).version = old.version + 1
        /\ T!Updated(old, s, a).awaiting = awaiting
    BY <1>1, <1>3, <1>5 DEF T!Row, version
  <1> QED BY <1>6 DEF awaiting, state


\* What a command remembers stays true, whatever else happens to the rows.
LEMMA StillRemembers ==
    ASSUME TasksInv, RowsGrow, BindingsKept, T!TypeOK',
           NEW q \in T!Call, Remembers(q, task, approval)
    PROVE  Remembers(q, task', approval')
  <1>1. q.task # None =>
          /\ task'[q.task].state # "ABSENT"
          /\ q.seen.version <= task'[q.task].version
          /\ q.seen.version = task'[q.task].version => q.seen = task'[q.task]
    <2> SUFFICES ASSUME q.task # None
        PROVE  /\ task'[q.task].state # "ABSENT"
               /\ q.seen.version <= task'[q.task].version
               /\ q.seen.version = task'[q.task].version => q.seen = task'[q.task]
      OBVIOUS
    <2>1. /\ q.task \in Tasks /\ q.seen.version \in Nat
          /\ task[q.task].version \in Nat /\ task'[q.task].version \in Nat
      BY DEF TasksInv, T!TypeOK, T!Call, T!Row
    <2> QED BY <2>1 DEF Remembers, RowsGrow
  <1>2. q.op = "resolve" => approval'[q.approval].task = q.task
    BY TasksAssumption DEF Remembers, BindingsKept, T!Call
  <1> QED BY <1>1, <1>2 DEF Remembers

\* When a step writes a task, the commands other than the one that ends still remember it.
LEMMA OthersRemember ==
    ASSUME TasksInv, RowsGrow, BindingsKept, T!TypeOK', NEW c \in Calls,
           taskCall' = taskCall \/ taskCall' = [taskCall EXCEPT ![c] = None]
    PROVE  CommandsTrue'
  <1> SUFFICES ASSUME NEW b \in Calls, taskCall'[b] # None
               PROVE  Remembers(taskCall'[b], task', approval')
    BY DEF CommandsTrue
  <1>1. taskCall'[b] = taskCall[b] /\ taskCall[b] \in T!Call
    BY DEF TasksInv, T!TypeOK
  <1>2. Remembers(taskCall[b], task, approval)
    BY <1>1 DEF TasksInv, CommandsTrue
  <1> QED BY <1>1, <1>2, StillRemembers

\* A step that only forgets a command.
LEMMA ForgettingKeeps ==
    ASSUME TasksInv, NEW c \in Calls, taskCall' = [taskCall EXCEPT ![c] = None],
           UNCHANGED <<task, approval, checkpoint, taskTold>>
    PROVE  TasksInv'
  <1>1. T!TypeOK'
    BY DEF TasksInv, T!TypeOK
  <1>2. CommandsTrue'
    BY <1>1, OthersRemember DEF RowsGrow, BindingsKept
  <1> QED BY <1>1, <1>2 DEF TasksInv, Stored, ApprovalsBound, AttemptsBounded,
             T!AwaitingWhileWaiting, T!ToldTruthfully

\* WriteTask, for a row with a higher version that keeps the rules on attempts and on
\* awaiting_approval_id.
LEMMA WriteKeeps ==
    ASSUME TasksInv, NEW c \in Calls, NEW new \in T!Row, T!WriteTask(c, new),
           taskCall[c] # None, taskCall[c].task \in Tasks,
           new.state # "ABSENT",
           new.version > taskCall[c].seen.version,
           new.attempt <= MaxAttempts[taskCall[c].task],
           new.awaiting # None => /\ new.state = "WAITING_PERMISSION"
                                  /\ new.awaiting = taskCall[c].seen.awaiting
    PROVE  TasksInv'
  <1> DEFINE q == taskCall[c]
             t == q.task
  <1>1. q \in T!Call /\ Remembers(q, task, approval)
    BY DEF TasksInv, T!TypeOK, CommandsTrue
  <1>2. taskCall' = [taskCall EXCEPT ![c] = None] /\ UNCHANGED <<approval, checkpoint>>
    BY DEF T!WriteTask, T!Return
  <1>3. CASE ~T!Fresh(c)
    BY <1>2, <1>3, ForgettingKeeps DEF T!WriteTask
  <1>4. CASE T!Fresh(c)
    <2>1. task' = [task EXCEPT ![t] = new] /\ taskTold' = [taskTold EXCEPT ![t] = new.state]
      BY <1>4 DEF T!WriteTask, T!Says
    <2>2. task[t] = q.seen /\ task[t].state # "ABSENT" /\ new.version > task[t].version
      BY <1>1, <1>4, TasksAssumption DEF T!Fresh, Remembers
    <2>3. T!TypeOK'
      <3>1. new.state \in T!TaskState \union {"ABSENT"}
        BY DEF T!Row
      <3> QED BY <1>2, <2>1, <3>1 DEF TasksInv, T!TypeOK
    <2>4. RowsGrow /\ BindingsKept
      BY <1>2, <2>1, <2>2 DEF RowsGrow, BindingsKept, TasksInv, T!TypeOK
    <2>5. CommandsTrue'
      BY <1>2, <2>3, <2>4, OthersRemember
    <2>6. AttemptsBounded'
      BY <2>1 DEF TasksInv, AttemptsBounded, T!TypeOK
    <2>7. T!AwaitingWhileWaiting'
      BY <1>2, <2>1, <2>2 DEF TasksInv, T!AwaitingWhileWaiting, T!TypeOK
    <2>8. T!ToldTruthfully'
      BY <1>2, <2>1 DEF TasksInv, T!ToldTruthfully, T!TypeOK
    <2> QED BY <1>2, <2>3, <2>5, <2>6, <2>7, <2>8 DEF TasksInv, Stored, ApprovalsBound
  <1> QED BY <1>3, <1>4

\* What the command of a call is about, for those that have a task.
LEMMA CallOfTask ==
    ASSUME TasksInv, NEW c \in Calls, taskCall[c] # None, taskCall[c].op # "checkpoint"
    PROVE  /\ taskCall[c] \in T!Call
           /\ Remembers(taskCall[c], task, approval)
           /\ taskCall[c].task \in Tasks
           /\ taskCall[c].seen \in T!Row
           /\ taskCall[c].seen.version \in Nat
           /\ T!Fresh(c) => task[taskCall[c].task] = taskCall[c].seen
  <1>1. taskCall[c] \in T!Call /\ Remembers(taskCall[c], task, approval)
    BY DEF TasksInv, T!TypeOK, CommandsTrue
  <1>2. taskCall[c].task \in Tasks /\ taskCall[c].seen \in T!Row
    BY <1>1 DEF T!Call, Remembers
  <1>3. taskCall[c].seen.version \in Nat
    BY <1>2 DEF T!Row
  <1>4. T!Fresh(c) => task[taskCall[c].task] = taskCall[c].seen
    BY <1>1, <1>2, TasksAssumption DEF T!Fresh, Remembers
  <1> QED BY <1>1, <1>2, <1>3, <1>4

\* retry_task: one update or two, and the attempt counted once.
LEMMA RetriedRow ==
    ASSUME NEW old \in T!Row
    PROVE  LET new == T!Retried(old)
           IN  /\ new \in T!Row
               /\ new.state = "RUNNING"
               /\ new.attempt = old.attempt + 1
               /\ new.version > old.version
               /\ new.awaiting = None
  <1> DEFINE bumped == [old EXCEPT !.attempt = @ + 1]
             first == T!Updated(bumped, "RETRY_WAIT", None)
  <1>1. /\ bumped \in T!Row /\ bumped.attempt = old.attempt + 1
        /\ bumped.version = old.version /\ old.version \in Nat
    BY DEF T!Row
  <1>2. {"RUNNING", "RETRY_WAIT"} \subseteq T!TaskState
    BY DEF T!TaskState
  <1> HIDE DEF bumped
  <1>3. /\ first \in T!Row
        /\ first.attempt = bumped.attempt
        /\ first.version = bumped.version + 1
    BY <1>1, <1>2, UpdatedRow
  <1> HIDE DEF first
  <1>4. \A r \in {bumped, first} :
          LET new == T!Updated(r, "RUNNING", None)
          IN  /\ new \in T!Row /\ new.state = "RUNNING" /\ new.attempt = r.attempt
              /\ new.version = r.version + 1 /\ new.awaiting = None
    BY <1>1, <1>2, <1>3, UpdatedRow, NullIsNoState
  <1>5. T!Retried(old) = IF old.state \in {"RETRY_WAIT", "RECOVERING"}
                         THEN T!Updated(bumped, "RUNNING", None)
                         ELSE T!Updated(first, "RUNNING", None)
    BY DEF T!Retried, bumped, first
  <1> QED BY <1>1, <1>3, <1>4, <1>5

\* transition_task writes the row it read, with the state it checked.
LEMMA AfterTransitionTask ==
    ASSUME TasksInv, NEW c \in Calls, T!TransitionTask(c)
    PROVE  TasksInv'
  <1> DEFINE q == taskCall[c]
             new == T!Updated(q.seen, q.target, None)
  <1>1. q # None /\ q.op = "transition" /\ T!WriteTask(c, new)
    BY DEF T!TransitionTask
  <1>2. /\ q.task \in Tasks /\ q.seen \in T!Row /\ q.seen.version \in Nat
        /\ Remembers(q, task, approval)
        /\ T!Fresh(c) => task[q.task] = q.seen
    BY <1>1, CallOfTask
  <1>3. q.target \in T!TaskState
    BY <1>1, <1>2 DEF Remembers
  <1>4. /\ new \in T!Row /\ new.state = q.target /\ new.attempt = q.seen.attempt
        /\ new.version = q.seen.version + 1
        /\ new.awaiting = IF q.target = "WAITING_PERMISSION" THEN q.seen.awaiting ELSE None
    BY <1>2, <1>3, UpdatedRow, NullIsNoState
  <1>5. CASE T!Fresh(c)
    <2>1. q.seen.attempt <= MaxAttempts[q.task]
      BY <1>2, <1>5 DEF TasksInv, AttemptsBounded
    <2>2. new.state # "ABSENT"
      BY <1>3, <1>4 DEF T!TaskState, T!TaskTerminal
    <2> QED BY <1>1, <1>2, <1>4, <2>1, <2>2, WriteKeeps
  <1>6. CASE ~T!Fresh(c)
    BY <1>1, <1>6, ForgettingKeeps DEF T!WriteTask, T!Return
  <1> QED BY <1>5, <1>6

\* complete_task and fail_task: as transition_task, to a terminal state.
LEMMA AfterEndTask ==
    ASSUME TasksInv, NEW c \in Calls, T!CompleteTask(c) \/ T!FailTask(c)
    PROVE  TasksInv'
  <1> DEFINE q == taskCall[c]
  <1>1. PICK target \in {"COMPLETED", "FAILED"} :
          q # None /\ q.op # "checkpoint" /\ T!WriteTask(c, T!Updated(q.seen, target, None))
    BY DEF T!CompleteTask, T!FailTask
  <1> DEFINE new == T!Updated(q.seen, target, None)
  <1>2. /\ q.task \in Tasks /\ q.seen \in T!Row /\ q.seen.version \in Nat
        /\ T!Fresh(c) => task[q.task] = q.seen
    BY <1>1, CallOfTask
  <1>3. target \in T!TaskState /\ target \notin {"WAITING_PERMISSION", "ABSENT"}
    BY DEF T!TaskState, T!TaskTerminal
  <1>4. /\ new \in T!Row /\ new.state = target /\ new.attempt = q.seen.attempt
        /\ new.version = q.seen.version + 1 /\ new.awaiting = None
    BY <1>2, <1>3, UpdatedRow, NullIsNoState
  <1>5. CASE T!Fresh(c)
    <2>1. q.seen.attempt <= MaxAttempts[q.task]
      BY <1>2, <1>5 DEF TasksInv, AttemptsBounded
    <2> QED BY <1>1, <1>2, <1>3, <1>4, <2>1, WriteKeeps
  <1>6. CASE ~T!Fresh(c)
    BY <1>1, <1>6, ForgettingKeeps DEF T!WriteTask, T!Return
  <1> QED BY <1>5, <1>6

\* retry_task counts the attempt in the row it read.
LEMMA AfterRetryTask ==
    ASSUME TasksInv, NEW c \in Calls, T!RetryTask(c)
    PROVE  TasksInv'
  <1> DEFINE q == taskCall[c]
             new == T!Retried(q.seen)
  <1>1. q # None /\ q.op = "retry" /\ T!WriteTask(c, new)
    BY DEF T!RetryTask
  <1>2. /\ q.task \in Tasks /\ q.seen \in T!Row /\ q.seen.version \in Nat
        /\ Remembers(q, task, approval)
    BY <1>1, CallOfTask
  <1>3. /\ new \in T!Row /\ new.state = "RUNNING" /\ new.attempt = q.seen.attempt + 1
        /\ new.version > q.seen.version /\ new.awaiting = None
    BY <1>2, RetriedRow
  <1>4. new.attempt <= MaxAttempts[q.task]
    <2>1. q.seen.attempt \in Nat /\ MaxAttempts[q.task] \in Nat
      BY <1>2, TasksAssumption DEF T!Row
    <2> QED BY <1>1, <1>2, <1>3, <2>1 DEF Remembers
  <1> QED BY <1>1, <1>2, <1>3, <1>4, WriteKeeps

\* request_approval inserts a request and makes the task it read wait for it.
LEMMA AfterRequestApproval ==
    ASSUME TasksInv, NEW c \in Calls, NEW a \in Approvals, T!RequestApproval(c, a)
    PROVE  TasksInv'
  <1> DEFINE q == taskCall[c]
             t == q.task
             running == q.seen.state = "RUNNING"
             state == IF running THEN "WAITING_PERMISSION" ELSE None
             new == T!Updated(task[t], state, a)
  <1>1. /\ q # None /\ q.op = "request"
        /\ taskCall' = [taskCall EXCEPT ![c] = None] /\ UNCHANGED checkpoint
    BY DEF T!RequestApproval, T!Return
  <1>2. /\ t \in Tasks /\ q.seen \in T!Row /\ q.seen.version \in Nat
        /\ Remembers(q, task, approval)
        /\ T!Fresh(c) => task[t] = q.seen
    BY <1>1, CallOfTask
  <1>3. CASE running /\ ~T!Fresh(c)
    BY <1>1, <1>3, ForgettingKeeps DEF T!RequestApproval
  <1>4. CASE ~(running /\ ~T!Fresh(c))
    <2>1. /\ approval[a].state = "ABSENT"
          /\ approval' = [approval EXCEPT ![a] = [state |-> "PENDING", task |-> t]]
          /\ task' = IF T!Fresh(c) THEN [task EXCEPT ![t] = new] ELSE task
          /\ taskTold' = IF running THEN [taskTold EXCEPT ![t] = "WAITING_PERMISSION"]
                         ELSE taskTold
      BY <1>4 DEF T!RequestApproval, T!InsertApproval, T!Says
    <2>2. /\ task[t] \in T!Row /\ task[t].version \in Nat /\ task[t].state # "ABSENT"
      BY <1>2, TasksAssumption DEF TasksInv, T!TypeOK, T!Row, Remembers
    <2>3. q.seen.state \in {"RUNNING", "WAITING_PERMISSION"}
      BY <1>1, <1>2 DEF Remembers
    <2>4. "WAITING_PERMISSION" \in T!TaskState
      BY DEF T!TaskState
    <2>5. /\ new \in T!Row /\ new.attempt = task[t].attempt
          /\ new.version = task[t].version + 1
          /\ new.awaiting = a
          /\ new.state = IF running THEN "WAITING_PERMISSION" ELSE task[t].state
      BY <2>2, <2>4, UpdatedRow, TasksAssumption, NullIsNoState
    <2>6. T!Fresh(c) => new.state = "WAITING_PERMISSION"
      BY <1>2, <2>3, <2>5
    <2> HIDE DEF new
    <2>7. T!TypeOK'
      BY <1>1, <1>2, <2>1, <2>4, <2>5 DEF TasksInv, T!TypeOK, T!Approval
    <2>8. RowsGrow /\ BindingsKept
      <3>1. RowsGrow
        BY <1>2, <2>1, <2>2, <2>5, <2>6 DEF RowsGrow, TasksInv, T!TypeOK
      <3>2. BindingsKept
        BY <2>1 DEF BindingsKept, TasksInv, T!TypeOK, ApprovalsBound
      <3> QED BY <3>1, <3>2
    <2>9. CommandsTrue'
      BY <1>1, <2>7, <2>8, OthersRemember
    <2>10. ApprovalsBound'
      BY <1>2, <2>1, TasksAssumption DEF TasksInv, ApprovalsBound, T!TypeOK
    <2>11. AttemptsBounded'
      BY <2>1, <2>5 DEF TasksInv, AttemptsBounded, T!TypeOK
    <2>12. T!AwaitingWhileWaiting'
      <3> SUFFICES ASSUME NEW u \in Tasks, task'[u].awaiting # None
                   PROVE  /\ task'[u].state = "WAITING_PERMISSION"
                          /\ approval'[task'[u].awaiting].task = u
        BY DEF T!AwaitingWhileWaiting
      <3>1. CASE u = t /\ T!Fresh(c)
        <4>1. task'[u] = new
          BY <1>2, <2>1, <3>1 DEF TasksInv, T!TypeOK
        <4>2. approval'[a].task = t
          BY <2>1 DEF TasksInv, T!TypeOK
        <4> QED BY <2>5, <2>6, <3>1, <4>1, <4>2
      <3>2. CASE ~(u = t /\ T!Fresh(c))
        <4>1. task'[u] = task[u]
          BY <1>2, <2>1, <3>2 DEF TasksInv, T!TypeOK
        <4>2. /\ task[u].state = "WAITING_PERMISSION" /\ task[u].awaiting \in Approvals
              /\ approval[task[u].awaiting].task = u
          BY <4>1 DEF TasksInv, T!AwaitingWhileWaiting, T!TypeOK, T!Row
        <4>3. task[u].awaiting # a
          BY <2>1, <4>2, TasksAssumption DEF TasksInv, ApprovalsBound
        <4> QED BY <2>1, <4>1, <4>2, <4>3 DEF TasksInv, T!TypeOK
      <3> QED BY <3>1, <3>2
    <2>13. T!ToldTruthfully'
      <3> SUFFICES ASSUME NEW u \in Tasks
                   PROVE  \/ taskTold'[u] = task'[u].state
                          \/ \E b \in Approvals : approval'[b].task = u
                                                  /\ approval'[b].state \in T!Decision
        BY DEF T!ToldTruthfully
      <3>1. CASE u = t /\ running
        BY <1>2, <1>4, <2>1, <2>5, <3>1 DEF TasksInv, T!TypeOK
      <3>2. CASE ~(u = t /\ running)
        <4>1. taskTold'[u] = taskTold[u] /\ task'[u].state = task[u].state
          BY <1>2, <2>1, <2>5, <3>2 DEF TasksInv, T!TypeOK
        <4>2. \A b \in Approvals : approval[b].state \in T!Decision => approval'[b] = approval[b]
          BY <2>1 DEF TasksInv, T!TypeOK, T!Decision
        <4> QED BY <4>1, <4>2 DEF TasksInv, T!ToldTruthfully
      <3> QED BY <3>1, <3>2
    <2> QED BY <1>1, <2>7, <2>9, <2>10, <2>11, <2>12, <2>13 DEF TasksInv, Stored
  <1> QED BY <1>3, <1>4

\* resolve_approval records the first decision, and releases or fails a task that waits for it.
LEMMA AfterResolveApproval ==
    ASSUME TasksInv, NEW c \in Calls, T!ResolveApproval(c)
    PROVE  TasksInv'
  <1> DEFINE q == taskCall[c]
             t == q.task
             a == q.approval
             approved == q.target = "APPROVED"
             follows == approved => q.seen.state = "WAITING_PERMISSION"
             state == IF approved THEN "RUNNING" ELSE "FAILED"
             new == T!Updated(task[t], state, None)
  <1>1. /\ q # None /\ q.op = "resolve"
        /\ taskCall' = [taskCall EXCEPT ![c] = None] /\ UNCHANGED checkpoint
    BY DEF T!ResolveApproval, T!Return
  <1>2. /\ t \in Tasks /\ a \in Approvals /\ q.target \in T!Decision
        /\ approval[a].task = t
        /\ Remembers(q, task, approval)
        /\ T!Fresh(c) => task[t] = q.seen
    BY <1>1, CallOfTask DEF Remembers
  <1>3. CASE ~T!StillPending(a)
    BY <1>1, <1>3, ForgettingKeeps DEF T!ResolveApproval
  <1>4. CASE T!StillPending(a)
    <2>1. /\ approval[a].state = "PENDING"
          /\ approval' = [approval EXCEPT ![a].state = q.target]
          /\ task' = IF follows /\ T!Fresh(c) THEN [task EXCEPT ![t] = new] ELSE task
          /\ taskTold' = IF follows THEN [taskTold EXCEPT ![t] = state] ELSE taskTold
      BY <1>4, Zenon DEF T!ResolveApproval, T!StillPending, T!Says
    <2>2. /\ task[t] \in T!Row /\ task[t].version \in Nat /\ task[t].state # "ABSENT"
      BY <1>2, TasksAssumption DEF TasksInv, T!TypeOK, T!Row, Remembers
    <2>3. state \in T!TaskState /\ state \notin {"ABSENT", "WAITING_PERMISSION"}
      BY DEF T!TaskState, T!TaskTerminal
    <2>4. /\ new \in T!Row /\ new.attempt = task[t].attempt
          /\ new.version = task[t].version + 1 /\ new.awaiting = None /\ new.state = state
      BY <2>2, <2>3, UpdatedRow, NullIsNoState
    <2> HIDE DEF new, state, follows
    <2>5. /\ approval'[a].task = t /\ approval'[a].state = q.target
          /\ approval' \in [Approvals -> T!Approval]
          /\ \A b \in Approvals : b # a => approval'[b] = approval[b]
      BY <1>2, <2>1 DEF TasksInv, T!TypeOK, T!Approval
    <2>6. T!TypeOK'
      BY <1>1, <1>2, <2>1, <2>3, <2>4, <2>5 DEF TasksInv, T!TypeOK
    <2>7. RowsGrow /\ BindingsKept
      <3>1. RowsGrow
        BY <1>2, <2>1, <2>2, <2>3, <2>4 DEF RowsGrow, TasksInv, T!TypeOK
      <3>2. BindingsKept
        BY <1>2, <2>5 DEF BindingsKept
      <3> QED BY <3>1, <3>2
    <2>8. CommandsTrue'
      BY <1>1, <2>6, <2>7, OthersRemember
    <2>9. ApprovalsBound'
      <3>1. q.target # "ABSENT"
        BY <1>2 DEF T!Decision
      <3> QED BY <1>2, <2>5, <3>1, TasksAssumption DEF TasksInv, ApprovalsBound
    <2>10. AttemptsBounded'
      BY <2>1, <2>4 DEF TasksInv, AttemptsBounded, T!TypeOK
    <2>11. T!AwaitingWhileWaiting'
      <3> SUFFICES ASSUME NEW u \in Tasks, task'[u].awaiting # None
                   PROVE  /\ task'[u].state = "WAITING_PERMISSION"
                          /\ approval'[task'[u].awaiting].task = u
        BY DEF T!AwaitingWhileWaiting
      <3>1. task'[u] = task[u]
        BY <1>2, <2>1, <2>4 DEF TasksInv, T!TypeOK
      <3>2. /\ task[u].state = "WAITING_PERMISSION" /\ task[u].awaiting \in Approvals
            /\ approval[task[u].awaiting].task = u
        BY <3>1 DEF TasksInv, T!AwaitingWhileWaiting, T!TypeOK, T!Row
      <3> QED BY <1>2, <2>5, <3>1, <3>2
    <2>12. T!ToldTruthfully'
      <3> SUFFICES ASSUME NEW u \in Tasks
                   PROVE  \/ taskTold'[u] = task'[u].state
                          \/ \E b \in Approvals : approval'[b].task = u
                                                  /\ approval'[b].state \in T!Decision
        BY DEF T!ToldTruthfully
      <3>1. CASE u = t
        BY <1>2, <2>5, <3>1
      <3>2. CASE u # t
        <4>1. taskTold'[u] = taskTold[u] /\ task'[u] = task[u]
          BY <1>2, <2>1, <3>2 DEF TasksInv, T!TypeOK
        <4>2. \A b \in Approvals : approval[b].task = u => approval'[b] = approval[b]
          BY <1>2, <2>5, <3>2
        <4> QED BY <4>1, <4>2 DEF TasksInv, T!ToldTruthfully
      <3> QED BY <3>1, <3>2
    <2> QED BY <1>1, <2>6, <2>8, <2>9, <2>10, <2>11, <2>12 DEF TasksInv, Stored
  <1> QED BY <1>3, <1>4

\* A set of numbers has a least one.
LEMMA Least ==
    ASSUME NEW S \in SUBSET Nat, S # {}
    PROVE  \E n \in S : \A m \in S : n <= m
  <1>1. PICK n \in S : \A m \in S : ~(<<m, n>> \in OpToRel(<, Nat))
    BY NatLessThanWellFounded, WFMin
  <1>2. \A m \in S : ~(m < n)
    BY <1>1 DEF OpToRel
  <1> QED BY <1>2

\* Of finitely many numbered things one has the greatest number: otherwise take the
\* fewest of which none has, and one of them away.
LEMMA Greatest ==
    ASSUME NEW K, IsFiniteSet(K), K # {}, NEW f \in [K -> Nat]
    PROVE  \E x \in K : \A y \in K : f[y] <= f[x]
  <1> DEFINE Topped(S) == \E x \in S : \A y \in S : f[y] <= f[x]
             Sizes == {n \in Nat : \E S \in SUBSET K : S # {} /\ Cardinality(S) = n /\ ~Topped(S)}
  <1>1. \A S \in SUBSET K : IsFiniteSet(S) /\ Cardinality(S) \in Nat
    BY FS_Subset, FS_CardinalityType
  <1>2. SUFFICES ASSUME ~Topped(K) PROVE FALSE
    OBVIOUS
  <1>3. Sizes # {}
    BY <1>1, <1>2
  <1>4. PICK n \in Sizes : \A m \in Sizes : n <= m
    BY <1>3, Least
  <1>5. PICK S \in SUBSET K : S # {} /\ Cardinality(S) = n /\ ~Topped(S)
    BY <1>4
  <1>6. PICK x \in S : TRUE
    BY <1>5
  <1>7. Cardinality(S \ {x}) = n - 1 /\ n \in Nat
    BY <1>1, <1>5, <1>6, FS_RemoveElement
  <1>8. S \ {x} # {}
    <2>1. S = {x} => Topped(S)
      BY <1>6
    <2> QED BY <1>5, <2>1
  <1>9. Topped(S \ {x})
    <2>1. ~(n <= n - 1)
      BY <1>7
    <2>2. n - 1 \notin Sizes
      BY <1>4, <2>1
    <2>3. Cardinality(S \ {x}) \in Nat
      BY <1>1
    <2> QED BY <1>7, <1>8, <2>2, <2>3
  <1>10. PICK z \in S \ {x} : \A y \in S \ {x} : f[y] <= f[z]
    BY <1>9
  <1>11. f[x] \in Nat /\ f[z] \in Nat /\ \A y \in S : f[y] \in Nat
    BY <1>6, <1>10
  <1>12. CASE f[x] <= f[z]
    BY <1>5, <1>10, <1>12
  <1>13. CASE f[z] <= f[x]
    BY <1>5, <1>6, <1>10, <1>11, <1>13
  <1> QED BY <1>11, <1>12, <1>13

\* create_checkpoint chooses a number.
LEMMA SeqIsNumber ==
    ASSUME TasksInv, NEW r \in Runs, NEW t \in Tasks \union {None}
    PROVE  T!NextSeq(r, t) \in Nat
  <1> DEFINE K == {k \in Checkpoints : /\ checkpoint[k] # None
                                       /\ checkpoint[k].run = r
                                       /\ t # None => checkpoint[k].task = t}
             S == {checkpoint[k].seq : k \in K} \union {-1}
             f == [k \in K |-> checkpoint[k].seq]
  <1>1. \A k \in K : checkpoint[k].seq \in Nat
    BY DEF TasksInv, T!TypeOK, T!Checkpoint
  <1>2. {p.seq : p \in T!Listed(r, t)} \union {-1} = S
    BY DEF T!Listed
  <1>3. \E x \in S : \A y \in S : x >= y
    <2>1. CASE K = {}
      BY <2>1
    <2>2. CASE K # {}
      <3>1. IsFiniteSet(K)
        BY FS_Subset DEF TasksInv, Stored
      <3>2. f \in [K -> Nat]
        BY <1>1
      <3>3. PICK k \in K : \A y \in K : f[y] <= f[k]
        BY <2>2, <3>1, <3>2, Greatest
      <3>4. \A y \in K : checkpoint[y].seq <= checkpoint[k].seq
        BY <3>3
      <3> QED BY <1>1, <3>4
    <2> QED BY <2>1, <2>2
  <1>4. T!Max(S) \in S /\ \A y \in S : T!Max(S) >= y
    BY <1>3 DEF T!Max
  <1>5. T!Max(S) \in Nat \union {-1}
    BY <1>1, <1>4
  <1>6. T!NextSeq(r, t) = T!Max(S) + 1
    BY <1>2 DEF T!NextSeq
  <1> QED BY <1>5, <1>6

\* create_checkpoint numbers the checkpoint after those that are stored.
LEMMA AfterCreateCheckpoint ==
    ASSUME TasksInv, NEW c \in Calls, NEW k \in Checkpoints, T!CreateCheckpoint(c, k)
    PROVE  TasksInv'
  <1> DEFINE q == taskCall[c]
             t == q.task
             new == T!Updated(task[t], None, None)
             writes == t # None /\ T!Fresh(c)
  <1>1. /\ q # None /\ checkpoint[k] = None
        /\ checkpoint' = [checkpoint EXCEPT ![k] = q.checkpoint]
        /\ task' = IF writes THEN [task EXCEPT ![t] = new] ELSE task
        /\ taskCall' = [taskCall EXCEPT ![c] = None]
        /\ UNCHANGED <<approval, taskTold>>
    BY DEF T!CreateCheckpoint, T!Return
  <1>2. q \in T!Call /\ Remembers(q, task, approval)
    BY <1>1 DEF TasksInv, T!TypeOK, CommandsTrue
  <1>3. writes => /\ t \in Tasks /\ task[t] \in T!Row /\ task[t].version \in Nat
                  /\ task[t].state # "ABSENT"
    BY <1>2 DEF TasksInv, T!TypeOK, T!Call, T!Row, Remembers
  <1>4. writes => /\ new \in T!Row /\ new.attempt = task[t].attempt
                  /\ new.version = task[t].version + 1 /\ new.state = task[t].state
                  /\ new.awaiting = task[t].awaiting
    <2> SUFFICES ASSUME writes
                 PROVE  /\ new \in T!Row /\ new.attempt = task[t].attempt
                        /\ new.version = task[t].version + 1 /\ new.state = task[t].state
                        /\ new.awaiting = task[t].awaiting
      OBVIOUS
    <2> DEFINE old == task[t]
    <2>1. old \in T!Row
      BY <1>3
    <2> HIDE DEF old
    <2>2. LET updated == T!Updated(old, None, None)
          IN  /\ updated \in T!Row /\ updated.attempt = old.attempt
              /\ updated.version = old.version + 1 /\ updated.state = old.state
              /\ updated.awaiting = old.awaiting
      BY <2>1, UpdatedRow
    <2> QED BY <2>2 DEF old
  <1> HIDE DEF new, writes
  <1>5. T!TypeOK'
    <2>1. checkpoint' \in [Checkpoints -> T!Checkpoint \union {None}]
      BY <1>1, <1>2 DEF TasksInv, T!TypeOK, T!Call
    <2> QED BY <1>1, <1>3, <1>4, <2>1 DEF TasksInv, T!TypeOK
  <1>6. \A u \in Tasks : \/ task'[u] = task[u]
                         \/ /\ task'[u].version > task[u].version
                            /\ task'[u].state = task[u].state
                            /\ task'[u].awaiting = task[u].awaiting
                            /\ task'[u].attempt = task[u].attempt
    BY <1>1, <1>3, <1>4 DEF TasksInv, T!TypeOK
  <1>7. RowsGrow /\ BindingsKept
    BY <1>1, <1>6 DEF RowsGrow, BindingsKept
  <1>8. CommandsTrue'
    BY <1>1, <1>5, <1>7, OthersRemember
  <1>9. IsFiniteSet(Stored)'
    <2>1. Stored' \in SUBSET (Stored \union {k})
      BY <1>1 DEF Stored, TasksInv, T!TypeOK
    <2>2. IsFiniteSet(Stored \union {k})
      BY FS_AddElement DEF TasksInv
    <2> QED BY <2>1, <2>2, FS_Subset
  <1>10. AttemptsBounded' /\ T!AwaitingWhileWaiting' /\ T!ToldTruthfully'
    BY <1>1, <1>6 DEF TasksInv, AttemptsBounded, T!AwaitingWhileWaiting, T!ToldTruthfully
  <1>11. ApprovalsBound'
    BY <1>1 DEF TasksInv, ApprovalsBound
  <1> QED BY <1>5, <1>8, <1>9, <1>10, <1>11 DEF TasksInv

\* create_task inserts a row no command under way has read.
LEMMA AfterCreateTask ==
    ASSUME TasksInv, NEW t \in Tasks, T!CreateTask(t)
    PROVE  TasksInv'
  <1> DEFINE new == [T!AbsentRow EXCEPT !.state = "RECEIVED", !.attempt = 1]
  <1>0. new.state = "RECEIVED" /\ new.attempt = 1 /\ new.awaiting = None /\ new \in T!Row
    BY DEF T!AbsentRow, T!Row, T!TaskState
  <1> HIDE DEF new
  <1>1. /\ task[t].state = "ABSENT"
        /\ task' = [task EXCEPT ![t] = new]
        /\ taskTold' = [taskTold EXCEPT ![t] = "RECEIVED"]
        /\ UNCHANGED <<approval, checkpoint, taskCall>>
    BY DEF T!CreateTask, T!InsertTask, T!Says, new
  <1>2. "RECEIVED" \in T!TaskState
    BY DEF T!TaskState
  <1>3. T!TypeOK'
    BY <1>0, <1>1, <1>2 DEF TasksInv, T!TypeOK
  <1>4. RowsGrow /\ BindingsKept
    BY <1>1 DEF RowsGrow, BindingsKept, TasksInv, T!TypeOK
  <1>5. CommandsTrue'
    <2> SUFFICES ASSUME NEW b \in Calls, taskCall[b] # None
                 PROVE  Remembers(taskCall[b], task', approval')
      BY <1>1 DEF CommandsTrue
    <2>1. taskCall[b] \in T!Call /\ Remembers(taskCall[b], task, approval)
      BY DEF TasksInv, T!TypeOK, CommandsTrue
    <2> QED BY <1>3, <1>4, <2>1, StillRemembers
  <1>6. AttemptsBounded'
    <2>1. 1 <= MaxAttempts[t]
      BY TasksAssumption
    <2> QED BY <1>0, <1>1, <2>1 DEF TasksInv, AttemptsBounded, T!TypeOK
  <1>7. T!AwaitingWhileWaiting' /\ T!ToldTruthfully'
    BY <1>0, <1>1 DEF TasksInv, T!AwaitingWhileWaiting, T!ToldTruthfully, T!TypeOK
  <1> QED BY <1>1, <1>3, <1>5, <1>6, <1>7 DEF TasksInv, Stored, ApprovalsBound

\* A command that begins.
LEMMA IssueKeeps ==
    ASSUME TasksInv, NEW c \in Calls, NEW n \in T!Call, Remembers(n, task, approval),
           taskCall' = [taskCall EXCEPT ![c] = n],
           UNCHANGED <<task, approval, checkpoint, taskTold>>
    PROVE  TasksInv'
  <1>1. T!TypeOK'
    BY DEF TasksInv, T!TypeOK
  <1>2. CommandsTrue'
    <2> SUFFICES ASSUME NEW b \in Calls, taskCall'[b] # None
                 PROVE  Remembers(taskCall'[b], task, approval)
      BY DEF CommandsTrue
    <2>1. CASE b = c
      BY <2>1 DEF TasksInv, T!TypeOK
    <2>2. CASE b # c
      BY <2>2 DEF TasksInv, T!TypeOK, CommandsTrue
    <2> QED BY <2>1, <2>2
  <1> QED BY <1>1, <1>2 DEF TasksInv, Stored, ApprovalsBound, AttemptsBounded,
             T!AwaitingWhileWaiting, T!ToldTruthfully

\* The reads of all commands: what is remembered has passed the checks.
LEMMA AfterRead ==
    ASSUME TasksInv, NEW c \in Calls, T!Read(c)
    PROVE  TasksInv'
  <1> DEFINE Asks(op, t, target, a, k) ==
               [op |-> op, task |-> t, seen |-> IF t = None THEN T!AbsentRow ELSE task[t],
                target |-> target, approval |-> a, checkpoint |-> k]
  <1>0. \A t \in Tasks : task[t] \in T!Row /\ task[t].version \in Nat /\ t # None
    BY TasksAssumption DEF TasksInv, T!TypeOK, T!Row
  <1>1. ASSUME NEW op, NEW t \in Tasks, NEW target, NEW a, NEW k,
               T!Issue(c, op, t, target, a, k),
               Asks(op, t, target, a, k) \in T!Call,
               Remembers(Asks(op, t, target, a, k), task, approval)
        PROVE  TasksInv'
    BY <1>1, IssueKeeps DEF T!Issue
  <1>2. ASSUME NEW t \in Tasks, NEW target \in T!TaskState, T!ReadTransition(c, t, target)
        PROVE  TasksInv'
    <2>1. Asks("transition", t, target, None, None) \in T!Call
      BY <1>0 DEF T!Call, T!Command
    <2>2. Remembers(Asks("transition", t, target, None, None), task, approval)
      BY <1>0, <1>2 DEF Remembers, T!ReadTransition, T!Issue
    <2> QED BY <1>1, <1>2, <2>1, <2>2 DEF T!ReadTransition
  <1>3. ASSUME NEW t \in Tasks, T!ReadComplete(c, t)
        PROVE  TasksInv'
    <2>1. Asks("complete", t, "COMPLETED", None, None) \in T!Call
      BY <1>0 DEF T!Call, T!Command, T!TaskState, T!TaskTerminal
    <2>2. Remembers(Asks("complete", t, "COMPLETED", None, None), task, approval)
      BY <1>0, <1>3 DEF Remembers, T!ReadComplete, T!Issue
    <2> QED BY <1>1, <1>3, <2>1, <2>2 DEF T!ReadComplete
  <1>4. ASSUME NEW t \in Tasks, T!ReadFail(c, t)
        PROVE  TasksInv'
    <2>1. Asks("fail", t, "FAILED", None, None) \in T!Call
      BY <1>0 DEF T!Call, T!Command, T!TaskState, T!TaskTerminal
    <2>2. <<task[t].state, "FAILED">> \in T!TaskMoves
      BY <1>4 DEF T!ReadFail, T!Allows, T!TaskTerminal
    <2>3. Remembers(Asks("fail", t, "FAILED", None, None), task, approval)
      BY <1>0, <1>4, <2>2 DEF Remembers, T!ReadFail, T!Issue
    <2> QED BY <1>1, <1>4, <2>1, <2>3 DEF T!ReadFail
  <1>5. ASSUME NEW t \in Tasks, T!ReadRetry(c, t)
        PROVE  TasksInv'
    <2>1. Asks("retry", t, "RUNNING", None, None) \in T!Call
      BY <1>0 DEF T!Call, T!Command, T!TaskState
    <2>2. /\ task[t].attempt < MaxAttempts[t]
          /\ \/ task[t].state \in {"RETRY_WAIT", "RECOVERING"}
             \/ <<task[t].state, "RETRY_WAIT">> \in T!TaskMoves
      BY <1>5 DEF T!ReadRetry, T!MayRetry, T!Allows
    <2>3. Remembers(Asks("retry", t, "RUNNING", None, None), task, approval)
      BY <1>0, <1>5, <2>2 DEF Remembers, T!ReadRetry, T!Issue
    <2> QED BY <1>1, <1>5, <2>1, <2>3 DEF T!ReadRetry
  <1>6. ASSUME NEW t \in Tasks, T!ReadRequest(c, t)
        PROVE  TasksInv'
    <2>1. Asks("request", t, None, None, None) \in T!Call
      BY <1>0 DEF T!Call, T!Command
    <2>2. Remembers(Asks("request", t, None, None, None), task, approval)
      BY <1>0, <1>6 DEF Remembers, T!ReadRequest, T!Issue
    <2> QED BY <1>1, <1>6, <2>1, <2>2 DEF T!ReadRequest
  <1>7. ASSUME NEW a \in Approvals, NEW decision \in T!Decision, T!ReadResolve(c, a, decision)
        PROVE  TasksInv'
    <2>1. approval[a].task \in Tasks
      BY <1>7 DEF T!ReadResolve, TasksInv, ApprovalsBound, T!TypeOK, T!Approval
    <2>2. Asks("resolve", approval[a].task, decision, a, None) \in T!Call
      BY <1>0, <2>1 DEF T!Call, T!Command
    <2>3. Remembers(Asks("resolve", approval[a].task, decision, a, None), task, approval)
      BY <1>0, <1>7, <2>1 DEF Remembers, T!ReadResolve, T!Issue
    <2> QED BY <1>1, <1>7, <2>1, <2>2, <2>3 DEF T!ReadResolve
  <1>8. ASSUME NEW r \in Runs, NEW t \in Tasks \union {None}, T!ReadCheckpoint(c, r, t)
        PROVE  TasksInv'
    <2> DEFINE k == [run |-> r, task |-> t, seq |-> T!NextSeq(r, t)]
               n == Asks("checkpoint", t, None, None, k)
    <2>1. k \in T!Checkpoint
      BY SeqIsNumber DEF T!Checkpoint
    <2>2. (IF t = None THEN T!AbsentRow ELSE task[t]) \in T!Row
      BY <1>0 DEF T!AbsentRow, T!Row
    <2>3. n \in T!Call
      BY <2>1, <2>2 DEF T!Call, T!Command
    <2>4. Remembers(n, task, approval)
      BY <1>0, <1>8 DEF Remembers, T!ReadCheckpoint, T!Issue
    <2> QED BY <1>8, <2>3, <2>4, IssueKeeps DEF T!ReadCheckpoint, T!Issue
  <1> QED BY <1>2, <1>3, <1>4, <1>5, <1>6, <1>7, <1>8 DEF T!Read

\* The tables of tasks are empty at first.
LEMMA TasksInit == T!Init => TasksInv
  <1> SUFFICES ASSUME T!Init PROVE TasksInv
    OBVIOUS
  <1>1. T!AbsentRow \in T!Row /\ [state |-> "ABSENT", task |-> None] \in T!Approval
    BY DEF T!AbsentRow, T!Row, T!Approval
  <1>2. T!TypeOK
    BY <1>1 DEF T!Init, T!TypeOK
  <1>3. IsFiniteSet(Stored)
    <2>1. Stored = {}
      BY DEF T!Init, Stored
    <2> QED BY <2>1, FS_EmptySet
  <1>4. CommandsTrue /\ ApprovalsBound
    BY DEF T!Init, CommandsTrue, ApprovalsBound
  <1>5. AttemptsBounded
    <2>1. \A t \in Tasks : MaxAttempts[t] \in Nat /\ task[t].attempt = 0
      BY TasksAssumption DEF T!Init, T!AbsentRow
    <2> QED BY <2>1 DEF AttemptsBounded
  <1>6. T!AwaitingWhileWaiting /\ T!ToldTruthfully
    BY DEF T!Init, T!AbsentRow, T!AwaitingWhileWaiting, T!ToldTruthfully
  <1> QED BY <1>2, <1>3, <1>4, <1>5, <1>6 DEF TasksInv

\* Every step on tasks keeps their invariant.
LEMMA TasksStep == TasksInv /\ [T!Next]_taskVars => TasksInv'
  <1> SUFFICES ASSUME TasksInv, [T!Next]_taskVars PROVE TasksInv'
    OBVIOUS
  <1>1. CASE UNCHANGED taskVars
    BY <1>1 DEF taskVars, TasksInv, T!TypeOK, Stored, CommandsTrue, ApprovalsBound,
                AttemptsBounded, T!AwaitingWhileWaiting, T!ToldTruthfully
  <1>2. ASSUME NEW t \in Tasks, T!CreateTask(t) PROVE TasksInv'
    BY <1>2, AfterCreateTask
  <1>3. ASSUME NEW c \in Calls, T!Read(c) PROVE TasksInv'
    BY <1>3, AfterRead
  <1>4. ASSUME NEW c \in Calls, T!Write(c) PROVE TasksInv'
    BY <1>4, AfterTransitionTask, AfterEndTask, AfterRetryTask, AfterRequestApproval,
       AfterResolveApproval, AfterCreateCheckpoint DEF T!Write
  <1>5. ASSUME NEW c \in Calls, T!GiveUp(c) PROVE TasksInv'
    BY <1>5, ForgettingKeeps DEF T!GiveUp, T!Return
  <1> QED BY <1>1, <1>2, <1>3, <1>4, <1>5 DEF T!Next

-----------------------------------------------------------------------------
(* What may become of a task or approval in a step *)

\* The body of AlongLifecycle.
TaskMove(t) ==
    LET s == task[t].state
        n == task'[t].state
    IN  /\ task'[t].attempt <= MaxAttempts[t]
        /\ \/ s \in {n, "ABSENT"}
           \/ <<s, n>> \in T!TaskMoves
           \/ /\ <<s, "RETRY_WAIT">> \in T!TaskMoves /\ n = "RUNNING"
              /\ task'[t].attempt = task[t].attempt + 1
           \/ n = "FAILED" /\ T!DeniedNow(t)

\* A command that writes its row over the one it read makes the move it was checked
\* for.
LEMMA WriteMoves ==
    ASSUME TasksInv, NEW c \in Calls, NEW new, NEW t \in Tasks, T!WriteTask(c, new),
           taskCall[c] # None, taskCall[c].op # "checkpoint",
           LET q == taskCall[c] IN
              \/ new.state = q.seen.state
              \/ <<q.seen.state, new.state>> \in T!TaskMoves
              \/ /\ <<q.seen.state, "RETRY_WAIT">> \in T!TaskMoves /\ new.state = "RUNNING"
                 /\ new.attempt = q.seen.attempt + 1
    PROVE  \/ task[t].state \in {task'[t].state, "ABSENT"}
           \/ <<task[t].state, task'[t].state>> \in T!TaskMoves
           \/ /\ <<task[t].state, "RETRY_WAIT">> \in T!TaskMoves /\ task'[t].state = "RUNNING"
              /\ task'[t].attempt = task[t].attempt + 1
  <1> DEFINE q == taskCall[c]
  <1>1. q.task \in Tasks /\ (T!Fresh(c) => task[q.task] = q.seen)
    BY CallOfTask
  <1>2. CASE ~T!Fresh(c)
    BY <1>2 DEF T!WriteTask
  <1>3. CASE T!Fresh(c)
    <2>1. task' = [task EXCEPT ![q.task] = new]
      BY <1>3 DEF T!WriteTask
    <2>2. CASE t = q.task
      <3>1. task'[t] = new /\ task[t] = q.seen
        BY <1>1, <1>3, <2>1, <2>2 DEF TasksInv, T!TypeOK
      <3> QED BY <3>1
    <2>3. CASE t # q.task
      BY <2>1, <2>3 DEF TasksInv, T!TypeOK
    <2> QED BY <2>2, <2>3
  <1> QED BY <1>2, <1>3

\* The moves that approvals and retries make.
LEMMA CommonTaskMoves ==
    /\ <<"WAITING_PERMISSION", "RUNNING">> \in T!TaskMoves
    /\ <<"RUNNING", "WAITING_PERMISSION">> \in T!TaskMoves
    /\ <<"RETRY_WAIT", "RUNNING">> \in T!TaskMoves
    /\ <<"RECOVERING", "RUNNING">> \in T!TaskMoves
  BY DEF T!TaskMoves, T!Moves

\* Every change of a task is a move of its lifecycle, or one of the exceptions.
LEMMA TasksMove ==
    ASSUME TasksInv, TasksInv', [T!Next]_taskVars, NEW t \in Tasks
    PROVE  TaskMove(t)
  <1> DEFINE Kept == task'[t].state = task[t].state
             Plain == \/ task[t].state \in {task'[t].state, "ABSENT"}
                      \/ <<task[t].state, task'[t].state>> \in T!TaskMoves
                      \/ /\ <<task[t].state, "RETRY_WAIT">> \in T!TaskMoves
                         /\ task'[t].state = "RUNNING"
                         /\ task'[t].attempt = task[t].attempt + 1
                      \/ task'[t].state = "FAILED" /\ T!DeniedNow(t)
  <1>0. SUFFICES Plain
    BY DEF TaskMove, TasksInv, AttemptsBounded
  <1>1. CASE UNCHANGED taskVars
    BY <1>1 DEF taskVars
  <1>2. ASSUME NEW u \in Tasks, T!CreateTask(u) PROVE Plain
    BY <1>2 DEF T!CreateTask, T!InsertTask, TasksInv, T!TypeOK
  <1>3. ASSUME NEW c \in Calls, T!Read(c) PROVE Plain
    BY <1>3 DEF T!Read, T!ReadTransition, T!ReadComplete, T!ReadFail, T!ReadRetry,
                T!ReadRequest, T!ReadResolve, T!ReadCheckpoint, T!Issue
  <1>4. ASSUME NEW c \in Calls, T!GiveUp(c) PROVE Plain
    BY <1>4 DEF T!GiveUp
  <1>5. ASSUME NEW c \in Calls, T!TransitionTask(c) PROVE Plain
    <2> DEFINE q == taskCall[c]
               new == T!Updated(q.seen, q.target, None)
    <2>1. /\ q # None /\ q.op = "transition" /\ T!WriteTask(c, new)
          /\ q.seen \in T!Row /\ Remembers(q, task, approval)
      BY <1>5, CallOfTask DEF T!TransitionTask
    <2>2. q.target \in T!TaskState /\ <<q.seen.state, q.target>> \in T!TaskMoves
      BY <2>1 DEF Remembers
    <2>3. new.state = q.target
      BY <2>1, <2>2, UpdatedRow, NullIsNoState
    <2> QED BY <2>1, <2>2, <2>3, WriteMoves
  <1>6. ASSUME NEW c \in Calls, T!CompleteTask(c) PROVE Plain
    <2> DEFINE q == taskCall[c]
               new == T!Updated(q.seen, "COMPLETED", None)
    <2>1. /\ q # None /\ q.op = "complete" /\ T!WriteTask(c, new)
          /\ q.seen \in T!Row /\ Remembers(q, task, approval)
      BY <1>6, CallOfTask DEF T!CompleteTask
    <2>2. q.seen.state = "COMPLETED" \/ <<q.seen.state, "COMPLETED">> \in T!TaskMoves
      BY <2>1 DEF Remembers, T!Allows
    <2>3. new.state = "COMPLETED"
      <3>1. "COMPLETED" \in T!TaskState
        BY DEF T!TaskState, T!TaskTerminal
      <3> QED BY <2>1, <3>1, UpdatedRow, NullIsNoState
    <2> QED BY <2>1, <2>2, <2>3, WriteMoves
  <1>7. ASSUME NEW c \in Calls, T!FailTask(c) PROVE Plain
    <2> DEFINE q == taskCall[c]
               new == T!Updated(q.seen, "FAILED", None)
    <2>1. /\ q # None /\ q.op = "fail" /\ T!WriteTask(c, new)
          /\ q.seen \in T!Row /\ Remembers(q, task, approval)
      BY <1>7, CallOfTask DEF T!FailTask
    <2>2. <<q.seen.state, "FAILED">> \in T!TaskMoves
      BY <2>1 DEF Remembers
    <2>3. new.state = "FAILED"
      <3>1. "FAILED" \in T!TaskState
        BY DEF T!TaskState, T!TaskTerminal
      <3> QED BY <2>1, <3>1, UpdatedRow, NullIsNoState
    <2> QED BY <2>1, <2>2, <2>3, WriteMoves
  <1>8. ASSUME NEW c \in Calls, T!RetryTask(c) PROVE Plain
    <2> DEFINE q == taskCall[c]
               new == T!Retried(q.seen)
    <2>1. /\ q # None /\ q.op = "retry" /\ T!WriteTask(c, new)
          /\ q.seen \in T!Row /\ Remembers(q, task, approval)
      BY <1>8, CallOfTask DEF T!RetryTask
    <2>2. \/ q.seen.state \in {"RETRY_WAIT", "RECOVERING"}
          \/ <<q.seen.state, "RETRY_WAIT">> \in T!TaskMoves
      BY <2>1 DEF Remembers
    <2>3. new.state = "RUNNING" /\ new.attempt = q.seen.attempt + 1
      BY <2>1, RetriedRow
    <2> QED BY <2>1, <2>2, <2>3, WriteMoves, CommonTaskMoves
  <1>9. ASSUME NEW c \in Calls, NEW a \in Approvals, T!RequestApproval(c, a) PROVE Plain
    <2> DEFINE q == taskCall[c]
               state == IF q.seen.state = "RUNNING" THEN "WAITING_PERMISSION" ELSE None
               new == T!Updated(task[q.task], state, a)
    <2>1. /\ q # None /\ q.op = "request"
          /\ q.task \in Tasks /\ task[q.task] \in T!Row
          /\ T!Fresh(c) => task[q.task] = q.seen
      BY <1>9, CallOfTask DEF T!RequestApproval, TasksInv, T!TypeOK
    <2>2. task' = task \/ (T!Fresh(c) /\ task' = [task EXCEPT ![q.task] = new])
      BY <1>9 DEF T!RequestApproval
    <2>3. state \in T!TaskState \union {None}
      BY DEF T!TaskState
    <2>4. new.state = IF q.seen.state = "RUNNING" THEN "WAITING_PERMISSION"
                      ELSE task[q.task].state
      <3>0. \A old \in T!Row, s \in T!TaskState \union {None} :
               /\ T!Updated(old, s, a) \in T!Row
               /\ T!Updated(old, s, a).state = IF s = None THEN old.state ELSE s
        BY UpdatedRow
      <3> HIDE DEF state
      <3>1. T!Updated(task[q.task], state, a).state
                = IF state = None THEN task[q.task].state ELSE state
        BY <2>1, <2>3, <3>0
      <3>2. "WAITING_PERMISSION" # None
        BY NullIsNoState DEF T!TaskState
      <3> QED BY <3>1, <3>2 DEF state
    <2> QED BY <2>1, <2>2, <2>4, CommonTaskMoves DEF TasksInv, T!TypeOK
  <1>10. ASSUME NEW c \in Calls, T!ResolveApproval(c) PROVE Plain
    <2> DEFINE q == taskCall[c]
               a == q.approval
               approved == q.target = "APPROVED"
               follows == approved => q.seen.state = "WAITING_PERMISSION"
               state == IF approved THEN "RUNNING" ELSE "FAILED"
               new == T!Updated(task[q.task], state, None)
    <2>1. /\ q # None /\ q.op = "resolve"
          /\ q.task \in Tasks /\ task[q.task] \in T!Row
          /\ a \in Approvals /\ q.target \in T!Decision /\ approval[a].task = q.task
          /\ T!Fresh(c) => task[q.task] = q.seen
      BY <1>10, CallOfTask DEF T!ResolveApproval, TasksInv, T!TypeOK, Remembers
    <2>2. \/ task' = task
          \/ /\ T!Fresh(c) /\ task' = [task EXCEPT ![q.task] = new]
             /\ follows /\ approval[a].state = "PENDING"
             /\ approval' = [approval EXCEPT ![a].state = q.target]
      BY <1>10, Zenon DEF T!ResolveApproval, T!StillPending
    <2>3. state \in T!TaskState
      BY DEF T!TaskState, T!TaskTerminal
    <2>4. new.state = state
      BY <2>1, <2>3, UpdatedRow, NullIsNoState
    <2>5. CASE task' = task \/ t # q.task
      BY <2>2, <2>5 DEF TasksInv, T!TypeOK
    <2>6. CASE task' # task /\ t = q.task /\ approved
      BY <2>1, <2>2, <2>4, <2>6, CommonTaskMoves DEF TasksInv, T!TypeOK
    <2>7. CASE task' # task /\ t = q.task /\ ~approved
      <3>1. task'[t].state = "FAILED"
        BY <2>1, <2>2, <2>4, <2>7 DEF TasksInv, T!TypeOK
      <3>2. approval[a] = [state |-> "PENDING", task |-> t]
        BY <2>1, <2>2, <2>7 DEF TasksInv, T!TypeOK, T!Approval
      <3>3. approval'[a].state \in {"DENIED", "EXPIRED"}
        BY <2>1, <2>2, <2>7 DEF TasksInv, T!TypeOK, T!Approval, T!Decision
      <3> QED BY <2>1, <3>1, <3>2, <3>3 DEF T!DeniedNow
    <2> QED BY <2>5, <2>6, <2>7
  <1>11. ASSUME NEW c \in Calls, NEW k \in Checkpoints, T!CreateCheckpoint(c, k) PROVE Plain
    <2> DEFINE q == taskCall[c]
               new == T!Updated(task[q.task], None, None)
    <2>1. /\ q # None /\ q \in T!Call
          /\ task' = task \/ (q.task # None /\ task' = [task EXCEPT ![q.task] = new])
      BY <1>11 DEF T!CreateCheckpoint, TasksInv, T!TypeOK
    <2>2. q.task # None => q.task \in Tasks /\ task[q.task] \in T!Row
      BY <2>1 DEF T!Call, TasksInv, T!TypeOK
    <2>3. ASSUME q.task # None PROVE new.state = task[q.task].state
      <3> DEFINE old == task[q.task]
      <3>1. old \in T!Row
        BY <2>2, <2>3
      <3> HIDE DEF old
      <3>2. T!Updated(old, None, None).state = old.state
        BY <3>1, UpdatedRow
      <3> QED BY <3>2 DEF old
    <2> QED BY <2>1, <2>2, <2>3 DEF TasksInv, T!TypeOK
  <1>12. ASSUME NEW c \in Calls, T!Write(c) PROVE Plain
    BY <1>5, <1>6, <1>7, <1>8, <1>9, <1>10, <1>11, <1>12 DEF T!Write
  <1> QED BY <1>1, <1>2, <1>3, <1>4, <1>12 DEF T!Next

\* Of two decisions on one approval that race, the first stands: a step leaves an
\* approval that is decided as it is.
LEMMA DecisionsStand ==
    ASSUME TasksInv, [T!Next]_taskVars, NEW a \in Approvals, approval[a].state \in T!Decision
    PROVE  approval'[a] = approval[a]
  <1>1. CASE UNCHANGED taskVars
    BY <1>1 DEF taskVars
  <1>2. CASE UNCHANGED approval
    BY <1>2
  <1>3. ASSUME NEW c \in Calls, NEW b \in Approvals, T!RequestApproval(c, b)
        PROVE  approval'[a] = approval[a]
    BY <1>3 DEF T!RequestApproval, T!InsertApproval, T!Decision, TasksInv, T!TypeOK
  <1>4. ASSUME NEW c \in Calls, T!ResolveApproval(c)
        PROVE  approval'[a] = approval[a]
    BY <1>4 DEF T!ResolveApproval, T!StillPending, T!Decision, TasksInv, T!TypeOK
  <1>5. ASSUME NEW c \in Calls, T!Write(c)
        PROVE  approval'[a] = approval[a]
    BY <1>2, <1>3, <1>4, <1>5 DEF T!Write, T!TransitionTask, T!CompleteTask, T!FailTask,
       T!RetryTask, T!WriteTask, T!CreateCheckpoint
  <1>6. ASSUME NEW c \in Calls, T!Read(c) PROVE UNCHANGED approval
    BY <1>6 DEF T!Read, T!ReadTransition, T!ReadComplete, T!ReadFail, T!ReadRetry,
                T!ReadRequest, T!ReadResolve, T!ReadCheckpoint, T!Issue
  <1> QED BY <1>1, <1>2, <1>5, <1>6 DEF T!Next, T!CreateTask, T!GiveUp

-----------------------------------------------------------------------------
(* Runs *)

\* The same of the commands on runs.  A transition of a delegation whose parent is not
\* to be released remembers no row of it.
RecallsRun(q, rows, dels) ==
    /\ rows[q.run].state # "ABSENT"
    /\ q.op # "release" => q.seen.state # "ABSENT"
    /\ q.seen.state # "ABSENT" =>
        /\ q.seen.version <= rows[q.run].version
        /\ q.seen.version = rows[q.run].version => q.seen = rows[q.run]
    /\ q.op = "transition" =>
        q.target \in R!LoopState /\ <<q.seen.state, q.target>> \in R!LoopMoves
    /\ q.op \in {"delegate", "block"} => q.child \in Runs
    /\ q.op \in {"settle", "release"} =>
        /\ q.delegation \in Delegations
        /\ dels[q.delegation] # None /\ dels[q.delegation].parent = q.run
        /\ q.target \in R!DelegationStatus

RunCommandsTrue == \A c \in Calls : runCall[c] # None => RecallsRun(runCall[c], run, delegation)

\* A run that is not created yet has spent nothing.
Unspent == \A r \in Runs : run[r].state = "ABSENT" => spent[r] = 0

\* The inductive invariant of the runs.
RunsInv ==
    /\ R!TypeOK
    /\ RunCommandsTrue
    /\ Unspent
    /\ R!UsageExact
    /\ R!ExhaustedFailed
    /\ R!RunToldTruthfully

RunsGrow ==
    \A r \in Runs : run[r].state # "ABSENT" =>
        \/ run'[r] = run[r]
        \/ run'[r].version > run[r].version /\ run'[r].state # "ABSENT"

DelegationsKept ==
    \A d \in Delegations : delegation[d] # None =>
        delegation'[d] # None /\ delegation'[d].parent = delegation[d].parent

\* A command still recalls its run when rows only grow and delegations stay.
LEMMA StillRecalls ==
    ASSUME RunsInv, RunsGrow, DelegationsKept, R!TypeOK',
           NEW q \in R!Call, RecallsRun(q, run, delegation)
    PROVE  RecallsRun(q, run', delegation')
  <1>1. /\ q.run \in Runs /\ q.seen.version \in Nat
        /\ run[q.run].version \in Nat /\ run'[q.run].version \in Nat
    BY DEF RunsInv, R!TypeOK, R!Call, R!Row
  <1>2. /\ run'[q.run].state # "ABSENT"
        /\ q.seen.state # "ABSENT" =>
             /\ q.seen.version <= run'[q.run].version
             /\ q.seen.version = run'[q.run].version => q.seen = run'[q.run]
    BY <1>1 DEF RecallsRun, RunsGrow
  <1>3. q.op \in {"settle", "release"} =>
          delegation'[q.delegation] # None /\ delegation'[q.delegation].parent = q.run
    BY DEF RecallsRun, DelegationsKept
  <1> QED BY <1>2, <1>3 DEF RecallsRun

\* When a step writes a run, the commands other than the one that ends still recall it.
LEMMA OthersRecall ==
    ASSUME RunsInv, RunsGrow, DelegationsKept, R!TypeOK', NEW c \in Calls,
           runCall' = runCall \/ runCall' = [runCall EXCEPT ![c] = None]
    PROVE  RunCommandsTrue'
  <1> SUFFICES ASSUME NEW b \in Calls, runCall'[b] # None
               PROVE  RecallsRun(runCall'[b], run', delegation')
    BY DEF RunCommandsTrue
  <1>1. runCall'[b] = runCall[b] /\ runCall[b] \in R!Call
    BY DEF RunsInv, R!TypeOK
  <1>2. RecallsRun(runCall[b], run, delegation)
    BY <1>1 DEF RunsInv, RunCommandsTrue
  <1> QED BY <1>1, <1>2, StillRecalls

\* A step that ends a command and writes at most its row, what the stream says of it,
\* and the turns spent.
LEMMA RunWritten ==
    ASSUME RunsInv, NEW c \in Calls, NEW r \in Runs, NEW new \in R!Row,
           NEW state \in R!LoopState \union {"ABSENT"}, NEW used \in Nat,
           run' = [run EXCEPT ![r] = new],
           runTold' = [runTold EXCEPT ![r] = state],
           spent' = [spent EXCEPT ![r] = used],
           delegation' \in [Delegations -> R!Delegation \union {None}], DelegationsKept,
           runCall' = [runCall EXCEPT ![c] = None],
           \/ new = run[r]
           \/ new.version > run[r].version /\ new.state # "ABSENT",
           new.turns = used,
           used > 0 /\ R!Reached(new.limits.turns, new.turns) => new.state = "FAILED",
           \/ state = new.state
           \/ \E d \in Delegations : delegation'[d] # None /\ delegation'[d].parent = r
    PROVE  RunsInv'
  <1>1. R!TypeOK'
    BY DEF RunsInv, R!TypeOK
  <1>2. run'[r] = new /\ runTold'[r] = state /\ spent'[r] = used
    BY DEF RunsInv, R!TypeOK
  <1>3. \A s \in Runs : s # r =>
          run'[s] = run[s] /\ runTold'[s] = runTold[s] /\ spent'[s] = spent[s]
    BY DEF RunsInv, R!TypeOK
  <1>4. RunsGrow
    BY <1>2, <1>3 DEF RunsGrow
  <1>5. RunCommandsTrue'
    BY <1>1, <1>4, OthersRecall
  <1>6. R!UsageExact' /\ Unspent'
    BY <1>2, <1>3 DEF RunsInv, R!UsageExact, Unspent
  <1>7. R!ExhaustedFailed'
    <2> SUFFICES ASSUME NEW s \in Runs, spent'[s] > 0,
                        R!Reached(run'[s].limits.turns, run'[s].turns)
                 PROVE  run'[s].state = "FAILED"
      BY DEF R!ExhaustedFailed, R!Reached
    <2>1. CASE s = r
      BY <1>2, <2>1
    <2>2. CASE s # r
      BY <1>3, <2>2 DEF RunsInv, R!ExhaustedFailed
    <2> QED BY <2>1, <2>2
  <1>8. R!RunToldTruthfully'
    <2> SUFFICES ASSUME NEW s \in Runs
                 PROVE  \/ runTold'[s] = run'[s].state
                        \/ \E d \in Delegations : delegation'[d] # None /\ delegation'[d].parent = s
      BY DEF R!RunToldTruthfully, R!Children
    <2>1. CASE s = r
      BY <1>2, <2>1
    <2>2. CASE s # r
      <3>1. runTold[s] = run[s].state
              \/ \E d \in Delegations : delegation[d] # None /\ delegation[d].parent = s
        BY DEF RunsInv, R!RunToldTruthfully, R!Children
      <3> QED BY <1>3, <2>2, <3>1 DEF DelegationsKept
    <2> QED BY <2>1, <2>2
  <1> QED BY <1>1, <1>5, <1>6, <1>7, <1>8 DEF RunsInv

\* A step that changes nothing but the commands, whose new one was true when it was
\* read.
LEMMA RunReads ==
    ASSUME RunsInv, NEW c \in Calls, NEW n \in R!Call \union {None},
           n # None => RecallsRun(n, run, delegation),
           runCall' = [runCall EXCEPT ![c] = n], UNCHANGED <<run, delegation, runTold, spent>>
    PROVE  RunsInv'
  <1>1. R!TypeOK'
    BY DEF RunsInv, R!TypeOK
  <1>2. RunCommandsTrue'
    <2> SUFFICES ASSUME NEW b \in Calls, runCall'[b] # None
                 PROVE  RecallsRun(runCall'[b], run, delegation)
      BY DEF RunCommandsTrue
    <2>1. CASE b = c
      BY <2>1 DEF RunsInv, R!TypeOK
    <2>2. CASE b # c
      BY <2>2 DEF RunsInv, R!TypeOK, RunCommandsTrue
    <2> QED BY <2>1, <2>2
  <1> QED BY <1>1, <1>2 DEF RunsInv, Unspent, R!UsageExact, R!ExhaustedFailed,
             R!RunToldTruthfully, R!Children

\* What a command under way knows of its run.
LEMMA CallOfRun ==
    ASSUME RunsInv, NEW c \in Calls, runCall[c] # None
    PROVE  /\ runCall[c] \in R!Call
           /\ RecallsRun(runCall[c], run, delegation)
           /\ runCall[c].run \in Runs
           /\ runCall[c].seen \in R!Row
           /\ runCall[c].seen.version \in Nat
           /\ run[runCall[c].run] \in R!Row
           /\ run[runCall[c].run].version \in Nat
           /\ run[runCall[c].run].state # "ABSENT"
           /\ R!Fresh(c) /\ runCall[c].seen.state # "ABSENT"
                => run[runCall[c].run] = runCall[c].seen
  <1>1. runCall[c] \in R!Call /\ RecallsRun(runCall[c], run, delegation)
    BY DEF RunsInv, R!TypeOK, RunCommandsTrue
  <1>2. runCall[c].run \in Runs /\ runCall[c].seen \in R!Row
    BY <1>1 DEF R!Call
  <1>3. run[runCall[c].run] \in R!Row
    BY <1>2 DEF RunsInv, R!TypeOK
  <1>4. runCall[c].seen.version \in Nat /\ run[runCall[c].run].version \in Nat
    BY <1>2, <1>3 DEF R!Row
  <1>5. R!Fresh(c) /\ runCall[c].seen.state # "ABSENT"
          => run[runCall[c].run] = runCall[c].seen
    BY <1>1 DEF R!Fresh, RecallsRun
  <1> QED BY <1>1, <1>2, <1>3, <1>4, <1>5 DEF RecallsRun

\* update_run with a new state changes the state and the version.
LEMMA MovedRow ==
    ASSUME NEW old \in R!Row, NEW s \in R!LoopState
    PROVE  LET new == R!Moved(old, s)
           IN  /\ new \in R!Row
               /\ new.state = s /\ new.version = old.version + 1
               /\ new.turns = old.turns /\ new.children = old.children
               /\ new.limits = old.limits
  <1> DEFINE version == old.version + 1
  <1>1. version \in Nat /\ R!Moved(old, s) = [old EXCEPT !.state = s, !.version = version]
    BY DEF R!Moved, R!Row
  <1> HIDE DEF version
  <1>2. R!Moved(old, s) = [state |-> s, limits |-> old.limits, turns |-> old.turns,
                           children |-> old.children, version |-> version]
    BY <1>1 DEF R!Row
  <1> QED BY <1>1, <1>2 DEF R!Row, version

\* update_run with the usage adds the turns and leaves the state.
LEMMA UsedRow ==
    ASSUME NEW old \in R!Row, NEW delta \in Nat
    PROVE  LET new == R!Used(old, delta)
           IN  /\ new \in R!Row
               /\ new.state = old.state /\ new.version = old.version + 1
               /\ new.turns = old.turns + delta /\ new.children = old.children
               /\ new.limits = old.limits
  <1> DEFINE version == old.version + 1
             turns == old.turns + delta
  <1>1. /\ version \in Nat /\ turns \in Nat
        /\ R!Used(old, delta) = [old EXCEPT !.turns = turns, !.version = version]
    BY DEF R!Used, R!Row
  <1> HIDE DEF version, turns
  <1>2. R!Used(old, delta) = [state |-> old.state, limits |-> old.limits, turns |-> turns,
                              children |-> old.children, version |-> version]
    BY <1>1 DEF R!Row
  <1> QED BY <1>1, <1>2 DEF R!Row, version, turns

\* update_run with one more child leaves the state.
LEMMA CountedRow ==
    ASSUME NEW old \in R!Row
    PROVE  LET new == [old EXCEPT !.children = @ + 1, !.version = @ + 1]
           IN  /\ new \in R!Row
               /\ new.state = old.state /\ new.version = old.version + 1
               /\ new.turns = old.turns /\ new.limits = old.limits
  <1> DEFINE version == old.version + 1
             children == old.children + 1
             new == [old EXCEPT !.children = @ + 1, !.version = @ + 1]
  <1>1. /\ version \in Nat /\ children \in Nat
        /\ new = [old EXCEPT !.children = children, !.version = version]
    BY DEF R!Row
  <1> HIDE DEF version, children, new
  <1>2. new = [state |-> old.state, limits |-> old.limits, turns |-> old.turns,
               children |-> children, version |-> version]
    BY <1>1 DEF R!Row
  <1>3. /\ new \in R!Row
        /\ new.state = old.state /\ new.version = old.version + 1
        /\ new.turns = old.turns /\ new.limits = old.limits
    BY <1>1, <1>2 DEF R!Row, version
  <1> QED BY <1>3 DEF new

\* Nothing leads out of FAILED.
LEMMA FailedIsFinal == \A s : <<"FAILED", s>> \notin R!LoopMoves
  BY DEF R!LoopMoves, R!Moves, R!LoopWaiting

\* The states that the actions name are states of a run, "ABSENT" is none.
LEMMA LoopStates ==
    {"CREATED", "FAILED", "RUNNING", "WAITING_CHILD"} \subseteq R!LoopState
    /\ "ABSENT" \notin R!LoopState
  BY DEF R!LoopState, R!LoopWaiting, R!LoopTerminal

\* What holds of a run by the invariant.
LEMMA RunFacts ==
    ASSUME RunsInv, NEW r \in Runs
    PROVE  /\ run[r] \in R!Row /\ run[r].version \in Nat /\ run[r].turns \in Nat
           /\ run[r].state \in R!LoopState \union {"ABSENT"}
           /\ runTold[r] \in R!LoopState \union {"ABSENT"} /\ spent[r] \in Nat
           /\ run[r].turns = spent[r]
           /\ spent[r] > 0 /\ R!Reached(run[r].limits.turns, run[r].turns)
                => run[r].state = "FAILED"
           /\ \/ runTold[r] = run[r].state
              \/ \E d \in Delegations : delegation[d] # None /\ delegation[d].parent = r
           /\ run = [run EXCEPT ![r] = run[r]]
           /\ runTold = [runTold EXCEPT ![r] = runTold[r]]
           /\ spent = [spent EXCEPT ![r] = spent[r]]
           /\ delegation \in [Delegations -> R!Delegation \union {None}]
  BY DEF RunsInv, R!TypeOK, R!Row, R!UsageExact, R!ExhaustedFailed, R!RunToldTruthfully,
         R!Children

\* transition_run writes the row it read, with the state it checked.
LEMMA AfterTransitionRun ==
    ASSUME RunsInv, NEW c \in Calls, R!TransitionRun(c)
    PROVE  RunsInv'
  <1> DEFINE q == runCall[c]
             r == q.run
             new == R!Moved(q.seen, q.target)
  <1>1. /\ q # None /\ q.op = "transition"
        /\ runCall' = [runCall EXCEPT ![c] = None] /\ UNCHANGED <<delegation, spent>>
    BY DEF R!TransitionRun, R!UnderWay, R!Return
  <1>2. /\ r \in Runs /\ q.seen \in R!Row /\ RecallsRun(q, run, delegation)
        /\ R!Fresh(c) => run[r] = q.seen
    BY <1>1, CallOfRun DEF RecallsRun
  <1>3. q.target \in R!LoopState /\ <<q.seen.state, q.target>> \in R!LoopMoves
    BY <1>1, <1>2 DEF RecallsRun
  <1>4. CASE ~R!Fresh(c)
    BY <1>1, <1>4, RunReads DEF R!TransitionRun
  <1>5. CASE R!Fresh(c)
    <2>1. run' = [run EXCEPT ![r] = new] /\ runTold' = [runTold EXCEPT ![r] = q.target]
      BY <1>5 DEF R!TransitionRun, R!Says
    <2>2. /\ new \in R!Row /\ new.state = q.target /\ new.version = run[r].version + 1
          /\ new.turns = run[r].turns /\ new.limits = run[r].limits
      BY <1>2, <1>3, <1>5, MovedRow
    <2>3. run[r].state # "FAILED"
      BY <1>2, <1>3, <1>5, FailedIsFinal
    <2> HIDE DEF new
    <2>4. spent[r] > 0 /\ R!Reached(new.limits.turns, new.turns) => new.state = "FAILED"
      BY <1>2, <2>2, <2>3, RunFacts
    <2>5. new.version > run[r].version /\ new.state # "ABSENT"
      BY <1>2, <1>3, <2>2, RunFacts, LoopStates
    <2>6. /\ delegation' \in [Delegations -> R!Delegation \union {None}] /\ DelegationsKept
          /\ spent' = [spent EXCEPT ![r] = spent[r]] /\ spent[r] \in Nat
          /\ new.turns = spent[r]
      BY <1>1, <1>2, <2>2, RunFacts DEF DelegationsKept
    <2>7. q.target \in R!LoopState \union {"ABSENT"} /\ q.target = new.state
      BY <1>3, <2>2
    <2> QED BY <1>1, <1>2, <2>1, <2>2, <2>4, <2>5, <2>6, <2>7, RunWritten
  <1> QED BY <1>4, <1>5

\* record_run_budget_usage adds the turns and fails a run that has none left.
LEMMA AfterRecordUsage ==
    ASSUME RunsInv, NEW c \in Calls, R!RecordUsage(c)
    PROVE  RunsInv'
  <1> DEFINE q == runCall[c]
             r == q.run
             used == R!Used(q.seen, q.delta)
             fails == R!Exhausted(used) /\ used.state # "FAILED"
             new == IF fails THEN R!Moved(used, "FAILED") ELSE used
             state == IF fails THEN "FAILED" ELSE runTold[r]
             total == spent[r] + q.delta
  <1>1. /\ q # None /\ q.op = "usage"
        /\ runCall' = [runCall EXCEPT ![c] = None] /\ UNCHANGED delegation
    BY DEF R!RecordUsage, R!UnderWay, R!Return
  <1>2. /\ r \in Runs /\ q.seen \in R!Row /\ RecallsRun(q, run, delegation)
        /\ R!Fresh(c) => run[r] = q.seen
        /\ run[r].state # "ABSENT" /\ q.delta \in Nat
    BY <1>1, CallOfRun DEF RecallsRun, R!Call
  <1>3. CASE ~R!Fresh(c)
    BY <1>1, <1>3, RunReads DEF R!RecordUsage
  <1>4. CASE R!Fresh(c)
    <2>1. /\ run' = [run EXCEPT ![r] = new]
          /\ runTold' = IF fails THEN [runTold EXCEPT ![r] = "FAILED"] ELSE runTold
          /\ spent' = [spent EXCEPT ![r] = @ + q.delta]
      BY <1>4, Zenon DEF R!RecordUsage, R!Says
    <2>2. runTold' = [runTold EXCEPT ![r] = state]
      BY <1>2, <2>1, RunFacts
    <2>3. spent' = [spent EXCEPT ![r] = total]
      BY <2>1
    <2>4. /\ used \in R!Row /\ used.state = run[r].state /\ used.version = run[r].version + 1
          /\ used.turns = run[r].turns + q.delta /\ used.limits = run[r].limits
      <3>1. /\ used \in R!Row /\ used.state = q.seen.state
            /\ used.version = q.seen.version + 1
            /\ used.turns = q.seen.turns + q.delta /\ used.limits = q.seen.limits
        BY <1>2, UsedRow
      <3> QED BY <1>2, <1>4, <3>1
    <2>5. LET failed == R!Moved(used, "FAILED")
          IN  /\ failed \in R!Row /\ failed.state = "FAILED"
              /\ failed.version = used.version + 1
              /\ failed.turns = used.turns /\ failed.limits = used.limits
      BY <2>4, MovedRow, LoopStates
    <2> HIDE DEF used
    <2>6. /\ new \in R!Row /\ new.turns = total
          /\ new.version > run[r].version /\ new.state # "ABSENT"
          /\ new.limits = used.limits /\ new.turns = used.turns
      BY <1>2, <2>4, <2>5, RunFacts
    <2>7. R!Reached(new.limits.turns, new.turns) => new.state = "FAILED"
      BY <2>5, <2>6 DEF R!Exhausted
    <2>8. \/ state = new.state
          \/ \E d \in Delegations : delegation'[d] # None /\ delegation'[d].parent = r
      BY <1>1, <1>2, <2>4, <2>5, RunFacts
    <2>9. state \in R!LoopState \union {"ABSENT"} /\ total \in Nat
      BY <1>2, RunFacts, LoopStates
    <2> HIDE DEF new, state, total
    <2>10. delegation' \in [Delegations -> R!Delegation \union {None}] /\ DelegationsKept
      BY <1>1 DEF DelegationsKept, RunsInv, R!TypeOK
    <2>11. run' = [run EXCEPT ![r] = new]
      BY <2>1 DEF new
    <2> QED BY <1>1, <1>2, <2>2, <2>3, <2>6, <2>7, <2>8, <2>9, <2>10, <2>11, RunWritten
  <1> QED BY <1>3, <1>4

\* delegate_run inserts the delegation of its run.
LEMMA DelegationInserted ==
    ASSUME RunsInv, NEW c \in Calls, NEW d \in Delegations, runCall[c] # None,
           runCall[c].op \in {"delegate", "block"}, R!Delegated(c, d)
    PROVE  /\ delegation' \in [Delegations -> R!Delegation \union {None}]
           /\ DelegationsKept
           /\ delegation'[d] # None /\ delegation'[d].parent = runCall[c].run
           /\ runCall' = [runCall EXCEPT ![c] = None]
           /\ UNCHANGED spent
  <1> DEFINE new == [parent |-> runCall[c].run, child |-> runCall[c].child,
                     status |-> "PENDING"]
  <1>1. /\ delegation[d] = None /\ delegation' = [delegation EXCEPT ![d] = new]
        /\ runCall' = [runCall EXCEPT ![c] = None] /\ UNCHANGED spent
    BY DEF R!Delegated, R!InsertDelegation, R!Return
  <1>2. new \in R!Delegation
    BY CallOfRun DEF R!Delegation, R!DelegationStatus, RecallsRun
  <1>3. new # None /\ new.parent = runCall[c].run
    BY <1>2, NullAssumption
  <1> HIDE DEF new
  <1> QED BY <1>1, <1>2, <1>3 DEF DelegationsKept, RunsInv, R!TypeOK

\* delegate_run counts the child and makes a running parent wait.
LEMMA AfterDelegateRun ==
    ASSUME RunsInv, NEW c \in Calls, NEW d \in Delegations, R!DelegateRun(c, d)
    PROVE  RunsInv'
  <1> DEFINE q == runCall[c]
             r == q.run
             counted == [run[r] EXCEPT !.children = @ + 1, !.version = @ + 1]
             waits == q.seen.state = "RUNNING"
             new == IF waits THEN R!Moved(counted, "WAITING_CHILD") ELSE counted
             state == IF waits THEN "WAITING_CHILD" ELSE runTold[r]
             turns == spent[r]
  <1>1. /\ q # None /\ q.op = "delegate" /\ R!Fresh(c) /\ R!Delegated(c, d)
        /\ run' = [run EXCEPT ![r] = new]
        /\ runTold' = IF waits THEN [runTold EXCEPT ![r] = "WAITING_CHILD"] ELSE runTold
    BY DEF R!DelegateRun, R!UnderWay, R!Says
  <1>2. /\ r \in Runs /\ run[r] \in R!Row /\ run[r] = q.seen /\ run[r].state # "ABSENT"
        /\ run[r].version \in Nat
    BY <1>1, CallOfRun DEF RecallsRun
  <1>3. /\ counted \in R!Row /\ counted.state = run[r].state
        /\ counted.version = run[r].version + 1
        /\ counted.turns = run[r].turns /\ counted.limits = run[r].limits
    BY <1>2, CountedRow
  <1> HIDE DEF counted
  <1>4. LET moved == R!Moved(counted, "WAITING_CHILD")
        IN  /\ moved \in R!Row /\ moved.state = "WAITING_CHILD"
            /\ moved.version = counted.version + 1
            /\ moved.turns = counted.turns /\ moved.limits = counted.limits
    BY <1>3, MovedRow, LoopStates
  <1>5. /\ new \in R!Row /\ new.version > run[r].version /\ new.state # "ABSENT"
        /\ new.turns = turns /\ new.turns = run[r].turns /\ new.limits = run[r].limits
    BY <1>2, <1>3, <1>4, RunFacts
  <1>6. run[r].state = "FAILED" => new.state = "FAILED"
    BY <1>2, <1>3
  <1>7. turns > 0 /\ R!Reached(new.limits.turns, new.turns) => new.state = "FAILED"
    BY <1>2, <1>5, <1>6, RunFacts
  <1>8. /\ runTold' = [runTold EXCEPT ![r] = state]
        /\ state \in R!LoopState \union {"ABSENT"} /\ turns \in Nat
        /\ spent = [spent EXCEPT ![r] = turns]
    BY <1>1, <1>2, RunFacts, LoopStates
  <1>9. /\ delegation' \in [Delegations -> R!Delegation \union {None}]
        /\ DelegationsKept
        /\ delegation'[d] # None /\ delegation'[d].parent = r
        /\ runCall' = [runCall EXCEPT ![c] = None]
        /\ spent' = [spent EXCEPT ![r] = turns]
    BY <1>1, <1>8, DelegationInserted
  <1>10. run' = [run EXCEPT ![r] = new]
    BY <1>1
  <1> HIDE DEF new, state, turns
  <1> QED BY <1>2, <1>5, <1>7, <1>8, <1>9, <1>10, RunWritten

\* delegate_run after its count was lost.
LEMMA AfterBlockParent ==
    ASSUME RunsInv, NEW c \in Calls, NEW d \in Delegations, R!BlockParent(c, d)
    PROVE  RunsInv'
  <1> DEFINE q == runCall[c]
             r == q.run
             waits == q.seen.state = "RUNNING"
             moved == R!Moved(run[r], "WAITING_CHILD")
             new == IF waits /\ R!Fresh(c) THEN moved ELSE run[r]
             state == IF waits THEN "WAITING_CHILD" ELSE runTold[r]
             turns == spent[r]
  <1>1. /\ q # None /\ q.op = "block" /\ R!Delegated(c, d)
        /\ run' = IF waits /\ R!Fresh(c) THEN [run EXCEPT ![r] = moved] ELSE run
        /\ runTold' = IF waits THEN [runTold EXCEPT ![r] = "WAITING_CHILD"] ELSE runTold
    BY DEF R!BlockParent, R!UnderWay, R!Says
  <1>2. /\ r \in Runs /\ run[r] \in R!Row /\ run[r].state # "ABSENT"
        /\ run[r].version \in Nat
        /\ R!Fresh(c) => run[r] = q.seen
    BY <1>1, CallOfRun DEF RecallsRun
  <1>3. /\ moved \in R!Row /\ moved.state = "WAITING_CHILD"
        /\ moved.version = run[r].version + 1
        /\ moved.turns = run[r].turns /\ moved.limits = run[r].limits
    BY <1>2, MovedRow, LoopStates
  <1> HIDE DEF moved
  <1>4. run' = [run EXCEPT ![r] = new]
    BY <1>1, <1>2, RunFacts
  <1>5. /\ new \in R!Row
        /\ new = run[r] \/ (new.version > run[r].version /\ new.state # "ABSENT")
        /\ new.turns = turns /\ new.turns = run[r].turns /\ new.limits = run[r].limits
    BY <1>2, <1>3, RunFacts
  <1>6. run[r].state = "FAILED" => new.state = "FAILED"
    BY <1>2
  <1>7. turns > 0 /\ R!Reached(new.limits.turns, new.turns) => new.state = "FAILED"
    BY <1>2, <1>5, <1>6, RunFacts
  <1>8. /\ runTold' = [runTold EXCEPT ![r] = state]
        /\ state \in R!LoopState \union {"ABSENT"} /\ turns \in Nat
        /\ spent = [spent EXCEPT ![r] = turns]
    BY <1>1, <1>2, RunFacts, LoopStates
  <1>9. /\ delegation' \in [Delegations -> R!Delegation \union {None}]
        /\ DelegationsKept
        /\ delegation'[d] # None /\ delegation'[d].parent = r
        /\ runCall' = [runCall EXCEPT ![c] = None]
        /\ spent' = [spent EXCEPT ![r] = turns]
    BY <1>1, <1>8, DelegationInserted
  <1> HIDE DEF new, state, turns
  <1> QED BY <1>2, <1>4, <1>5, <1>7, <1>8, <1>9, RunWritten

\* transition_delegation commits, and releases the parent it found waiting.
LEMMA AfterReleaseParent ==
    ASSUME RunsInv, NEW c \in Calls, R!ReleaseParent(c)
    PROVE  RunsInv'
  <1> DEFINE q == runCall[c]
             r == q.run
             d == q.delegation
             releases == q.seen.state = "WAITING_CHILD"
             moved == R!Moved(run[r], "RUNNING")
             new == IF releases /\ R!Fresh(c) THEN moved ELSE run[r]
             state == IF releases THEN "RUNNING" ELSE runTold[r]
             turns == spent[r]
  <1>1. /\ q # None /\ q.op = "release"
        /\ delegation' = [delegation EXCEPT ![d].status = q.target]
        /\ run' = IF releases /\ R!Fresh(c) THEN [run EXCEPT ![r] = moved] ELSE run
        /\ runTold' = IF releases THEN [runTold EXCEPT ![r] = "RUNNING"] ELSE runTold
        /\ runCall' = [runCall EXCEPT ![c] = None] /\ UNCHANGED spent
    BY DEF R!ReleaseParent, R!UnderWay, R!Says, R!Return
  <1>2. /\ r \in Runs /\ run[r] \in R!Row /\ run[r].state # "ABSENT"
        /\ run[r].version \in Nat
        /\ releases /\ R!Fresh(c) => run[r] = q.seen
        /\ d \in Delegations /\ delegation[d] # None /\ delegation[d].parent = r
        /\ q.target \in R!DelegationStatus
    BY <1>1, CallOfRun DEF RecallsRun
  <1>3. /\ moved \in R!Row /\ moved.state = "RUNNING"
        /\ moved.version = run[r].version + 1
        /\ moved.turns = run[r].turns /\ moved.limits = run[r].limits
    BY <1>2, MovedRow, LoopStates
  <1> HIDE DEF moved
  <1>4. run' = [run EXCEPT ![r] = new]
    BY <1>1, <1>2, RunFacts
  <1>5. /\ new \in R!Row
        /\ new = run[r] \/ (new.version > run[r].version /\ new.state # "ABSENT")
        /\ new.turns = turns /\ new.turns = run[r].turns /\ new.limits = run[r].limits
    BY <1>2, <1>3, RunFacts
  <1>6. run[r].state = "FAILED" => new.state = "FAILED"
    BY <1>2
  <1>7. turns > 0 /\ R!Reached(new.limits.turns, new.turns) => new.state = "FAILED"
    BY <1>2, <1>5, <1>6, RunFacts
  <1>8. /\ runTold' = [runTold EXCEPT ![r] = state]
        /\ state \in R!LoopState \union {"ABSENT"} /\ turns \in Nat
        /\ spent' = [spent EXCEPT ![r] = turns]
    BY <1>1, <1>2, RunFacts, LoopStates
  <1>9. /\ delegation' \in [Delegations -> R!Delegation \union {None}]
        /\ DelegationsKept
        /\ delegation'[d] # None /\ delegation'[d].parent = r
    <2>1. delegation[d] \in R!Delegation
      BY <1>2 DEF RunsInv, R!TypeOK
    <2>2. /\ [delegation[d] EXCEPT !.status = q.target] \in R!Delegation
          /\ [delegation[d] EXCEPT !.status = q.target].parent = r
      BY <1>2, <2>1 DEF R!Delegation
    <2>3. [delegation[d] EXCEPT !.status = q.target] # None
      BY <2>2, NullAssumption
    <2> QED BY <1>1, <1>2, <2>2, <2>3 DEF DelegationsKept, RunsInv, R!TypeOK
  <1>10. /\ r \in Runs /\ runCall' = [runCall EXCEPT ![c] = None]
         /\ \E e \in Delegations : delegation'[e] # None /\ delegation'[e].parent = r
    BY <1>1, <1>2, <1>9
  <1> HIDE DEF new, state, turns
  <1> QED BY <1>4, <1>5, <1>7, <1>8, <1>9, <1>10, RunWritten

\* delegate_run reads a running parent again.
LEMMA AfterCountLost ==
    ASSUME RunsInv, NEW c \in Calls, R!CountLost(c)
    PROVE  RunsInv'
  <1> DEFINE q == runCall[c]
             seen == IF q.seen.state = "RUNNING" THEN run[q.run] ELSE q.seen
             n == [q EXCEPT !.op = "block", !.seen = seen]
  <1>1. /\ q # None /\ q.op = "delegate"
        /\ runCall' = [runCall EXCEPT ![c] = n] /\ UNCHANGED <<run, delegation, runTold, spent>>
    <2>1. q # None /\ q.op = "delegate" /\ UNCHANGED <<run, delegation, runTold, spent>>
      BY DEF R!CountLost, R!UnderWay
    <2>2. runCall' = [runCall EXCEPT ![c].op = "block",
                        ![c].seen = IF @.state = "RUNNING" THEN run[runCall[c].run] ELSE @]
      BY DEF R!CountLost
    <2>3. runCall \in [Calls -> R!Call \union {None}] /\ q \in R!Call
      BY <2>1 DEF RunsInv, R!TypeOK
    <2> QED BY <2>1, <2>2, <2>3 DEF R!Call
  <1>2. /\ q \in R!Call /\ seen \in R!Row /\ RecallsRun(q, run, delegation)
    BY <1>1, CallOfRun
  <1>3. /\ q.run \in Runs /\ run[q.run].version \in Nat /\ run[q.run].state # "ABSENT"
        /\ q.seen.state # "ABSENT" /\ q.seen.version <= run[q.run].version
        /\ q.seen.version = run[q.run].version => q.seen = run[q.run]
        /\ q.child \in Runs
    BY <1>1, CallOfRun DEF RecallsRun
  <1>4. /\ seen.state # "ABSENT" /\ seen.version <= run[q.run].version
        /\ seen.version = run[q.run].version => seen = run[q.run]
    BY <1>3
  <1> HIDE DEF seen
  <1>5. /\ n \in R!Call /\ n.op = "block" /\ n.seen = seen /\ n.run = q.run
        /\ n.child = q.child
    BY <1>2 DEF R!Call
  <1> HIDE DEF n
  <1>6. RecallsRun(n, run, delegation)
    BY <1>3, <1>4, <1>5 DEF RecallsRun
  <1> QED BY <1>1, <1>5, <1>6, RunReads

\* transition_delegation reads the parent after it has locked the delegation.
LEMMA AfterWriteDelegation ==
    ASSUME RunsInv, NEW c \in Calls, R!WriteDelegation(c)
    PROVE  RunsInv'
  <1> DEFINE q == runCall[c]
             d == q.delegation
             releases == /\ q.target \in R!DelegationTerminal
                         /\ run[q.run].state = "WAITING_CHILD"
                         /\ \A e \in R!Siblings(d) : ~R!Open(e)
             seen == IF releases THEN run[q.run] ELSE R!AbsentRow
             n == [q EXCEPT !.op = "release", !.seen = seen]
  <1>1. /\ q # None /\ q.op = "settle"
        /\ runCall' = [runCall EXCEPT ![c] = n] /\ UNCHANGED <<run, delegation, runTold, spent>>
    <2>1. /\ q # None /\ q.op = "settle" /\ UNCHANGED <<run, delegation, runTold, spent>>
          /\ runCall' = [runCall EXCEPT ![c].op = "release", ![c].seen = seen]
      BY Zenon DEF R!WriteDelegation, R!UnderWay
    <2>2. runCall \in [Calls -> R!Call \union {None}] /\ q \in R!Call
      BY <2>1 DEF RunsInv, R!TypeOK
    <2> HIDE DEF seen
    <2> QED BY <2>1, <2>2 DEF R!Call
  <1>2. /\ q \in R!Call /\ RecallsRun(q, run, delegation)
        /\ q.run \in Runs /\ run[q.run].version \in Nat /\ run[q.run].state # "ABSENT"
        /\ run[q.run] \in R!Row
    BY <1>1, CallOfRun
  <1>3. R!AbsentRow \in R!Row /\ R!AbsentRow.state = "ABSENT"
    BY DEF R!AbsentRow, R!Row, R!Unlimited, R!Limit
  <1>4. /\ seen \in R!Row
        /\ seen.state # "ABSENT" => seen = run[q.run]
    BY <1>2, <1>3
  <1> HIDE DEF seen, releases
  <1>5. /\ n \in R!Call /\ n.op = "release" /\ n.seen = seen /\ n.run = q.run
        /\ n.delegation = q.delegation /\ n.target = q.target
    BY <1>2, <1>4 DEF R!Call
  <1> HIDE DEF n
  <1>6. RecallsRun(n, run, delegation)
    BY <1>1, <1>2, <1>4, <1>5 DEF RecallsRun
  <1> QED BY <1>1, <1>5, <1>6, RunReads

\* create_run inserts a row no command under way has read.
LEMMA AfterCreateRun ==
    ASSUME RunsInv, NEW r \in Runs, NEW parent \in Runs \union {None}, NEW limits \in Limits,
           R!CreateRun(r, parent, limits)
    PROVE  RunsInv'
  <1> DEFINE given == IF parent = None THEN limits ELSE R!Inherit(run[parent].limits, limits)
             new == [R!AbsentRow EXCEPT !.state = "CREATED", !.limits = given]
  <1>1. /\ run[r].state = "ABSENT" /\ run' = [run EXCEPT ![r] = new]
        /\ runTold' = [runTold EXCEPT ![r] = "CREATED"]
        /\ UNCHANGED <<delegation, spent, runCall>>
    BY DEF R!CreateRun, R!InsertRun, R!Says
  <1>2. given \in R!Limit
    <2>1. limits \in R!Limit
      BY RunsAssumption DEF R!Limit
    <2>2. CASE parent # None
      <3>1. run[parent].limits \in R!Limit
        BY <2>2 DEF RunsInv, R!TypeOK, R!Row
      <3>2. \A x, y \in Nat \union {None} : R!Tighter(x, y) \in Nat \union {None}
        BY DEF R!Tighter
      <3> QED BY <2>1, <2>2, <3>1, <3>2 DEF R!Inherit, R!Limit
    <2> QED BY <2>1, <2>2
  <1> HIDE DEF given
  <1>3. new \in R!Row /\ new.state = "CREATED" /\ new.turns = 0
    BY <1>2, LoopStates DEF R!AbsentRow, R!Row
  <1> HIDE DEF new
  <1>4. R!TypeOK'
    BY <1>1, <1>3, LoopStates DEF RunsInv, R!TypeOK
  <1>5. /\ run'[r] = new /\ runTold'[r] = "CREATED"
        /\ \A s \in Runs : s # r => run'[s] = run[s] /\ runTold'[s] = runTold[s]
    BY <1>1 DEF RunsInv, R!TypeOK
  <1>6. RunCommandsTrue'
    <2>1. RunsGrow /\ DelegationsKept
      BY <1>1, <1>5 DEF RunsGrow, DelegationsKept
    <2> SUFFICES ASSUME NEW b \in Calls, runCall[b] # None
                 PROVE  RecallsRun(runCall[b], run', delegation')
      BY <1>1 DEF RunCommandsTrue
    <2>2. runCall[b] \in R!Call /\ RecallsRun(runCall[b], run, delegation)
      BY CallOfRun
    <2> QED BY <1>4, <2>1, <2>2, StillRecalls
  <1>7. R!UsageExact' /\ Unspent'
    BY <1>1, <1>3, <1>5 DEF RunsInv, R!UsageExact, Unspent
  <1>8. R!ExhaustedFailed'
    <2> SUFFICES ASSUME NEW s \in Runs, spent[s] > 0,
                        R!Reached(run'[s].limits.turns, run'[s].turns)
                 PROVE  run'[s].state = "FAILED"
      BY <1>1 DEF R!ExhaustedFailed, R!Reached
    <2>1. s # r
      BY <1>1 DEF RunsInv, Unspent
    <2> QED BY <1>5, <2>1 DEF RunsInv, R!ExhaustedFailed
  <1>9. R!RunToldTruthfully'
    BY <1>1, <1>3, <1>5 DEF RunsInv, R!RunToldTruthfully, R!Children
  <1> QED BY <1>4, <1>6, <1>7, <1>8, <1>9 DEF RunsInv

\* The reads of all commands: what is remembered has passed the checks.
LEMMA AfterRunRead ==
    ASSUME RunsInv, NEW c \in Calls, R!Read(c)
    PROVE  RunsInv'
  <1>1. ASSUME NEW n, n \in R!Call, n.run \in Runs, n.seen = run[n.run], R!Issue(c, n),
               n.op \in {"transition", "usage", "delegate", "settle"},
               n.op = "transition" =>
                   n.target \in R!LoopState /\ <<n.seen.state, n.target>> \in R!LoopMoves,
               n.op = "delegate" => n.child \in Runs,
               n.op = "settle" =>
                   /\ n.delegation \in Delegations
                   /\ delegation[n.delegation] # None
                   /\ delegation[n.delegation].parent = n.run
                   /\ n.target \in R!DelegationStatus
        PROVE  RunsInv'
    <2>1. /\ runCall' = [runCall EXCEPT ![c] = n] /\ n.seen.state # "ABSENT"
          /\ UNCHANGED <<run, delegation, runTold, spent>>
      BY <1>1 DEF R!Issue
    <2>2. run[n.run].version \in Nat
      BY <1>1 DEF RunsInv, R!TypeOK, R!Row
    <2>3. RecallsRun(n, run, delegation)
      BY <1>1, <2>1, <2>2 DEF RecallsRun
    <2> QED BY <1>1, <2>1, <2>3, RunReads
  <1>2. \A r \in Runs : run[r] \in R!Row
    BY DEF RunsInv, R!TypeOK
  <1>3. ASSUME NEW r \in Runs, NEW target \in Targets, R!ReadTransition(c, r, target)
        PROVE  RunsInv'
    <2> DEFINE n == [R!NoCall(r) EXCEPT !.target = target]
    <2>1. target \in R!LoopState
      BY RunsAssumption DEF LoopState, R!LoopState, LoopWaiting, R!LoopWaiting,
                            LoopTerminal, R!LoopTerminal
    <2>2. /\ n \in R!Call /\ n.run = r /\ n.seen = run[r] /\ n.op = "transition"
          /\ n.target = target
      BY <1>2, <2>1 DEF R!NoCall, R!Call, R!Command
    <2>3. R!Issue(c, n) /\ <<run[r].state, target>> \in R!LoopMoves
      BY <1>3 DEF R!ReadTransition
    <2> HIDE DEF n
    <2> QED BY <1>1, <2>1, <2>2, <2>3
  <1>4. ASSUME NEW r \in Runs, NEW delta \in Deltas, R!ReadUsage(c, r, delta)
        PROVE  RunsInv'
    <2> DEFINE n == [R!NoCall(r) EXCEPT !.op = "usage", !.delta = delta]
    <2>1. delta \in Nat
      BY RunsAssumption
    <2>2. n \in R!Call /\ n.run = r /\ n.seen = run[r] /\ n.op = "usage"
      BY <1>2, <2>1 DEF R!NoCall, R!Call, R!Command
    <2>3. R!Issue(c, n)
      BY <1>4 DEF R!ReadUsage
    <2> HIDE DEF n
    <2> QED BY <1>1, <2>2, <2>3
  <1>5. ASSUME NEW r \in Runs, NEW child \in Runs, R!ReadDelegate(c, r, child)
        PROVE  RunsInv'
    <2> DEFINE n == [R!NoCall(r) EXCEPT !.op = "delegate", !.child = child]
    <2>1. n \in R!Call /\ n.run = r /\ n.seen = run[r] /\ n.op = "delegate" /\ n.child = child
      BY <1>2 DEF R!NoCall, R!Call, R!Command
    <2>2. R!Issue(c, n)
      BY <1>5 DEF R!ReadDelegate
    <2> HIDE DEF n
    <2> QED BY <1>1, <2>1, <2>2
  <1>6. ASSUME NEW d \in Delegations, NEW target \in R!DelegationStatus,
               R!ReadSettle(c, d, target)
        PROVE  RunsInv'
    <2> DEFINE r == delegation[d].parent
               n == [R!NoCall(r) EXCEPT !.op = "settle", !.delegation = d, !.target = target]
    <2>1. delegation[d] # None /\ R!Issue(c, n)
      BY <1>6 DEF R!ReadSettle
    <2>2. r \in Runs
      BY <2>1 DEF RunsInv, R!TypeOK, R!Delegation
    <2> HIDE DEF r
    <2>3. /\ n \in R!Call /\ n.run = r /\ n.seen = run[r] /\ n.op = "settle"
          /\ n.delegation = d /\ n.target = target
      BY <1>2, <2>2 DEF R!NoCall, R!Call, R!Command
    <2> HIDE DEF n
    <2>4. delegation[n.delegation].parent = n.run
      BY <2>3 DEF r
    <2> QED BY <1>1, <2>1, <2>2, <2>3, <2>4
  <1> QED BY <1>3, <1>4, <1>5, <1>6 DEF R!Read

\* The tables of runs are empty at first.
LEMMA RunsInit == R!Init => RunsInv
  <1> SUFFICES ASSUME R!Init PROVE RunsInv
    OBVIOUS
  <1>1. R!AbsentRow \in R!Row
    BY DEF R!AbsentRow, R!Row, R!Unlimited, R!Limit
  <1>2. R!TypeOK
    BY <1>1 DEF R!Init, R!TypeOK
  <1> QED BY <1>2 DEF R!Init, R!AbsentRow, RunsInv, RunCommandsTrue, Unspent, R!UsageExact,
             R!ExhaustedFailed, R!RunToldTruthfully

\* Every step on runs keeps their invariant.
LEMMA RunsStep == RunsInv /\ [R!Next]_runVars => RunsInv'
  <1> SUFFICES ASSUME RunsInv, [R!Next]_runVars PROVE RunsInv'
    OBVIOUS
  <1>1. CASE UNCHANGED runVars
    BY <1>1 DEF runVars, RunsInv, R!TypeOK, RunCommandsTrue, Unspent, R!UsageExact,
                R!ExhaustedFailed, R!RunToldTruthfully, R!Children
  <1>2. ASSUME NEW r \in Runs, NEW parent \in Runs \union {None}, NEW limits \in Limits,
               R!CreateRun(r, parent, limits)
        PROVE  RunsInv'
    BY <1>2, AfterCreateRun
  <1>3. ASSUME NEW c \in Calls, R!Read(c) PROVE RunsInv'
    BY <1>3, AfterRunRead
  <1>4. ASSUME NEW c \in Calls, R!Write(c) PROVE RunsInv'
    BY <1>4, AfterTransitionRun, AfterRecordUsage, AfterCountLost, AfterDelegateRun,
       AfterBlockParent, AfterWriteDelegation, AfterReleaseParent DEF R!Write
  <1>5. ASSUME NEW c \in Calls, R!GiveUp(c) PROVE RunsInv'
    BY <1>5, RunReads DEF R!GiveUp, R!Return
  <1> QED BY <1>1, <1>2, <1>3, <1>4, <1>5 DEF R!Next

-----------------------------------------------------------------------------
(* The moves of the runs *)

\* The change a step makes to run r: what RunsAlongLifecycle says of it.
RunMove(r) ==
    LET s == run[r].state
        n == run'[r].state
    IN  \/ s \in {n, "ABSENT"}
        \/ <<s, n>> \in R!LoopMoves
        \/ n = "FAILED" /\ R!Exhausted(run'[r])

\* A step that writes one run is judged by what it does to that one.
LEMMA RunOfMove ==
    ASSUME RunsInv, NEW r \in Runs, NEW new, run' = [run EXCEPT ![r] = new],
           \/ new.state = run[r].state
           \/ run[r].state = "ABSENT"
           \/ <<run[r].state, new.state>> \in R!LoopMoves
           \/ new.state = "FAILED" /\ R!Exhausted(new)
    PROVE  \A s \in Runs : RunMove(s)
  <1> SUFFICES ASSUME NEW s \in Runs PROVE RunMove(s)
    OBVIOUS
  <1>1. CASE s = r
    <2>1. run'[s] = new
      BY <1>1 DEF RunsInv, R!TypeOK
    <2> QED BY <1>1, <2>1 DEF RunMove
  <1>2. CASE s # r
    BY <1>2 DEF RunsInv, R!TypeOK, RunMove
  <1> QED BY <1>1, <1>2

\* The moves delegations make.
LEMMA DelegationLoopMoves ==
    <<"RUNNING", "WAITING_CHILD">> \in R!LoopMoves /\ <<"WAITING_CHILD", "RUNNING">> \in R!LoopMoves
  BY DEF R!LoopMoves, R!LoopWaiting, R!LoopTerminal, R!Moves

\* transition_run makes the move it checked.
LEMMA TransitionRunMoves ==
    ASSUME RunsInv, NEW c \in Calls, R!TransitionRun(c)
    PROVE  \A s \in Runs : RunMove(s)
  <1> DEFINE q == runCall[c]
             new == R!Moved(q.seen, q.target)
  <1>1. q # None /\ q.op = "transition"
    BY DEF R!TransitionRun, R!UnderWay
  <1>2. CASE ~R!Fresh(c)
    BY <1>2 DEF R!TransitionRun, RunMove
  <1>3. CASE R!Fresh(c)
    <2>1. run' = [run EXCEPT ![q.run] = new]
      BY <1>3 DEF R!TransitionRun
    <2>2. /\ q.run \in Runs /\ q.seen \in R!Row /\ run[q.run] = q.seen
          /\ q.target \in R!LoopState /\ <<q.seen.state, q.target>> \in R!LoopMoves
      BY <1>1, <1>3, CallOfRun DEF RecallsRun
    <2>3. new.state = q.target
      BY <2>2, MovedRow
    <2> HIDE DEF new
    <2> QED BY <2>1, <2>2, <2>3, RunOfMove
  <1> QED BY <1>2, <1>3

\* record_run_budget_usage moves only a run whose budget it finds exhausted.
LEMMA RecordUsageMoves ==
    ASSUME RunsInv, NEW c \in Calls, R!RecordUsage(c)
    PROVE  \A s \in Runs : RunMove(s)
  <1> DEFINE q == runCall[c]
             used == R!Used(q.seen, q.delta)
             fails == R!Exhausted(used) /\ used.state # "FAILED"
             failed == R!Moved(used, "FAILED")
             new == IF fails THEN failed ELSE used
  <1>1. q # None /\ q.op = "usage"
    BY DEF R!RecordUsage, R!UnderWay
  <1>2. CASE ~R!Fresh(c)
    BY <1>2 DEF R!RecordUsage, RunMove
  <1>3. CASE R!Fresh(c)
    <2>1. run' = [run EXCEPT ![q.run] = new]
      BY <1>3, Zenon DEF R!RecordUsage
    <2>2. /\ q.run \in Runs /\ q.seen \in R!Row /\ run[q.run] = q.seen /\ q.delta \in Nat
      BY <1>1, <1>3, CallOfRun DEF RecallsRun, R!Call
    <2>3. used \in R!Row /\ used.state = run[q.run].state
      BY <2>2, UsedRow
    <2>4. /\ failed.state = "FAILED" /\ failed.turns = used.turns
          /\ failed.children = used.children /\ failed.limits = used.limits
      BY <2>3, MovedRow, LoopStates
    <2> HIDE DEF used, failed
    <2>5. R!Exhausted(used) => R!Exhausted(failed)
      BY <2>4 DEF R!Exhausted
    <2>6. new.state = run[q.run].state \/ (new.state = "FAILED" /\ R!Exhausted(new))
      BY <2>3, <2>4, <2>5
    <2> HIDE DEF new
    <2> QED BY <2>1, <2>2, <2>6, RunOfMove
  <1> QED BY <1>2, <1>3

\* delegate_run makes a running parent wait and leaves every other as it is.
LEMMA DelegateRunMoves ==
    ASSUME RunsInv, NEW c \in Calls, NEW d \in Delegations, R!DelegateRun(c, d)
    PROVE  \A s \in Runs : RunMove(s)
  <1> DEFINE q == runCall[c]
             r == q.run
             counted == [run[r] EXCEPT !.children = @ + 1, !.version = @ + 1]
             waiting == R!Moved(counted, "WAITING_CHILD")
             new == IF q.seen.state = "RUNNING" THEN waiting ELSE counted
  <1>1. /\ q # None /\ q.op = "delegate" /\ R!Fresh(c)
        /\ run' = [run EXCEPT ![r] = new]
    BY DEF R!DelegateRun, R!UnderWay
  <1>2. r \in Runs /\ run[r] \in R!Row /\ run[r] = q.seen
    BY <1>1, CallOfRun DEF RecallsRun
  <1>3. counted \in R!Row /\ counted.state = run[r].state
    BY <1>2, CountedRow
  <1> HIDE DEF counted
  <1>4. waiting.state = "WAITING_CHILD"
    BY <1>3, MovedRow, LoopStates
  <1> HIDE DEF waiting
  <1>5. new.state = run[r].state \/ <<run[r].state, new.state>> \in R!LoopMoves
    BY <1>2, <1>3, <1>4, DelegationLoopMoves
  <1> HIDE DEF new
  <1> QED BY <1>1, <1>2, <1>5, RunOfMove

\* So it does when it had to read the parent again.
LEMMA BlockParentMoves ==
    ASSUME RunsInv, NEW c \in Calls, NEW d \in Delegations, R!BlockParent(c, d)
    PROVE  \A s \in Runs : RunMove(s)
  <1> DEFINE q == runCall[c]
             r == q.run
             moved == R!Moved(run[r], "WAITING_CHILD")
  <1>1. /\ q # None /\ q.op = "block"
        /\ run' = IF q.seen.state = "RUNNING" /\ R!Fresh(c) THEN [run EXCEPT ![r] = moved]
                  ELSE run
    BY DEF R!BlockParent, R!UnderWay
  <1>2. CASE q.seen.state = "RUNNING" /\ R!Fresh(c)
    <2>1. r \in Runs /\ run[r] \in R!Row /\ run[r] = q.seen
      BY <1>1, <1>2, CallOfRun
    <2>2. moved.state = "WAITING_CHILD"
      BY <2>1, MovedRow, LoopStates
    <2>3. run' = [run EXCEPT ![r] = moved]
      BY <1>1, <1>2
    <2> HIDE DEF moved
    <2>4. <<run[r].state, moved.state>> \in R!LoopMoves
      BY <1>2, <2>1, <2>2, DelegationLoopMoves
    <2> QED BY <2>1, <2>3, <2>4, RunOfMove
  <1>3. CASE ~(q.seen.state = "RUNNING" /\ R!Fresh(c))
    BY <1>1, <1>3 DEF RunMove
  <1> QED BY <1>2, <1>3

\* transition_delegation releases a parent only while it waits.
LEMMA ReleaseParentMoves ==
    ASSUME RunsInv, NEW c \in Calls, R!ReleaseParent(c)
    PROVE  \A s \in Runs : RunMove(s)
  <1> DEFINE q == runCall[c]
             r == q.run
             moved == R!Moved(run[r], "RUNNING")
  <1>1. /\ q # None /\ q.op = "release"
        /\ run' = IF q.seen.state = "WAITING_CHILD" /\ R!Fresh(c)
                  THEN [run EXCEPT ![r] = moved] ELSE run
    BY DEF R!ReleaseParent, R!UnderWay
  <1>2. CASE q.seen.state = "WAITING_CHILD" /\ R!Fresh(c)
    <2>1. r \in Runs /\ run[r] \in R!Row /\ run[r] = q.seen
      BY <1>1, <1>2, CallOfRun
    <2>2. moved.state = "RUNNING"
      BY <2>1, MovedRow, LoopStates
    <2>3. run' = [run EXCEPT ![r] = moved]
      BY <1>1, <1>2
    <2> HIDE DEF moved
    <2>4. <<run[r].state, moved.state>> \in R!LoopMoves
      BY <1>2, <2>1, <2>2, DelegationLoopMoves
    <2> QED BY <2>1, <2>3, <2>4, RunOfMove
  <1>3. CASE ~(q.seen.state = "WAITING_CHILD" /\ R!Fresh(c))
    BY <1>1, <1>3 DEF RunMove
  <1> QED BY <1>2, <1>3

\* Every step moves the runs along their lifecycle.
LEMMA RunsMove ==
    ASSUME RunsInv, [R!Next]_runVars
    PROVE  \A r \in Runs : RunMove(r)
  <1>1. ASSUME NEW r \in Runs, NEW parent \in Runs \union {None}, NEW limits \in Limits,
               R!CreateRun(r, parent, limits)
        PROVE  \A s \in Runs : RunMove(s)
    <2> DEFINE new == run'[r]
    <2>1. run[r].state = "ABSENT" /\ \A s \in Runs : s # r => run'[s] = run[s]
      BY <1>1 DEF R!CreateRun, R!InsertRun, RunsInv, R!TypeOK
    <2> QED BY <2>1 DEF RunMove
  <1>2. ASSUME NEW c \in Calls, R!Read(c) PROVE \A r \in Runs : RunMove(r)
    BY <1>2 DEF R!Read, R!ReadTransition, R!ReadUsage, R!ReadDelegate, R!ReadSettle, R!Issue,
                RunMove
  <1>3. ASSUME NEW c \in Calls, R!Write(c) PROVE \A r \in Runs : RunMove(r)
    <2>1. R!CountLost(c) \/ R!WriteDelegation(c) => UNCHANGED run
      BY DEF R!CountLost, R!WriteDelegation
    <2>2. UNCHANGED run => \A r \in Runs : RunMove(r)
      BY DEF RunMove
    <2> QED BY <1>3, <2>1, <2>2, TransitionRunMoves, RecordUsageMoves, DelegateRunMoves,
               BlockParentMoves, ReleaseParentMoves DEF R!Write
  <1>4. ASSUME UNCHANGED run PROVE \A r \in Runs : RunMove(r)
    BY <1>4 DEF RunMove
  <1> QED BY <1>1, <1>2, <1>3, <1>4 DEF R!Next, R!GiveUp, runVars

-----------------------------------------------------------------------------
(* Sessions, workflows and steps *)

\* What a command under way remembers of its row was true when it was read, and still is if
\* the version is the same; and the command passed its checks on it.
RecallsRow(q, rows) ==
    /\ rows[q.id].state # "ABSENT"
    /\ q.seen.version <= rows[q.id].version
    /\ q.seen.version = rows[q.id].version => q.seen = rows[q.id]
    /\ q.target # None => <<q.seen.state, q.target>> \in W!LifecycleOf(q.id)
    /\ q.target = None => q.id \in Workflows /\ W!Schedulable(q.seen.state)

RowCommandsTrue == \A c \in Calls : rowCall[c] # None => RecallsRow(rowCall[c], row)

\* A step id without a place is a row that was never inserted, and the workflow of a step
\* that has one is there.
StepsPlaced ==
    \A s \in Steps :
        IF place[s] = None THEN row[s].state = "ABSENT"
        ELSE row[place[s].workflow].state # "ABSENT"

\* The inductive invariant of the workflows.
WorkflowsInv == W!TypeOK /\ RowCommandsTrue /\ StepsPlaced /\ W!OneStepPerNode

\* The ids of sessions, workflows and steps are apart, and the row of each is typed.
LEMMA RowKinds ==
    /\ \A w \in Workflows : w \notin Sessions /\ w \notin Steps /\ w \in W!Ids
    /\ \A s \in Steps : s \notin Sessions /\ s \notin Workflows /\ s \in W!Ids
    /\ \A x \in Sessions : x \notin Workflows /\ x \notin Steps /\ x \in W!Ids
    /\ \A x \in W!Ids : x \in Sessions \/ x \in Workflows \/ x \in Steps
    /\ \A x \in Sessions : W!LifecycleOf(x) = W!SessionMoves
    /\ \A w \in Workflows : W!LifecycleOf(w) = W!WorkflowMoves
    /\ \A s \in Steps : W!LifecycleOf(s) = W!StepMoves
  <1>1. /\ \A w \in Workflows : w \notin Sessions /\ w \notin Steps /\ w \in W!Ids
        /\ \A s \in Steps : s \notin Sessions /\ s \notin Workflows /\ s \in W!Ids
        /\ \A x \in Sessions : x \notin Workflows /\ x \notin Steps /\ x \in W!Ids
        /\ \A x \in W!Ids : x \in Sessions \/ x \in Workflows \/ x \in Steps
    BY WorkflowsAssumption DEF W!Ids
  <1> QED BY <1>1 DEF W!LifecycleOf

\* The lifecycle of sessions leads to its states, not from ABSENT, and not out of its end.
LEMMA SessionLifecycle ==
    \A s, n : <<s, n>> \in W!SessionMoves =>
        n \in W!SessionState /\ s # "ABSENT" /\ s # "ARCHIVED"
  BY DEF W!SessionMoves, W!SessionState, W!Moves

\* The same of workflows; nothing leads back to where a workflow may be scheduled.
LEMMA WorkflowLifecycle ==
    \A s, n : <<s, n>> \in W!WorkflowMoves =>
        /\ n \in W!WorkflowState /\ s # "ABSENT" /\ s \notin W!WorkflowTerminal
        /\ W!Schedulable(n) => W!Schedulable(s)
  BY DEF W!WorkflowMoves, W!WorkflowState, W!WorkflowTerminal, W!Moves, W!Schedulable

\* The same of steps.
LEMMA StepLifecycle ==
    \A s, n : <<s, n>> \in W!StepMoves =>
        n \in W!StepState /\ s # "ABSENT" /\ s \notin W!StepTerminal
  BY DEF W!StepMoves, W!StepState, W!StepTerminal, W!Moves

\* No state of a row is "ABSENT", or SQL NULL.
LEMMA RowStates ==
    /\ "ABSENT" \notin W!SessionState \union W!WorkflowState \union W!StepState
    /\ None \notin W!SessionState \union W!WorkflowState \union W!StepState
  <1>1. None \notin W!SessionState \union W!WorkflowState \union W!StepState
    BY WorkflowsAssumption DEF SessionState, WorkflowState, WorkflowTerminal, StepState,
       StepTerminal, W!SessionState, W!WorkflowState, W!WorkflowTerminal, W!StepState,
       W!StepTerminal
  <1> QED BY <1>1 DEF W!SessionState, W!WorkflowState, W!WorkflowTerminal, W!StepState,
             W!StepTerminal

\* A row that is there is left alone by a step, or gets a higher version.
TableGrows ==
    \A x \in W!Ids : row[x].state # "ABSENT" =>
        row'[x] = row[x] \/ (row'[x].version > row[x].version /\ row'[x].state # "ABSENT")

\* A step that writes ends at most the command it belongs to.
CallsEnd ==
    rowCall' = rowCall \/ \E c \in Calls : rowCall' = [rowCall EXCEPT ![c] = None]

\* Then every command under way still remembers its row.
LEMMA CommandsStayTrue ==
    ASSUME WorkflowsInv, W!TypeOK', TableGrows, CallsEnd
    PROVE  RowCommandsTrue'
  <1> SUFFICES ASSUME NEW b \in Calls, rowCall'[b] # None
               PROVE  RecallsRow(rowCall'[b], row')
    BY DEF RowCommandsTrue
  <1> DEFINE q == rowCall[b]
  <1>1. rowCall'[b] = q
    BY DEF WorkflowsInv, W!TypeOK, CallsEnd
  <1>2. q \in W!Call /\ RecallsRow(q, row)
    BY <1>1 DEF WorkflowsInv, W!TypeOK, RowCommandsTrue
  <1>3. q.id \in W!Ids /\ q.seen.version \in Nat
    BY <1>2 DEF W!Call, W!Row
  <1>4. row[q.id].version \in Nat /\ row'[q.id].version \in Nat
    BY <1>3 DEF WorkflowsInv, W!TypeOK, W!Row
  <1>5. /\ row[q.id].state # "ABSENT" /\ q.seen.version <= row[q.id].version
        /\ q.seen.version = row[q.id].version => q.seen = row[q.id]
    BY <1>2 DEF RecallsRow
  <1>6. row'[q.id] = row[q.id]
        \/ (row'[q.id].version > row[q.id].version /\ row'[q.id].state # "ABSENT")
    BY <1>3, <1>5 DEF TableGrows
  <1>7. /\ row'[q.id].state # "ABSENT" /\ q.seen.version <= row'[q.id].version
        /\ q.seen.version = row'[q.id].version => q.seen = row'[q.id]
    BY <1>3, <1>4, <1>5, <1>6
  <1> HIDE DEF q
  <1> QED BY <1>1, <1>2, <1>7 DEF RecallsRow

\* What a command under way knows of its row.
LEMMA CallOfRow ==
    ASSUME WorkflowsInv, NEW c \in Calls, rowCall[c] # None
    PROVE  /\ rowCall[c] \in W!Call
           /\ rowCall[c].id \in W!Ids
           /\ row[rowCall[c].id] \in W!Row
           /\ row[rowCall[c].id].version \in Nat
           /\ row[rowCall[c].id].state # "ABSENT"
           /\ W!Fresh(c) => rowCall[c].seen = row[rowCall[c].id]
           /\ rowCall[c].target # None =>
                <<rowCall[c].seen.state, rowCall[c].target>> \in W!LifecycleOf(rowCall[c].id)
           /\ rowCall[c].target = None =>
                rowCall[c].id \in Workflows /\ W!Schedulable(rowCall[c].seen.state)
  <1>1. rowCall[c] \in W!Call /\ RecallsRow(rowCall[c], row)
    BY DEF WorkflowsInv, W!TypeOK, RowCommandsTrue
  <1>2. rowCall[c].id \in W!Ids
    BY <1>1 DEF W!Call
  <1>3. row[rowCall[c].id] \in W!Row
    BY <1>2 DEF WorkflowsInv, W!TypeOK
  <1> QED BY <1>1, <1>2, <1>3 DEF RecallsRow, W!Fresh, W!Row

\* A command that reads or gives up leaves the tables alone.
LEMMA RowReads ==
    ASSUME WorkflowsInv, UNCHANGED <<row, place>>, NEW c \in Calls, NEW q,
           q = None \/ (q \in W!Call /\ RecallsRow(q, row)),
           rowCall' = [rowCall EXCEPT ![c] = q]
    PROVE  WorkflowsInv'
  <1>1. W!TypeOK'
    BY DEF WorkflowsInv, W!TypeOK
  <1>2. RowCommandsTrue'
    <2> SUFFICES ASSUME NEW b \in Calls, rowCall'[b] # None
                 PROVE  RecallsRow(rowCall'[b], row)
      BY DEF RowCommandsTrue
    <2>1. CASE b = c
      BY <2>1 DEF WorkflowsInv, W!TypeOK
    <2>2. CASE b # c
      BY <2>2 DEF WorkflowsInv, W!TypeOK, RowCommandsTrue
    <2> QED BY <2>1, <2>2
  <1>3. W!OneStepPerNode'
    BY DEF WorkflowsInv, W!OneStepPerNode
  <1> QED BY <1>1, <1>2, <1>3 DEF WorkflowsInv, StepsPlaced

\* A command that passes its checks is remembered with the row it read.
LEMMA AfterIssue ==
    ASSUME WorkflowsInv, NEW c \in Calls, NEW x \in W!Ids, NEW target, W!Issue(c, x, target),
           target \in W!SessionState \union W!WorkflowState \union W!StepState \union {None},
           row[x].state # "ABSENT",
           target # None => <<row[x].state, target>> \in W!LifecycleOf(x),
           target = None => x \in Workflows /\ W!Schedulable(row[x].state)
    PROVE  WorkflowsInv'
  <1> DEFINE q == [id |-> x, seen |-> row[x], target |-> target]
  <1>1. rowCall' = [rowCall EXCEPT ![c] = q] /\ UNCHANGED <<row, place>>
    BY DEF W!Issue
  <1>2. row[x] \in W!Row /\ row[x].version \in Nat
    BY DEF WorkflowsInv, W!TypeOK, W!Row
  <1>3. q \in W!Call /\ q.id = x /\ q.seen = row[x] /\ q.target = target
    BY <1>2 DEF W!Call
  <1> HIDE DEF q
  <1>4. RecallsRow(q, row)
    BY <1>2, <1>3 DEF RecallsRow
  <1> QED BY <1>1, <1>3, <1>4, RowReads

\* The reads of the transitions and of schedule_workflow.
LEMMA AfterRowRead ==
    ASSUME WorkflowsInv, NEW c \in Calls, W!Read(c)
    PROVE  WorkflowsInv'
  <1>1. ASSUME NEW x \in Sessions, NEW target \in W!SessionState,
               W!ReadTransitionSession(c, x, target)
        PROVE  WorkflowsInv'
    <2>1. <<row[x].state, target>> \in W!LifecycleOf(x) /\ W!Issue(c, x, target)
      BY <1>1, RowKinds DEF W!ReadTransitionSession
    <2>2. row[x].state # "ABSENT" /\ target # None
      BY <2>1, RowKinds, SessionLifecycle, RowStates
    <2> QED BY <2>1, <2>2, RowKinds, AfterIssue
  <1>2. ASSUME NEW x \in Workflows, NEW target \in W!WorkflowState,
               W!ReadTransitionWorkflow(c, x, target)
        PROVE  WorkflowsInv'
    <2>1. <<row[x].state, target>> \in W!LifecycleOf(x) /\ W!Issue(c, x, target)
      BY <1>2, RowKinds DEF W!ReadTransitionWorkflow
    <2>2. row[x].state # "ABSENT" /\ target # None
      BY <2>1, RowKinds, WorkflowLifecycle, RowStates
    <2> QED BY <2>1, <2>2, RowKinds, AfterIssue
  <1>3. ASSUME NEW x \in Steps, NEW target \in W!StepState,
               W!ReadTransitionStep(c, x, target)
        PROVE  WorkflowsInv'
    <2>1. <<row[x].state, target>> \in W!LifecycleOf(x) /\ W!Issue(c, x, target)
      BY <1>3, RowKinds DEF W!ReadTransitionStep
    <2>2. row[x].state # "ABSENT" /\ target # None
      BY <2>1, RowKinds, StepLifecycle, RowStates
    <2> QED BY <2>1, <2>2, RowKinds, AfterIssue
  <1>4. ASSUME NEW w \in Workflows, W!ReadSchedule(c, w)
        PROVE  WorkflowsInv'
    <2>1. W!Schedulable(row[w].state) /\ W!Issue(c, w, None)
      BY <1>4 DEF W!ReadSchedule
    <2>2. row[w].state # "ABSENT"
      BY <2>1 DEF W!Schedulable
    <2> QED BY <2>1, <2>2, RowKinds, AfterIssue
  <1> QED BY <1>1, <1>2, <1>3, <1>4 DEF W!Read

\* The state of a row, after a step has written one of its own kind.
LEMMA OneRowTyped ==
    ASSUME WorkflowsInv, NEW x \in W!Ids, NEW new \in W!Row, row' = [row EXCEPT ![x] = new],
           x \in Sessions => new.state \in W!SessionState,
           x \in Workflows => new.state \in W!WorkflowState,
           x \in Steps => new.state \in W!StepState,
           UNCHANGED place, rowCall' \in [Calls -> W!Call \union {None}]
    PROVE  /\ W!TypeOK'
           /\ row'[x] = new
           /\ \A y \in W!Ids : y # x => row'[y] = row[y]
  <1>1. row'[x] = new /\ \A y \in W!Ids : y # x => row'[y] = row[y]
    BY DEF WorkflowsInv, W!TypeOK
  <1>2. row' \in [W!Ids -> W!Row]
    BY DEF WorkflowsInv, W!TypeOK
  <1>3. /\ \A y \in Sessions : row'[y].state \in W!SessionState \union {"ABSENT"}
        /\ \A y \in Workflows : row'[y].state \in W!WorkflowState \union {"ABSENT"}
        /\ \A y \in Steps : row'[y].state \in W!StepState \union {"ABSENT"}
    BY <1>1, RowKinds DEF WorkflowsInv, W!TypeOK
  <1> QED BY <1>1, <1>2, <1>3 DEF WorkflowsInv, W!TypeOK

\* One row is written, no step is placed: a workflow with steps does not become one that can
\* be scheduled.
LEMMA OneRowWritten ==
    ASSUME WorkflowsInv, NEW x \in W!Ids, NEW new \in W!Row, row' = [row EXCEPT ![x] = new],
           x \in Sessions => new.state \in W!SessionState,
           x \in Workflows => new.state \in W!WorkflowState,
           x \in Steps => new.state \in W!StepState,
           UNCHANGED place, CallsEnd,
           row[x].state = "ABSENT" \/ new.version > row[x].version,
           x \in Steps => row[x].state # "ABSENT",
           x \in Workflows /\ W!Schedulable(new.state) =>
               row[x].state = "ABSENT" \/ W!Schedulable(row[x].state)
    PROVE  WorkflowsInv'
  <1>1. new.state # "ABSENT"
    BY RowKinds, RowStates
  <1>2. /\ W!TypeOK' /\ row'[x] = new
        /\ \A y \in W!Ids : y # x => row'[y] = row[y]
    <2>1. rowCall' \in [Calls -> W!Call \union {None}]
      BY DEF WorkflowsInv, W!TypeOK, CallsEnd
    <2> QED BY <2>1, OneRowTyped
  <1>3. TableGrows
    BY <1>1, <1>2 DEF TableGrows
  <1>4. RowCommandsTrue'
    BY <1>2, <1>3, CommandsStayTrue
  <1>5. \A s \in Steps : place[s] # None => place[s].workflow \in Workflows
    BY DEF WorkflowsInv, W!TypeOK, W!Place
  <1>6. StepsPlaced'
    <2> SUFFICES ASSUME NEW s \in Steps
                 PROVE  IF place[s] = None THEN row'[s].state = "ABSENT"
                        ELSE row'[place[s].workflow].state # "ABSENT"
      BY DEF StepsPlaced
    <2>1. CASE place[s] = None
      <3>1. row[s].state = "ABSENT" /\ s \in W!Ids
        BY <2>1, RowKinds DEF WorkflowsInv, StepsPlaced
      <3> QED BY <1>2, <2>1, <3>1
    <2>2. CASE place[s] # None
      <3>1. row[place[s].workflow].state # "ABSENT" /\ place[s].workflow \in W!Ids
        BY <1>5, <2>2, RowKinds DEF WorkflowsInv, StepsPlaced
      <3> QED BY <1>1, <1>2, <2>2, <3>1
    <2> QED BY <2>1, <2>2
  <1>7. W!OneStepPerNode'
    <2> SUFFICES ASSUME NEW s \in Steps, place[s] # None
                 PROVE  row'[place[s].workflow].state \notin {"DRAFT", "READY", "PENDING"}
      BY DEF WorkflowsInv, W!OneStepPerNode
    <2> DEFINE w == place[s].workflow
    <2>1. w \in Workflows /\ w \in W!Ids
      BY <1>5, RowKinds
    <2>2. row[w].state \notin {"DRAFT", "READY", "PENDING"} /\ row[w].state # "ABSENT"
      BY DEF WorkflowsInv, W!OneStepPerNode, StepsPlaced
    <2> HIDE DEF w
    <2>3. row'[w].state \notin {"DRAFT", "READY", "PENDING"}
      BY <1>2, <2>1, <2>2 DEF W!Schedulable
    <2> QED BY <2>3 DEF w
  <1> QED BY <1>2, <1>4, <1>6, <1>7 DEF WorkflowsInv

\* The transitions of sessions, workflows and steps.
LEMMA AfterTransition ==
    ASSUME WorkflowsInv, NEW c \in Calls, W!Transition(c)
    PROVE  WorkflowsInv'
  <1> DEFINE q == rowCall[c]
             x == q.id
             version == q.seen.version + 1
             new == [state |-> q.target, version |-> version]
  <1>1. /\ q # None /\ q.target # None /\ rowCall' = [rowCall EXCEPT ![c] = None]
        /\ UNCHANGED place
    BY DEF W!Transition, W!Return
  <1>2. CASE ~W!Fresh(c)
    <2>1. UNCHANGED row
      BY <1>2 DEF W!Transition
    <2> QED BY <1>1, <2>1, RowReads
  <1>3. CASE W!Fresh(c)
    <2>1. row' = [row EXCEPT ![x] = new]
      BY <1>3 DEF W!Transition
    <2>2. /\ x \in W!Ids /\ row[x].version \in Nat /\ q.seen = row[x]
          /\ <<row[x].state, q.target>> \in W!LifecycleOf(x) /\ row[x].state # "ABSENT"
      BY <1>1, <1>3, CallOfRow
    <2>3. /\ x \in Sessions => q.target \in W!SessionState
          /\ x \in Workflows => q.target \in W!WorkflowState
          /\ x \in Steps => q.target \in W!StepState
          /\ x \in Workflows /\ W!Schedulable(q.target) => W!Schedulable(row[x].state)
      BY <2>2, RowKinds, SessionLifecycle, WorkflowLifecycle, StepLifecycle
    <2>4. version \in Nat /\ version > row[x].version
      BY <2>2
    <2> HIDE DEF version
    <2>5. new \in W!Row /\ new.state = q.target /\ new.version = version
      BY <2>2, <2>3, <2>4, RowKinds DEF W!Row
    <2> HIDE DEF new
    <2> QED BY <1>1, <2>1, <2>2, <2>3, <2>4, <2>5, OneRowWritten DEF CallsEnd
  <1> QED BY <1>2, <1>3

\* Sessions and workflows are created.
LEMMA AfterCreate ==
    ASSUME WorkflowsInv, NEW x \in W!Ids, row[x] = W!Absent,
           \/ x \in Sessions /\ row' = W!InsertSession(x)
           \/ x \in Workflows /\ row' = W!InsertWorkflow(x),
           UNCHANGED <<place, rowCall>>
    PROVE  WorkflowsInv'
  <1> DEFINE new == [state |-> IF x \in Sessions THEN "IDLE" ELSE "DRAFT", version |-> 0]
  <1>1. row' = [row EXCEPT ![x] = new]
    <2>1. row \in [W!Ids -> W!Row]
      BY DEF WorkflowsInv, W!TypeOK
    <2> QED BY <2>1, RowKinds DEF W!InsertSession, W!InsertWorkflow, W!Absent, W!Row
  <1>2. /\ new \in W!Row /\ x \notin Steps
        /\ x \in Sessions => new.state \in W!SessionState
        /\ x \in Workflows => new.state \in W!WorkflowState
    BY RowKinds DEF W!Row, W!SessionState, W!WorkflowState
  <1>3. row[x].state = "ABSENT"
    BY DEF W!Absent
  <1> HIDE DEF new
  <1> QED BY <1>1, <1>2, <1>3, OneRowWritten DEF CallsEnd

\* schedule_workflow runs the workflow and inserts a step at each of its nodes.  It found the
\* workflow as it was read, not yet started, and so without steps.
LEMMA AfterScheduleWorkflow ==
    ASSUME WorkflowsInv, NEW c \in Calls, rowCall[c] # None, rowCall[c].id \in Workflows,
           NEW steps \in W!NewSteps(rowCall[c].id), W!ScheduleWorkflow(c, steps)
    PROVE  WorkflowsInv'
  <1> DEFINE q == rowCall[c]
             w == q.id
             version == W!ScheduledVersion(q.seen)
             at(n, p) == {t \in Steps : p[t] = [workflow |-> w, node |-> n]}
  <1>1. q.target = None /\ rowCall' = [rowCall EXCEPT ![c] = None]
    BY DEF W!ScheduleWorkflow, W!Return
  <1>2. CASE ~W!Fresh(c)
    <2>1. UNCHANGED <<row, place>>
      BY <1>2 DEF W!ScheduleWorkflow
    <2> QED BY <1>1, <2>1, RowReads
  <1>3. CASE W!Fresh(c)
    <2>1. /\ w \in Workflows /\ w \in W!Ids /\ w \notin Steps /\ w \notin Sessions
          /\ row[w].version \in Nat /\ q.seen = row[w]
          /\ W!Schedulable(row[w].state) /\ row[w].state # "ABSENT"
      BY <1>1, <1>3, CallOfRow, RowKinds
    <2>2. version \in Nat /\ version > row[w].version
      BY <2>1 DEF W!ScheduledVersion
    <2>3. /\ \A n \in Nodes[w] : steps[n] \in Steps /\ place[steps[n]] = None
          /\ \A m, n \in Nodes[w] : steps[m] = steps[n] => m = n
      BY DEF W!NewSteps
    <2>4. /\ row' \in [W!Ids -> W!Row] /\ row'[w] = [state |-> "RUNNING", version |-> version]
          /\ \A x \in W!Ids : x # w /\ (\E n \in Nodes[w] : steps[n] = x) =>
                 row'[x].state \in {"PENDING", "BLOCKED"}
          /\ \A x \in W!Ids : x # w /\ ~(\E n \in Nodes[w] : steps[n] = x) => row'[x] = row[x]
      <3> HIDE DEF version
      <3>1. row' = [x \in W!Ids |->
                      IF x = w THEN [state |-> "RUNNING", version |-> version]
                      ELSE IF \E n \in Nodes[w] : steps[n] = x
                      THEN [state |-> IF \E n \in Rooted[w] : steps[n] = x
                                      THEN "PENDING" ELSE "BLOCKED",
                            version |-> 0]
                      ELSE row[x]]
        BY <1>3 DEF W!ScheduleWorkflow, version
      <3>2. row \in [W!Ids -> W!Row]
        BY DEF WorkflowsInv, W!TypeOK
      <3>3. {"RUNNING", "PENDING", "BLOCKED"} \subseteq W!StepState
        BY DEF W!StepState
      <3> QED BY <2>1, <2>2, <3>1, <3>2, <3>3 DEF W!Row
    <2>5. place' = W!InsertSteps(w, steps)
      BY <1>3 DEF W!ScheduleWorkflow
    <2>6. /\ \A n \in Nodes[w] : place'[steps[n]] = [workflow |-> w, node |-> n]
          /\ \A s \in Steps : (\A n \in Nodes[w] : steps[n] # s) => place'[s] = place[s]
          /\ place' \in [Steps -> W!Place \union {None}]
      <3>1. \A s \in Steps : \A n \in Nodes[w] : steps[n] = s =>
                (CHOOSE m \in Nodes[w] : steps[m] = s) = n
        BY <2>3
      <3>2. \A n \in Nodes[w] : [workflow |-> w, node |-> n] \in W!Place
        BY <2>1 DEF W!Place, W!AllNodes
      <3> QED BY <2>3, <2>5, <3>1, <3>2 DEF W!InsertSteps, WorkflowsInv, W!TypeOK
    <2>7. \A s \in Steps : place[s] # None => place[s].workflow \in Workflows /\ place[s].workflow # w
      BY <2>1 DEF WorkflowsInv, W!TypeOK, W!Place, W!OneStepPerNode, W!Schedulable
    <2>8. W!TypeOK'
      <3>1. \A s \in Steps : row'[s].state \in W!StepState \union {"ABSENT"}
        BY <2>1, <2>4, RowKinds DEF WorkflowsInv, W!TypeOK, W!StepState
      <3>2. \A x \in Sessions : row'[x].state \in W!SessionState \union {"ABSENT"}
        BY <2>1, <2>3, <2>4, RowKinds DEF WorkflowsInv, W!TypeOK
      <3>3. \A x \in Workflows : row'[x].state \in W!WorkflowState \union {"ABSENT"}
        BY <2>3, <2>4, RowKinds DEF WorkflowsInv, W!TypeOK, W!WorkflowState
      <3>4. rowCall' \in [Calls -> W!Call \union {None}]
        BY <1>1 DEF WorkflowsInv, W!TypeOK
      <3> QED BY <2>4, <2>6, <3>1, <3>2, <3>3, <3>4 DEF W!TypeOK
    <2>9. \A s \in Steps : (\E n \in Nodes[w] : steps[n] = s) => row[s].state = "ABSENT"
      BY <2>3 DEF WorkflowsInv, StepsPlaced
    <2>10. TableGrows
      BY <2>2, <2>3, <2>4, <2>9 DEF TableGrows
    <2>11. RowCommandsTrue'
      BY <1>1, <2>8, <2>10, CommandsStayTrue DEF CallsEnd
    <2> HIDE DEF w, version
    <2>12. \A n \in Nodes[w] : place'[steps[n]] # None /\ place'[steps[n]].workflow = w
      <3>1. \A n \in Nodes[w] : [workflow |-> w, node |-> n] \in W!Place
        BY <2>1 DEF W!Place, W!AllNodes
      <3> TAKE n \in Nodes[w]
      <3> DEFINE p == [workflow |-> w, node |-> n]
      <3>2. place'[steps[n]] = p /\ p \in W!Place /\ p.workflow = w
        BY <2>6, <3>1
      <3> HIDE DEF p
      <3> QED BY <3>2, NullAssumption
    <2>13. \A v \in Workflows : v # w => row'[v] = row[v]
      BY <2>3, <2>4, RowKinds
    <2>14. StepsPlaced'
      <3> SUFFICES ASSUME NEW s \in Steps
                   PROVE  IF place'[s] = None THEN row'[s].state = "ABSENT"
                          ELSE row'[place'[s].workflow].state # "ABSENT"
        BY DEF StepsPlaced
      <3>1. CASE \E n \in Nodes[w] : steps[n] = s
        BY <2>4, <2>12, <3>1
      <3>2. CASE ~(\E n \in Nodes[w] : steps[n] = s)
        <4>1. place'[s] = place[s] /\ row'[s] = row[s]
          BY <2>1, <2>4, <2>6, <3>2, RowKinds
        <4> QED BY <2>7, <2>13, <4>1 DEF WorkflowsInv, StepsPlaced
      <3> QED BY <3>1, <3>2
    <2>15. W!OneStepPerNode'
      <3> SUFFICES ASSUME NEW s \in Steps, place'[s] # None
                   PROVE  LET v == place'[s].workflow
                          IN  /\ row'[v].state \notin {"DRAFT", "READY", "PENDING"}
                              /\ \A n \in Nodes[v] :
                                   \E u \in Steps :
                                     {t \in Steps : place'[t] = [workflow |-> v, node |-> n]} = {u}
        BY DEF W!OneStepPerNode
      <3>1. CASE \E n \in Nodes[w] : steps[n] = s
        <4>1. place'[s].workflow = w /\ row'[w].state = "RUNNING"
          BY <2>4, <2>12, <3>1
        <4>2. ASSUME NEW n \in Nodes[w]
              PROVE  \E u \in Steps :
                       {t \in Steps : place'[t] = [workflow |-> w, node |-> n]} = {u}
          <5>1. ASSUME NEW t \in Steps, place'[t] = [workflow |-> w, node |-> n]
                PROVE  t = steps[n]
            <6>1. place'[t] \in W!Place /\ place'[t].workflow = w /\ place'[t].node = n
              BY <2>1, <5>1 DEF W!Place, W!AllNodes
            <6>2. PICK m \in Nodes[w] : steps[m] = t
              BY <2>6, <2>7, <6>1, NullAssumption
            <6>3. place'[t] = [workflow |-> w, node |-> m]
              BY <2>6, <6>2
            <6>4. place'[t].node = m
              BY <6>3
            <6> QED BY <6>1, <6>2, <6>4
          <5>2. {t \in Steps : place'[t] = [workflow |-> w, node |-> n]} = {steps[n]}
            BY <2>3, <2>6, <5>1
          <5> QED BY <2>3, <5>2
        <4> QED BY <4>1, <4>2
      <3>2. CASE ~(\E n \in Nodes[w] : steps[n] = s)
        <4> DEFINE v == place[s].workflow
        <4>1. place'[s] = place[s] /\ v \in Workflows /\ v # w /\ row'[v] = row[v]
          BY <2>6, <2>7, <2>13, <3>2
        <4>2. /\ row[v].state \notin {"DRAFT", "READY", "PENDING"}
              /\ \A n \in Nodes[v] :
                    \E u \in Steps :
                      {t \in Steps : place[t] = [workflow |-> v, node |-> n]} = {u}
          BY <4>1 DEF WorkflowsInv, W!OneStepPerNode
        <4> HIDE DEF v
        <4>3. ASSUME NEW n \in Nodes[v]
              PROVE  {t \in Steps : place'[t] = [workflow |-> v, node |-> n]}
                       = {t \in Steps : place[t] = [workflow |-> v, node |-> n]}
          <5>1. [workflow |-> v, node |-> n] \in W!Place
            BY <4>1 DEF W!Place, W!AllNodes
          <5>2. ASSUME NEW t \in Steps
                PROVE  place'[t] = [workflow |-> v, node |-> n]
                         <=> place[t] = [workflow |-> v, node |-> n]
            <6>1. CASE \E m \in Nodes[w] : steps[m] = t
              <7>1. place[t] = None /\ place'[t].workflow = w
                BY <2>3, <2>12, <6>1
              <7> QED BY <4>1, <5>1, <7>1, NullAssumption
            <6>2. CASE ~(\E m \in Nodes[w] : steps[m] = t)
              BY <2>6, <6>2
            <6> QED BY <6>1, <6>2
          <5> QED BY <5>2
        <4> QED BY <4>1, <4>2, <4>3 DEF v
      <3> QED BY <3>1, <3>2
    <2> QED BY <2>8, <2>11, <2>14, <2>15 DEF WorkflowsInv
  <1> QED BY <1>2, <1>3

\* Every command that writes.
LEMMA AfterRowWrite ==
    ASSUME WorkflowsInv, NEW c \in Calls, W!Write(c)
    PROVE  WorkflowsInv'
  <1>1. CASE W!Transition(c)
    BY <1>1, AfterTransition
  <1>2. CASE /\ rowCall[c] # None /\ rowCall[c].id \in Workflows
             /\ W!NewSteps(rowCall[c].id) # {}
             /\ W!ScheduleWorkflow(c, CHOOSE steps \in W!NewSteps(rowCall[c].id) : TRUE)
    <2> DEFINE chosen == CHOOSE steps \in W!NewSteps(rowCall[c].id) : TRUE
    <2>1. chosen \in W!NewSteps(rowCall[c].id)
      BY <1>2
    <2>2. W!ScheduleWorkflow(c, chosen)
      BY <1>2
    <2> HIDE DEF chosen
    <2> QED BY <1>2, <2>1, <2>2, AfterScheduleWorkflow
  <1> QED BY <1>1, <1>2 DEF W!Write

\* The tables of sessions, workflows and steps are empty at first.
LEMMA WorkflowsInit == W!Init => WorkflowsInv
  <1> SUFFICES ASSUME W!Init PROVE WorkflowsInv
    OBVIOUS
  <1>1. W!TypeOK
    BY RowKinds DEF W!Init, W!TypeOK, W!Absent, W!Row
  <1>2. RowCommandsTrue /\ W!OneStepPerNode
    BY DEF W!Init, RowCommandsTrue, W!OneStepPerNode
  <1>3. StepsPlaced
    BY RowKinds DEF W!Init, W!Absent, StepsPlaced
  <1> QED BY <1>1, <1>2, <1>3 DEF WorkflowsInv

\* Every step on them keeps their invariant.
LEMMA WorkflowsStep == WorkflowsInv /\ [W!Next]_workflowVars => WorkflowsInv'
  <1> SUFFICES ASSUME WorkflowsInv, [W!Next]_workflowVars PROVE WorkflowsInv'
    OBVIOUS
  <1>1. CASE UNCHANGED workflowVars
    BY <1>1 DEF workflowVars, WorkflowsInv, W!TypeOK, RowCommandsTrue, StepsPlaced,
                W!OneStepPerNode
  <1>2. ASSUME NEW x \in Sessions, W!CreateSession(x) PROVE WorkflowsInv'
    BY <1>2, RowKinds, AfterCreate DEF W!CreateSession
  <1>3. ASSUME NEW w \in Workflows, W!CreateWorkflow(w) PROVE WorkflowsInv'
    BY <1>3, RowKinds, AfterCreate DEF W!CreateWorkflow
  <1>4. ASSUME NEW c \in Calls, W!Read(c) \/ W!Write(c) PROVE WorkflowsInv'
    BY <1>4, AfterRowRead, AfterRowWrite
  <1>5. ASSUME NEW c \in Calls, W!GiveUp(c) PROVE WorkflowsInv'
    BY <1>5, RowReads DEF W!GiveUp, W!Return
  <1> QED BY <1>1, <1>2, <1>3, <1>4, <1>5 DEF W!Next

\* A row keeps its state, is inserted, or makes a move of its lifecycle; a draft may be
\* scheduled, which is two moves and two updates.
RowMove(x) ==
    LET s == row[x].state
        n == row'[x].state
    IN  \/ s \in {n, "ABSENT"}
        \/ <<s, n>> \in W!LifecycleOf(x)
        \/ /\ x \in Workflows /\ s = "DRAFT" /\ n = "RUNNING"
           /\ row'[x].version = row[x].version + 2

\* Every step on the tables moves each row along its lifecycle: the command that writes it was
\* checked against the same row.
LEMMA RowsAlong ==
    ASSUME WorkflowsInv, [W!Next]_workflowVars, NEW x \in W!Ids
    PROVE  RowMove(x)
  <1>1. row \in [W!Ids -> W!Row]
    BY DEF WorkflowsInv, W!TypeOK
  <1>2. CASE UNCHANGED row
    BY <1>2 DEF RowMove
  <1>3. ASSUME NEW y \in Sessions, W!CreateSession(y) PROVE RowMove(x)
    <2>1. \E new : row' = [row EXCEPT ![y] = new]
      BY <1>3 DEF W!CreateSession, W!InsertSession
    <2>2. row[y].state = "ABSENT"
      BY <1>3 DEF W!CreateSession, W!Absent
    <2> QED BY <1>1, <2>1, <2>2 DEF RowMove
  <1>4. ASSUME NEW w \in Workflows, W!CreateWorkflow(w) PROVE RowMove(x)
    <2>1. \E new : row' = [row EXCEPT ![w] = new]
      BY <1>4 DEF W!CreateWorkflow, W!InsertWorkflow
    <2>2. row[w].state = "ABSENT"
      BY <1>4 DEF W!CreateWorkflow, W!Absent
    <2> QED BY <1>1, <2>1, <2>2 DEF RowMove
  <1>5. ASSUME NEW c \in Calls, W!Transition(c), W!Fresh(c) PROVE RowMove(x)
    <2> DEFINE y == rowCall[c].id
               v == rowCall[c].seen.version + 1
               new == [state |-> rowCall[c].target, version |-> v]
    <2>1. /\ y \in W!Ids /\ <<row[y].state, rowCall[c].target>> \in W!LifecycleOf(y)
          /\ row' = [row EXCEPT ![y] = new]
      BY <1>5, CallOfRow DEF W!Transition
    <2>2. new.state = rowCall[c].target
      OBVIOUS
    <2> HIDE DEF new
    <2>3. CASE x = y
      BY <1>1, <2>1, <2>2, <2>3 DEF RowMove
    <2>4. CASE x # y
      BY <1>1, <2>1, <2>4 DEF RowMove
    <2> QED BY <2>3, <2>4
  <1>6. ASSUME NEW c \in Calls, rowCall[c] # None, rowCall[c].id \in Workflows,
               NEW steps \in W!NewSteps(rowCall[c].id), W!ScheduleWorkflow(c, steps),
               W!Fresh(c)
        PROVE  RowMove(x)
    <2> DEFINE w == rowCall[c].id
               version == W!ScheduledVersion(rowCall[c].seen)
    <2>1. /\ w \in Workflows /\ w \in W!Ids /\ w \notin Steps
          /\ rowCall[c].seen = row[w] /\ W!Schedulable(row[w].state)
      BY <1>6, CallOfRow, RowKinds DEF W!ScheduleWorkflow
    <2>2. row' = [y \in W!Ids |->
                    IF y = w THEN [state |-> "RUNNING", version |-> version]
                    ELSE IF \E n \in Nodes[w] : steps[n] = y
                    THEN [state |-> IF \E n \in Rooted[w] : steps[n] = y
                                    THEN "PENDING" ELSE "BLOCKED",
                          version |-> 0]
                    ELSE row[y]]
      BY <1>6 DEF W!ScheduleWorkflow
    <2>3. row[w].state = "DRAFT" => version = row[w].version + 2
      BY <2>1 DEF W!ScheduledVersion
    <2>4. row[w].state \in {"READY", "PENDING"} =>
             <<row[w].state, "RUNNING">> \in W!LifecycleOf(w)
      BY <2>1, RowKinds DEF W!WorkflowMoves, W!Moves
    <2>5. \A n \in Nodes[w] : steps[n] \in Steps /\ row[steps[n]].state = "ABSENT"
      BY DEF W!NewSteps, WorkflowsInv, StepsPlaced
    <2> HIDE DEF w, version
    <2>6. CASE x = w
      <3>1. row'[x].state = "RUNNING" /\ row'[x].version = version
        BY <2>2, <2>6
      <3> QED BY <2>1, <2>3, <2>4, <2>6, <3>1 DEF RowMove, W!Schedulable
    <2>7. CASE x # w
      <3>1. row'[x] = row[x] \/ row[x].state = "ABSENT"
        BY <2>2, <2>5, <2>7
      <3> QED BY <3>1 DEF RowMove
    <2> QED BY <2>6, <2>7
  <1>7. ASSUME NEW c \in Calls, W!Write(c) PROVE RowMove(x)
    <2>1. CASE ~W!Fresh(c)
      BY <1>2, <1>7, <2>1 DEF W!Write, W!Transition, W!ScheduleWorkflow
    <2>2. CASE W!Fresh(c) /\ W!Transition(c)
      BY <1>5, <2>2
    <2>3. CASE /\ W!Fresh(c) /\ ~W!Transition(c)
      <3> DEFINE chosen == CHOOSE steps \in W!NewSteps(rowCall[c].id) : TRUE
      <3>1. /\ rowCall[c] # None /\ rowCall[c].id \in Workflows
            /\ W!NewSteps(rowCall[c].id) # {} /\ W!ScheduleWorkflow(c, chosen)
        BY <1>7, <2>3 DEF W!Write
      <3>2. chosen \in W!NewSteps(rowCall[c].id)
        BY <3>1
      <3> HIDE DEF chosen
      <3> QED BY <1>6, <2>3, <3>1, <3>2
    <2> QED BY <2>1, <2>2, <2>3
  <1>8. ASSUME NEW c \in Calls, W!Read(c) \/ W!GiveUp(c) PROVE RowMove(x)
    BY <1>2, <1>8 DEF W!Read, W!ReadTransitionSession, W!ReadTransitionWorkflow,
                      W!ReadTransitionStep, W!ReadSchedule, W!Issue, W!GiveUp
  <1> QED BY <1>2, <1>3, <1>4, <1>7, <1>8 DEF W!Next, workflowVars

\* A row that has ended is not written any more: the command that would write it was
\* checked against the same row.
LEMMA RowsMove ==
    ASSUME WorkflowsInv, [W!Next]_workflowVars, NEW x \in W!Ids, W!Ended(x)
    PROVE  row'[x] = row[x]
  <1>1. ASSUME NEW y \in W!Ids, row[y] = W!Absent PROVE y # x
    BY <1>1 DEF W!Ended, W!Absent, W!WorkflowTerminal, W!StepTerminal
  <1>2. row \in [W!Ids -> W!Row]
    BY DEF WorkflowsInv, W!TypeOK
  <1>3. ASSUME NEW y \in Sessions, W!CreateSession(y) PROVE row'[x] = row[x]
    BY <1>1, <1>2, <1>3, RowKinds DEF W!CreateSession, W!InsertSession
  <1>4. ASSUME NEW w \in Workflows, W!CreateWorkflow(w) PROVE row'[x] = row[x]
    BY <1>1, <1>2, <1>4, RowKinds DEF W!CreateWorkflow, W!InsertWorkflow
  <1>5. ASSUME NEW c \in Calls, W!Read(c) PROVE row'[x] = row[x]
    BY <1>5 DEF W!Read, W!ReadTransitionSession, W!ReadTransitionWorkflow,
                W!ReadTransitionStep, W!ReadSchedule, W!Issue
  <1>6. ASSUME NEW c \in Calls, W!Transition(c) PROVE row'[x] = row[x]
    <2>1. CASE W!Fresh(c)
      <3> DEFINE y == rowCall[c].id
      <3>1. /\ y \in W!Ids /\ <<row[y].state, rowCall[c].target>> \in W!LifecycleOf(y)
            /\ \E new : row' = [row EXCEPT ![y] = new]
        BY <1>6, <2>1, CallOfRow DEF W!Transition
      <3>2. y # x
        BY <3>1, RowKinds, SessionLifecycle, WorkflowLifecycle, StepLifecycle DEF W!Ended
      <3> QED BY <1>2, <3>1, <3>2
    <2>2. CASE ~W!Fresh(c)
      BY <1>6, <2>2 DEF W!Transition
    <2> QED BY <2>1, <2>2
  <1>7. ASSUME NEW c \in Calls, rowCall[c] # None, rowCall[c].id \in Workflows,
               NEW steps \in W!NewSteps(rowCall[c].id), W!ScheduleWorkflow(c, steps)
        PROVE  row'[x] = row[x]
    <2> DEFINE w == rowCall[c].id
    <2>1. CASE W!Fresh(c)
      <3>1. W!Schedulable(row[w].state) /\ w \in Workflows
        BY <1>7, <2>1, CallOfRow DEF W!ScheduleWorkflow
      <3>2. x # w
        BY <3>1, RowKinds DEF W!Ended, W!Schedulable, W!WorkflowTerminal
      <3>3. ~(\E n \in Nodes[w] : steps[n] = x)
        <4> SUFFICES ASSUME NEW n \in Nodes[w], steps[n] = x PROVE FALSE
          OBVIOUS
        <4>1. x \in Steps /\ place[x] = None
          BY <1>7 DEF W!NewSteps
        <4>2. row[x].state = "ABSENT"
          BY <4>1 DEF WorkflowsInv, StepsPlaced
        <4> QED BY <4>1, <4>2, RowKinds DEF W!Ended, W!StepTerminal
      <3> QED BY <1>7, <2>1, <3>2, <3>3 DEF W!ScheduleWorkflow
    <2>2. CASE ~W!Fresh(c)
      BY <1>7, <2>2 DEF W!ScheduleWorkflow
    <2> QED BY <2>1, <2>2
  <1>8. ASSUME NEW c \in Calls, W!Write(c) PROVE row'[x] = row[x]
    <2>1. CASE W!Transition(c)
      BY <1>6, <2>1
    <2>2. CASE /\ rowCall[c] # None /\ rowCall[c].id \in Workflows
               /\ W!NewSteps(rowCall[c].id) # {}
               /\ W!ScheduleWorkflow(c, CHOOSE steps \in W!NewSteps(rowCall[c].id) : TRUE)
      <3> DEFINE chosen == CHOOSE steps \in W!NewSteps(rowCall[c].id) : TRUE
      <3>1. chosen \in W!NewSteps(rowCall[c].id)
        BY <2>2
      <3>2. W!ScheduleWorkflow(c, chosen)
        BY <2>2
      <3> HIDE DEF chosen
      <3> QED BY <1>7, <2>2, <3>1, <3>2
    <2> QED BY <1>8, <2>1, <2>2 DEF W!Write
  <1> QED BY <1>3, <1>4, <1>5, <1>8 DEF W!Next, W!GiveUp, workflowVars

-----------------------------------------------------------------------------
(* The agent runtime as a whole *)

\* The inductive invariant: that of each part.
IInv == TasksInv /\ RunsInv /\ WorkflowsInv

\* A step of the runtime is, to each part, a step of its own or none.
LEMMA PartStep ==
    [Next]_vars => [T!Next]_taskVars /\ [R!Next]_runVars /\ [W!Next]_workflowVars
  BY DEF Next, vars, taskVars, runVars, workflowVars

\* The inductive invariant holds in every reachable state.
THEOREM Invariance == Spec => []IInv
  <1>1. Init => IInv
    BY TasksInit, RunsInit, WorkflowsInit DEF Init, IInv
  <1>2. IInv /\ [Next]_vars => IInv'
    BY PartStep, TasksStep, RunsStep, WorkflowsStep DEF IInv
  <1> QED BY <1>1, <1>2, PTL DEF Spec

\* The tables of tasks, runs and workflows keep their types, and so do the commands under
\* way.
THEOREM TypeCorrect == Spec => [](T!TypeOK /\ R!TypeOK /\ W!TypeOK)
  <1>1. IInv => T!TypeOK /\ R!TypeOK /\ W!TypeOK
    BY DEF IInv, TasksInv, RunsInv, WorkflowsInv
  <1> QED BY <1>1, Invariance, PTL

\* awaiting_approval_id is set only while a task waits for permission, and names a request of
\* that task, however request_approval, resolve_approval and the transitions race.
THEOREM ApprovalsAwaited == Spec => []AwaitingWhileWaiting
  <1>1. IInv => AwaitingWhileWaiting
    BY DEF IInv, TasksInv, AwaitingWhileWaiting
  <1> QED BY <1>1, Invariance, PTL

\* The last event of a task's or run's stream names the state of its row, but for the events of
\* decisions and delegations.
THEOREM EventsAreTruthful == Spec => []ToldTruthfully
  <1>1. IInv => ToldTruthfully
    BY DEF IInv, TasksInv, RunsInv, ToldTruthfully
  <1> QED BY <1>1, Invariance, PTL

\* record_run_budget_usage loses no report and counts none twice, and a run whose turns are
\* used up has failed.
THEOREM BudgetsAreKept == Spec => []UsageWithinBudget
  <1>1. IInv => UsageWithinBudget
    BY DEF IInv, RunsInv, UsageWithinBudget
  <1> QED BY <1>1, Invariance, PTL

\* schedule_workflow gives a started workflow one step for each of its nodes.
THEOREM NodesHaveOneStep == Spec => []OneStepPerNode
  <1>1. IInv => OneStepPerNode
    BY DEF IInv, WorkflowsInv, OneStepPerNode
  <1> QED BY <1>1, Invariance, PTL

\* A decision that resolve_approval has recorded is never replaced.
THEOREM DecisionsAreFinal == Spec => DecidedOnce
  <1>1. IInv /\ [Next]_vars =>
            [\A a \in Approvals :
                approval[a].state \in T!Decision => approval'[a] = approval[a]]_T!vars
    BY PartStep, DecisionsStand DEF IInv
  <1> QED BY <1>1, Invariance, PTL DEF Spec, DecidedOnce, T!DecidedOnce

\* Every change of a task, run, session, workflow or step is one its transition table allows
\* from the state it replaces, but for the exceptions AlongLifecycles names, and a workflow,
\* step or session that ended is not written again.
THEOREM LifecyclesAreFollowed == Spec => AlongLifecycles
  <1>1. IInv /\ IInv' /\ [Next]_vars =>
            [\A t \in Tasks :
                LET s == task[t].state
                    n == task'[t].state
                IN  /\ task'[t].attempt <= MaxAttempts[t]
                    /\ \/ s \in {n, "ABSENT"}
                       \/ <<s, n>> \in T!TaskMoves
                       \/ /\ <<s, "RETRY_WAIT">> \in T!TaskMoves /\ n = "RUNNING"
                          /\ task'[t].attempt = task[t].attempt + 1
                       \/ n = "FAILED" /\ T!DeniedNow(t)]_T!vars
    BY PartStep, TasksMove DEF IInv, TaskMove
  <1>2. IInv /\ [Next]_vars =>
            [\A r \in Runs :
                LET s == run[r].state
                    n == run'[r].state
                IN  \/ s \in {n, "ABSENT"}
                    \/ <<s, n>> \in R!LoopMoves
                    \/ n = "FAILED" /\ R!Exhausted(run'[r])]_R!vars
    BY PartStep, RunsMove DEF IInv, RunMove
  <1>3. IInv /\ [Next]_vars => [\A x \in W!Ids : W!Ended(x) => row'[x] = row[x]]_W!vars
    BY PartStep, RowsMove DEF IInv
  <1>4. IInv /\ [Next]_vars =>
            [\A x \in W!Ids :
                LET s == row[x].state
                    n == row'[x].state
                IN  \/ s \in {n, "ABSENT"}
                    \/ <<s, n>> \in W!LifecycleOf(x)
                    \/ /\ x \in Workflows /\ s = "DRAFT" /\ n = "RUNNING"
                       /\ row'[x].version = row[x].version + 2]_W!vars
    BY PartStep, RowsAlong DEF IInv, RowMove
  <1> QED BY <1>1, <1>2, <1>3, <1>4, Invariance, PTL
          DEF Spec, AlongLifecycles, T!AlongLifecycle, R!RunsAlongLifecycle,
              W!RowsAlongLifecycle, W!EndedStays
=============================================================================
