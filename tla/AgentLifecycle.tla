--------------------------- MODULE AgentLifecycle ---------------------------
(***************************************************************************)
(* The state machines of modules/agent_runtime/domain/lifecycle.py and     *)
(* domain/delegation.py as relations: a pair is in a relation exactly when *)
(* transition(current, target) returns instead of raising.  A transition   *)
(* to the current state always returns.                                    *)
(***************************************************************************)

Moves(from, to) == {from} \X to

-----------------------------------------------------------------------------
(* Runs of the agent loop *)

LoopTerminal == {"COMPLETED", "FAILED", "CANCELLED", "ORPHANED"}
LoopWaiting == {"WAITING_TOOL", "WAITING_CHILD", "WAITING_SCHEDULE"}
LoopState == {"CREATED", "READY", "RUNNING", "COMPACTING", "PAUSED"}
                \union LoopWaiting \union LoopTerminal

LoopMoves ==
    UNION {Moves("CREATED", {"READY", "FAILED", "CANCELLED"}),
           Moves("READY", {"RUNNING", "FAILED", "CANCELLED"}),
           Moves("RUNNING", LoopWaiting \union {"COMPACTING", "PAUSED"} \union LoopTerminal),
           LoopWaiting \X ({"RUNNING", "PAUSED", "COMPACTING"} \union LoopTerminal),
           Moves("COMPACTING", {"RUNNING", "PAUSED", "FAILED", "CANCELLED", "ORPHANED"}),
           Moves("PAUSED", {"RUNNING", "FAILED", "CANCELLED", "ORPHANED"})}

-----------------------------------------------------------------------------
(* Tasks *)

TaskTerminal == {"COMPLETED", "FAILED", "CANCELLED"}
TaskState == {"RECEIVED", "CLASSIFYING", "CONTEXT_BUILDING", "PLANNING", "READY",
              "RUNNING", "WAITING_PERMISSION", "PAUSED", "RETRY_WAIT", "RECOVERING",
              "VERIFYING", "REVIEWING"} \union TaskTerminal

\* FAILED -> RETRY_WAIT is the only way out of a terminal state.
TaskMoves ==
    UNION {Moves("RECEIVED", {"CLASSIFYING", "CONTEXT_BUILDING", "PLANNING", "READY",
                              "RUNNING", "FAILED", "CANCELLED"}),
           Moves("CLASSIFYING", {"CONTEXT_BUILDING", "FAILED", "CANCELLED"}),
           Moves("CONTEXT_BUILDING", {"PLANNING", "FAILED", "CANCELLED"}),
           Moves("PLANNING", {"READY", "RUNNING", "FAILED", "CANCELLED"}),
           Moves("READY", {"RUNNING", "PAUSED", "CANCELLED"}),
           Moves("RUNNING", {"WAITING_PERMISSION", "PAUSED", "RETRY_WAIT", "RECOVERING",
                             "VERIFYING", "REVIEWING"} \union TaskTerminal),
           Moves("WAITING_PERMISSION", {"RUNNING", "PAUSED", "CANCELLED", "FAILED"}),
           Moves("PAUSED", {"RUNNING", "CANCELLED"}),
           Moves("RETRY_WAIT", {"RUNNING", "CANCELLED", "FAILED"}),
           Moves("RECOVERING", {"RUNNING", "FAILED", "CANCELLED"}),
           Moves("VERIFYING", {"REVIEWING"} \union TaskTerminal),
           Moves("REVIEWING", TaskTerminal),
           Moves("FAILED", {"RETRY_WAIT"})}

-----------------------------------------------------------------------------
(* Sessions, workflows and steps *)

SessionState == {"IDLE", "ACTIVE", "PAUSED", "COMPLETED", "FAILED", "CANCELLED", "ARCHIVED"}

SessionMoves ==
    UNION {Moves("IDLE", {"ACTIVE", "CANCELLED", "ARCHIVED"}),
           Moves("ACTIVE", {"PAUSED", "COMPLETED", "FAILED", "CANCELLED", "ARCHIVED"}),
           Moves("PAUSED", {"ACTIVE", "FAILED", "CANCELLED", "ARCHIVED"}),
           Moves("COMPLETED", {"ARCHIVED"}),
           {"FAILED", "CANCELLED"} \X {"IDLE", "ARCHIVED"}}

WorkflowTerminal == {"COMPLETED", "FAILED", "CANCELLED"}
WorkflowState == {"DRAFT", "PENDING", "READY", "RUNNING", "PAUSED"} \union WorkflowTerminal

WorkflowMoves ==
    UNION {Moves("DRAFT", {"READY", "CANCELLED"}),
           Moves("PENDING", {"READY", "RUNNING", "PAUSED", "FAILED", "CANCELLED"}),
           Moves("READY", {"RUNNING", "PAUSED", "CANCELLED"}),
           Moves("RUNNING", {"PAUSED"} \union WorkflowTerminal),
           Moves("PAUSED", {"RUNNING", "CANCELLED"})}

StepTerminal == {"COMPLETED", "FAILED", "SKIPPED", "CANCELLED"}
StepState == {"BLOCKED", "PENDING", "READY", "CLAIMED", "DISPATCHED", "RUNNING",
              "WAITING_PERMISSION", "RETRY_WAIT"} \union StepTerminal

\* The table also has FAILED -> RETRY_WAIT, which the check on terminal states
\* that follows it refuses.
StepMoves ==
    UNION {Moves("BLOCKED", {"PENDING", "SKIPPED", "CANCELLED"}),
           Moves("PENDING", {"READY", "BLOCKED", "CANCELLED"}),
           Moves("READY", {"CLAIMED", "CANCELLED"}),
           Moves("CLAIMED", {"DISPATCHED", "CANCELLED"}),
           Moves("DISPATCHED", {"RUNNING", "CANCELLED"}),
           Moves("RUNNING", {"WAITING_PERMISSION", "RETRY_WAIT", "COMPLETED", "FAILED",
                             "CANCELLED"}),
           Moves("WAITING_PERMISSION", {"RUNNING", "CANCELLED", "FAILED"}),
           Moves("RETRY_WAIT", {"RUNNING", "FAILED", "CANCELLED"})}

-----------------------------------------------------------------------------
(* Delegations *)

DelegationTerminal == {"COMPLETED", "FAILED", "CANCELLED"}
DelegationStatus == {"PENDING", "RUNNING"} \union DelegationTerminal

DelegationMoves ==
    Moves("PENDING", {"RUNNING", "CANCELLED"})
        \union Moves("RUNNING", DelegationTerminal)

Allows(moves, current, target) == current = target \/ <<current, target>> \in moves
=============================================================================
