----------------------------- MODULE Automation -----------------------------
(***************************************************************************)
(* Tools and their executions: AutomationService                           *)
(* (modules/automation/application/services.py) over SqlAutomationStore,   *)
(* the ToolRegistry each process keeps in memory, and the ToolExecutor     *)
(* with its policy gate.                                                   *)
(*                                                                         *)
(* The table of tools and the registries are two stores of one thing.  A   *)
(* command changes the registry of its own process, before its transaction *)
(* commits; an execution looks its tool up in the table and then takes the *)
(* definition from the registry, which it fills only if the name is        *)
(* missing there.                                                          *)
(***************************************************************************)
EXTENDS Transactions

CONSTANTS
    Processes,       \* API servers and workers
    Tools, Names,    \* ids of registered tools, and tool names
    ToolRuns,
    Definitions      \* what tools are registered with: records as ToolDefinition

VARIABLES
    registry,    \* what each process holds in memory: name -> definition
    mirror,      \* the change to a registry that a command under way will make, or None
    exec         \* each execution: where it is, and if the tool ran

autoVars == <<txVars, registry, mirror, exec>>

AutomationIds == Tools \union ToolRuns

NoTools == [n \in {} |-> None]

AutomationInit ==
    /\ row = [id \in AutomationIds |-> None]
    /\ call = [c \in Calls |-> None]
    /\ told = [id \in AutomationIds |-> None]
    /\ registry = [p \in Processes |-> NoTools]
    /\ mirror = [c \in Calls |-> None]
    /\ exec = [x \in ToolRuns |-> None]

-----------------------------------------------------------------------------
(* Definitions and rows *)

\* gated: is_policy_gated of the name, the capability and the side effects;
\* high: a risk level in HIGH_RISK_LEVELS
ToolDefinition == [enabled : BOOLEAN, gated : BOOLEAN, destructive : BOOLEAN, high : BOOLEAN]

DefinitionOf(tool) == [f \in {"enabled", "gated", "destructive", "high"} |-> tool[f]]

ToolRow(tool) ==
    DefinitionOf(tool) \in ToolDefinition /\ tool.name \in Names /\ tool.version \in Nat

RunStatus == {"pending", "succeeded", "failed", "denied", "approval_required"}

ToolRunRow == [tool : Names, status : RunStatus, version : {0}]

\* Where an execution is: recorded as invoked, handed to the adapter, with an outcome
\* that is not recorded yet, about to read the run again, in the handler of an
\* exception, or over.
RunStage == {"looked_up", "invoked", "dispatched", "succeeded", "failed", "denied",
             "approval_required", "reread", "broken", "ended"}

Execution == [at : Processes, name : Names, stage : RunStage, approved : BOOLEAN, ran : BOOLEAN]

\* get_tool_by_name
Found(n) == {t \in Tools : Present(t) /\ row[t].name = n}

-----------------------------------------------------------------------------
(* The store *)

InsertTool(t, n, def) == Unique(Insert(t, Over(def, [name |-> n, version |-> 0])), "name")

\* The version grows only when one is expected.
UpdateTool(t, patch, expected) ==
    Update(t, IF expected = None THEN Given(patch) ELSE Bumped(t, Given(patch)), expected)

DeleteTool(t) == Delete(t)

InsertRun(x, n) == row' = [row EXCEPT ![x] = [tool |-> n, status |-> "pending", version |-> 0]]

UpdateRun(x, status) == row' = [row EXCEPT ![x].status = status]

\* AutomationEventFactory
AutomationSays(id, what) == [x \in {id} |-> what]

-----------------------------------------------------------------------------
(* ToolRegistry *)

\* register: with override_collision, or if the name is free.  A collision is ignored.
Register(p, n, def, override) ==
    IF n \in DOMAIN registry[p] /\ ~override THEN registry[p]
    ELSE Over([x \in {n} |-> def], registry[p])

Removed(p, n) == [m \in DOMAIN registry[p] \ {n} |-> registry[p][m]]

\* The change of a command to the registry of its process: after its statement has been
\* executed, and before it is committed.
Mirrored(c) ==
    /\ call[c] # None /\ mirror[c] # None
    /\ \A w \in call[c].writes : w.must => Finds(w)
    /\ LET p == mirror[c].at
           n == mirror[c].name
           def == DefinitionOf(Written(CHOOSE w \in call[c].writes : TRUE))
       IN  registry' = [registry EXCEPT ![p] =
              CASE mirror[c].does = "register" -> Register(p, n, def, FALSE)
                [] mirror[c].does = "override" -> Register(p, n, def, TRUE)
                [] mirror[c].does = "remove" -> Removed(p, n)]
    /\ mirror' = [mirror EXCEPT ![c] = None]
    /\ UNCHANGED <<txVars, exec>>

-----------------------------------------------------------------------------
(* Tools *)

Mirrors(c, p, n, does) ==
    /\ mirror' = [mirror EXCEPT ![c] = [at |-> p, name |-> n, does |-> does]]
    /\ UNCHANGED <<registry, exec>>

RegisterTool(c, p, t, n, def) ==
    /\ Found(n) = {}
    /\ Begin(c, {InsertTool(t, n, def)}, AutomationSays(t, "registered"))
    /\ Mirrors(c, p, n, "register")

EditTool(c, p, t, patch, expected) ==
    /\ expected \in Stated(t)
    /\ Begin(c, {UpdateTool(t, patch, expected)}, AutomationSays(t, "updated"))
    /\ Mirrors(c, p, row[t].name, "override")

DeregisterTool(c, p, t) ==
    /\ Present(t)
    /\ Begin(c, {DeleteTool(t)}, AutomationSays(t, "deregistered"))
    /\ Mirrors(c, p, row[t].name, "remove")

\* The transaction commits when the registry has been changed, or fails at any time.
Finishes(c) ==
    \/ mirror[c] = None /\ Commit(c) /\ UNCHANGED <<registry, mirror, exec>>
    \/ Rollback(c) /\ mirror' = [mirror EXCEPT ![c] = None] /\ UNCHANGED <<registry, exec>>

-----------------------------------------------------------------------------
(* Executions *)

\* ToolExecutor.execute and evaluate_policy: what becomes of an invocation, for what
\* is asked with (approved, a path that escapes the workspace) and what the policy
\* engine says, if there is one.
Gate(def, approved, escapes, engine) ==
    CASE ~def.enabled \/ (def.gated /\ escapes) -> "denied"
      [] def.enabled /\ def.gated /\ ~escapes /\ def.destructive /\ ~approved -> "approval_required"
      [] OTHER -> IF engine # "none" THEN engine
                  ELSE IF def.high /\ def.gated /\ ~approved THEN "denied" ELSE "allow"

At(x, stage) == exec[x] # None /\ exec[x].stage = stage

Goes(x, stage) == exec' = [exec EXCEPT ![x].stage = stage]

\* execute_tool begins: the tool is in the table, and is put into the registry if its
\* name is not there.
LookUp(x, p, n, approved) ==
    /\ exec[x] = None
    /\ \E t \in Found(n) :
          registry' = [registry EXCEPT ![p] = Register(p, n, DefinitionOf(row[t]), FALSE)]
    /\ exec' = [exec EXCEPT ![x] = [at |-> p, name |-> n, stage |-> "looked_up",
                                    approved |-> approved, ran |-> FALSE]]
    /\ UNCHANGED <<txVars, mirror>>

\* The run is recorded as pending.
Invoke(x) ==
    /\ At(x, "looked_up")
    /\ InsertRun(x, exec[x].name)
    /\ told' = Over(AutomationSays(x, "invoked"), told)
    /\ Goes(x, "invoked")
    /\ UNCHANGED <<call, registry, mirror>>

\* Mutant of Dispatch: the tool runs before the gate has spoken.
DispatchUngated(x, escapes, engine) ==
    LET known == exec[x].name \in DOMAIN registry[exec[x].at]
        gate == IF known THEN Gate(registry[exec[x].at][exec[x].name], exec[x].approved, escapes, engine)
                ELSE "broken"
    IN  /\ At(x, "invoked")
        /\ exec' = [exec EXCEPT ![x].stage = IF gate = "allow" THEN "dispatched" ELSE gate,
                                ![x].ran = known]
        /\ UNCHANGED <<txVars, registry, mirror>>

\* The gate: the invocation ends here, or is handed to the adapter of its runtime.
Dispatch(x, escapes, engine) ==
    LET known == exec[x].name \in DOMAIN registry[exec[x].at]
        gate == IF known THEN Gate(registry[exec[x].at][exec[x].name], exec[x].approved, escapes, engine)
                ELSE "broken"
    IN  /\ At(x, "invoked")
        /\ exec' = [exec EXCEPT ![x].stage = IF gate = "allow" THEN "dispatched" ELSE gate,
                                ![x].ran = gate = "allow"]
        /\ UNCHANGED <<txVars, registry, mirror>>

\* The adapter answers that it succeeded or failed, or raises.
Return(x, outcome) ==
    /\ At(x, "dispatched")
    /\ Goes(x, outcome)
    /\ UNCHANGED <<txVars, registry, mirror>>

\* The status a run gets by its outcome.
StatusOf(outcome) == IF outcome = "broken" THEN "failed" ELSE outcome

\* The event that goes with it: there is none for a run that requires approval.
AnnouncedAs(outcome) == IF outcome = "approval_required" THEN "denied" ELSE StatusOf(outcome)

\* The outcome is recorded and told in a transaction of its own.
Record(x) ==
    /\ \E outcome \in {"succeeded", "failed", "denied", "approval_required", "broken"} :
          /\ At(x, outcome)
          /\ UpdateRun(x, StatusOf(outcome))
          /\ told' = Over(AutomationSays(x, AnnouncedAs(outcome)), told)
          /\ Goes(x, IF outcome \in {"succeeded", "failed"} THEN "reread" ELSE "ended")
    /\ UNCHANGED <<call, registry, mirror>>

\* The answer is the run read again.  If that or the transaction before fails, the run
\* is recorded as failed, whatever the tool did and the record says; a failure of any
\* other transaction leaves the run as it is.
ReRead(x) ==
    /\ At(x, "reread")
    /\ Goes(x, "ended")
    /\ UNCHANGED <<txVars, registry, mirror>>

RecordFails(x) ==
    /\ \/ \E stage \in {"succeeded", "failed", "reread"} : At(x, stage) /\ Goes(x, "broken")
       \/ \E stage \in {"denied", "approval_required", "broken"} : At(x, stage) /\ Goes(x, "ended")
    /\ UNCHANGED <<txVars, registry, mirror>>

\* A process dies: what it held in memory is gone, its executions end where they are.
Restart(p) ==
    /\ registry' = [registry EXCEPT ![p] = NoTools]
    /\ exec' = [x \in ToolRuns |-> IF exec[x] # None /\ exec[x].at = p
                                   THEN [exec[x] EXCEPT !.stage = "ended"] ELSE exec[x]]
    /\ mirror' = [c \in Calls |-> IF mirror[c] # None /\ mirror[c].at = p THEN None ELSE mirror[c]]
    /\ call' = [c \in Calls |-> IF mirror[c] # None /\ mirror[c].at = p THEN None ELSE call[c]]
    /\ UNCHANGED <<row, told>>

-----------------------------------------------------------------------------

ToolRequests(c, p) ==
    \/ \E t \in Tools, n \in Names, def \in Definitions : RegisterTool(c, p, t, n, def)
    \/ \E t \in Tools, enabled, high \in {TRUE, FALSE, None} : \E v \in Stated(t) :
          EditTool(c, p, t, [enabled |-> enabled, high |-> high], v)
    \/ \E t \in Tools : DeregisterTool(c, p, t)

RunSteps(x) ==
    \/ \E p \in Processes, n \in Names, approved \in BOOLEAN : LookUp(x, p, n, approved)
    \/ Invoke(x)
    \/ \E escapes \in BOOLEAN, engine \in {"none", "allow", "denied", "approval_required"} :
          Dispatch(x, escapes, engine)
    \/ \E outcome \in {"succeeded", "failed", "broken"} : Return(x, outcome)
    \/ Record(x) \/ ReRead(x) \/ RecordFails(x)

AutomationNext ==
    \/ \E c \in Calls : \/ Mirrored(c) \/ Finishes(c)
                        \/ \E p \in Processes : ToolRequests(c, p)
    \/ \E x \in ToolRuns : RunSteps(x)
    \/ \E p \in Processes : Restart(p)

-----------------------------------------------------------------------------
(* Properties *)

AutomationTypeOK ==
    /\ \A t \in Tools : Present(t) => ToolRow(row[t])
    /\ \A x \in ToolRuns : Present(x) => row[x] \in ToolRunRow
    /\ \A x \in ToolRuns : exec[x] \in Execution \union {None}
    /\ \A p \in Processes, n \in Names : n \in DOMAIN registry[p] => registry[p][n] \in ToolDefinition

\* Whatever fails on the way, the record of a run tells the truth about the tool: one
\* that succeeded did run, and one that was denied or waits for approval did not; a
\* run that failed may have run.  The last event of a run says what its row says,
\* also when the row is written twice, but calls a run denied that requires approval.
RunsTruthful ==
    \A x \in ToolRuns : Present(x) =>
        /\ row[x].status = "succeeded" => exec[x].ran
        /\ row[x].status \in {"denied", "approval_required"} => ~exec[x].ran
        /\ told[x] = CASE row[x].status = "pending" -> "invoked"
                       [] row[x].status \in {"denied", "approval_required"} -> "denied"
                       [] OTHER -> row[x].status
=============================================================================
