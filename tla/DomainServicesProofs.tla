------------------------ MODULE DomainServicesProofs ------------------------
(***************************************************************************)
(* Proofs about the domain modules: whatever commands are under way, and   *)
(* in whatever order they commit or fail.                                  *)
(*                                                                         *)
(* What Transactions does is proved once, for T; a command of a module     *)
(* commits the same way.  The invariant of a module says of its rows what  *)
(* it must, and of every command under way that what it has read and       *)
(* decided still fits the rows whenever its statements find them.          *)
(***************************************************************************)
EXTENDS DomainServices, TLAPS, FiniteSetTheorems

T == INSTANCE Transactions

-----------------------------------------------------------------------------
(* Transactions *)

\* What a commit does that finds the rows it must find: each row is the one that a
\* statement of the command writes, or is left alone by all of them, and the outbox
\* tells what the statements or the command say.
Applied(k) ==
    /\ \A w \in k.writes : w.must => T!Finds(w)
    /\ \A id \in DOMAIN row :
          \/ row'[id] = row[id] /\ \A w \in k.writes : w.on = id => ~T!Finds(w)
          \/ \E w \in k.writes : w.on = id /\ T!Finds(w) /\ row'[id] = T!Written(w)
    /\ \A id \in DOMAIN told :
          \/ \E w \in k.writes : w.on = id /\ w.tells # None /\ T!Finds(w) /\ told'[id] = w.tells
          \/ id \in DOMAIN k.says /\ told'[id] = k.says[id]
          \/ id \notin DOMAIN k.says /\ told'[id] = told[id]

\* A commit applies its statements, or nothing; the tables and the outbox stay what
\* they are, and the command is over.
LEMMA CommitApplies ==
    ASSUME NEW c, T!Commit(c)
    PROVE  /\ call[c] # None
           /\ call' = [call EXCEPT ![c] = None]
           /\ DOMAIN row' = DOMAIN row
           /\ DOMAIN told' = DOMAIN told
           /\ Applied(call[c]) \/ UNCHANGED <<row, told>>
<1> DEFINE k == call[c]
           on(id) == {w \in k.writes : w.on = id /\ T!Finds(w)}
           tell(id) == {w \in k.writes : w.on = id /\ w.tells # None /\ T!Finds(w)}
<1>1. call[c] # None /\ call' = [call EXCEPT ![c] = None]
  BY DEF T!Commit
<1>2. CASE ~\A w \in k.writes : w.must => T!Finds(w)
  BY <1>1, <1>2 DEF T!Commit
<1>3. CASE \A w \in k.writes : w.must => T!Finds(w)
  <2>1. row' = [id \in DOMAIN row |->
                   IF on(id) = {} THEN row[id] ELSE T!Written(CHOOSE w \in on(id) : TRUE)]
    BY <1>3 DEF T!Commit
  <2>2. told' = [id \in DOMAIN told |->
                   IF tell(id) # {} THEN (CHOOSE w \in tell(id) : TRUE).tells
                   ELSE IF id \in DOMAIN k.says THEN k.says[id] ELSE told[id]]
    BY <1>3 DEF T!Commit
  <2>3. ASSUME NEW id \in DOMAIN row
        PROVE  \/ row'[id] = row[id] /\ \A w \in k.writes : w.on = id => ~T!Finds(w)
               \/ \E w \in k.writes : w.on = id /\ T!Finds(w) /\ row'[id] = T!Written(w)
    <3>1. CASE on(id) = {}
      BY <2>1, <3>1
    <3>2. CASE on(id) # {}
      <4> DEFINE w == CHOOSE v \in on(id) : TRUE
      <4>1. w \in on(id)
        BY <3>2
      <4>2. row'[id] = T!Written(w)
        BY <2>1, <3>2
      <4> HIDE DEF w
      <4> QED BY <4>1, <4>2
    <3> QED BY <3>1, <3>2
  <2>4. ASSUME NEW id \in DOMAIN told
        PROVE  \/ \E w \in k.writes : w.on = id /\ w.tells # None /\ T!Finds(w) /\ told'[id] = w.tells
               \/ id \in DOMAIN k.says /\ told'[id] = k.says[id]
               \/ id \notin DOMAIN k.says /\ told'[id] = told[id]
    <3>1. CASE tell(id) = {}
      BY <2>2, <3>1
    <3>2. CASE tell(id) # {}
      <4> DEFINE w == CHOOSE v \in tell(id) : TRUE
      <4>1. w \in tell(id)
        BY <3>2
      <4>2. told'[id] = w.tells
        BY <2>2, <3>2
      <4> HIDE DEF w
      <4> QED BY <4>1, <4>2
    <3> QED BY <3>1, <3>2
  <2>5. Applied(k)
    BY <1>3, <2>3, <2>4 DEF Applied
  <2> HIDE DEF k, on, tell
  <2>6. DOMAIN row' = DOMAIN row /\ DOMAIN told' = DOMAIN told
    BY <2>1, <2>2
  <2> QED BY <1>1, <2>5, <2>6 DEF k
<1> QED BY <1>2, <1>3

-----------------------------------------------------------------------------
(* Runs of tools *)

\* The last event of a run with a status
Announced(status) ==
    CASE status = "pending" -> "invoked"
      [] status \in {"denied", "approval_required"} -> "denied"
      [] OTHER -> status

\* What an execution e has got to, the row r of its run and what was told of it, t.
RunSound(e, r, t) ==
    \/ e = None /\ r = None
    \/ /\ e \in A!Execution
       /\ e.stage = "looked_up" => r = None /\ ~e.ran
       /\ e.stage \in A!RunStage \ {"looked_up", "reread", "broken", "ended"} =>
             r \in A!ToolRunRow /\ r.status = "pending" /\ t = "invoked"
       /\ e.stage \in {"reread", "broken"} => r \in A!ToolRunRow
       /\ e.stage \in {"dispatched", "succeeded"} => e.ran
       /\ e.stage \in {"invoked", "denied", "approval_required"} => ~e.ran
       /\ r # None =>
             /\ r \in A!ToolRunRow
             /\ r.status = "succeeded" => e.ran
             /\ r.status \in {"denied", "approval_required"} => ~e.ran
             /\ t = Announced(r.status)

\* A command on tools writes tools, and tells of tools.
OfTools(k) == (\A w \in k.writes : w.on \in Tools) /\ DOMAIN k.says \subseteq Tools

\* The tables are the ones of the module, every command under way is one on tools, and
\* every run is sound.
AutomationInv ==
    /\ DOMAIN row = A!AutomationIds /\ DOMAIN told = A!AutomationIds
    /\ DOMAIN call = ToolCalls /\ DOMAIN exec = ToolRuns
    /\ \A c \in ToolCalls : call[c] # None => OfTools(call[c])
    /\ \A x \in ToolRuns : RunSound(exec[x], row[x], told[x])

LEMMA AutomationInitial == ASSUME A!AutomationInit PROVE AutomationInv
BY DEF A!AutomationInit, AutomationInv, RunSound, A!AutomationIds

\* A commit of a command on tools leaves the runs alone.
LEMMA ToolsCommit ==
    ASSUME AutomationInv, NEW c \in ToolCalls, T!Commit(c), UNCHANGED exec
    PROVE  AutomationInv'
<1>1. /\ call[c] # None
      /\ call' = [call EXCEPT ![c] = None]
      /\ DOMAIN row' = DOMAIN row
      /\ DOMAIN told' = DOMAIN told
  BY CommitApplies
<1>2. Applied(call[c]) \/ UNCHANGED <<row, told>>
  BY CommitApplies
<1>3. OfTools(call[c])
  BY <1>1 DEF AutomationInv
<1>4. \A d \in ToolCalls : call'[d] # None => OfTools(call'[d])
  BY <1>1 DEF AutomationInv
<1>5. ASSUME NEW x \in ToolRuns PROVE row'[x] = row[x] /\ told'[x] = told[x]
  <2>1. x \notin Tools /\ x \in DOMAIN row /\ x \in DOMAIN told
    BY IdsAssumption DEF AutomationInv, A!AutomationIds, Separate
  <2>2. CASE Applied(call[c])
    BY <1>3, <2>1, <2>2 DEF Applied, OfTools
  <2> QED BY <1>2, <2>2
<1> QED BY <1>1, <1>4, <1>5 DEF AutomationInv

\* A command begins.
LEMMA ToolsBegin ==
    ASSUME AutomationInv, NEW c \in ToolCalls, NEW writes, NEW says, A!Begin(c, writes, says),
           \A w \in writes : w.on \in Tools, DOMAIN says \subseteq Tools, UNCHANGED exec
    PROVE  AutomationInv'
<1>1. OfTools([writes |-> writes, says |-> says])
  BY DEF OfTools
<1>2. /\ call' = [call EXCEPT ![c] = [writes |-> writes, says |-> says]]
      /\ UNCHANGED <<row, told>>
  BY DEF A!Begin
<1>3. \A d \in ToolCalls : call'[d] # None => OfTools(call'[d])
  BY <1>1, <1>2 DEF AutomationInv
<1> QED BY <1>2, <1>3 DEF AutomationInv

\* A step of one execution: it leaves the others alone, and its own run sound.
RunMoves(x) ==
    /\ UNCHANGED call
    /\ DOMAIN row' = DOMAIN row /\ DOMAIN told' = DOMAIN told /\ DOMAIN exec' = DOMAIN exec
    /\ RunSound(exec'[x], row'[x], told'[x])
    /\ \A y \in ToolRuns \ {x} : exec'[y] = exec[y] /\ row'[y] = row[y] /\ told'[y] = told[y]

\* What the gate may say.
LEMMA GateSays ==
    ASSUME NEW def, NEW approved, NEW escapes,
           NEW engine \in {"none", "allow", "denied", "approval_required"}
    PROVE  A!Gate(def, approved, escapes, engine) \in {"allow", "denied", "approval_required"}
BY DEF A!Gate

\* An execution at a stage is one of the type.
LEMMA RunAt ==
    ASSUME AutomationInv, NEW x \in ToolRuns, NEW stage, A!At(x, stage)
    PROVE  /\ exec[x] \in A!Execution /\ exec[x].stage = stage
           /\ RunSound(exec[x], row[x], told[x])
           /\ x \in DOMAIN row /\ x \in DOMAIN told /\ x \in DOMAIN exec
<1>1. RunSound(exec[x], row[x], told[x]) /\ exec[x] # None /\ exec[x].stage = stage
  BY DEF AutomationInv, A!At
<1> QED BY <1>1 DEF AutomationInv, A!AutomationIds, RunSound

\* An execution goes to a stage: its record is the old one but for that.
LEMMA RunGoes ==
    ASSUME AutomationInv, NEW x \in ToolRuns, NEW from, A!At(x, from),
           NEW stage \in A!RunStage, A!Goes(x, stage)
    PROVE  /\ exec'[x] \in A!Execution
           /\ exec'[x].stage = stage /\ exec'[x].ran = exec[x].ran
           /\ DOMAIN exec' = DOMAIN exec
           /\ \A y \in ToolRuns \ {x} : exec'[y] = exec[y]
<1>1. exec[x] \in A!Execution /\ x \in DOMAIN exec
  BY RunAt
<1>2. exec' = [exec EXCEPT ![x] = [exec[x] EXCEPT !.stage = stage]]
  BY DEF A!Goes
<1>3. exec'[x] = [exec[x] EXCEPT !.stage = stage]
  BY <1>1, <1>2
<1>4. [exec[x] EXCEPT !.stage = stage] \in A!Execution
  BY <1>1 DEF A!Execution
<1>5. /\ [exec[x] EXCEPT !.stage = stage].stage = stage
      /\ [exec[x] EXCEPT !.stage = stage].ran = exec[x].ran
  BY <1>1 DEF A!Execution
<1> QED BY <1>1, <1>2, <1>3, <1>4, <1>5 DEF AutomationInv

LEMMA LookUpMoves ==
    ASSUME AutomationInv, NEW x \in ToolRuns, NEW p \in Processes, NEW n \in Names,
           NEW approved \in BOOLEAN, A!LookUp(x, p, n, approved)
    PROVE  RunMoves(x)
<1> DEFINE e == [at |-> p, name |-> n, stage |-> "looked_up", approved |-> approved, ran |-> FALSE]
<1>1. exec[x] = None /\ exec' = [exec EXCEPT ![x] = e] /\ UNCHANGED <<row, told, call>>
  BY DEF A!LookUp, A!txVars
<1>2. e \in A!Execution /\ e.stage = "looked_up" /\ ~e.ran
  BY DEF A!Execution, A!RunStage
<1>3. x \in DOMAIN exec /\ RunSound(exec[x], row[x], told[x])
  BY DEF AutomationInv
<1>4. row[x] = None
  BY <1>1, <1>3, NoneAssumption DEF RunSound
<1> HIDE DEF e
<1>5. RunSound(e, None, told[x])
  BY <1>2 DEF RunSound
<1>6. exec'[x] = e
  BY <1>1, <1>3
<1> QED BY <1>1, <1>4, <1>5, <1>6 DEF RunMoves, AutomationInv

LEMMA InvokeMoves ==
    ASSUME AutomationInv, NEW x \in ToolRuns, A!Invoke(x)
    PROVE  RunMoves(x)
<1> DEFINE r == [tool |-> exec[x].name, status |-> "pending", version |-> 0]
<1>1. A!At(x, "looked_up") /\ A!Goes(x, "invoked") /\ row' = [row EXCEPT ![x] = r]
      /\ told' = A!Over(A!AutomationSays(x, "invoked"), told) /\ UNCHANGED call
  BY DEF A!Invoke, A!InsertRun
<1>2. /\ exec[x] \in A!Execution /\ exec[x].stage = "looked_up"
      /\ RunSound(exec[x], row[x], told[x])
      /\ x \in DOMAIN row /\ x \in DOMAIN told
  BY <1>1, RunAt
<1>3. /\ exec'[x] \in A!Execution
      /\ exec'[x].stage = "invoked" /\ exec'[x].ran = exec[x].ran
      /\ DOMAIN exec' = DOMAIN exec
      /\ \A y \in ToolRuns \ {x} : exec'[y] = exec[y]
  BY <1>1, RunGoes DEF A!RunStage
<1>4. ~exec[x].ran
  BY <1>2, NoneAssumption DEF RunSound
<1>5. r \in A!ToolRunRow /\ r.status = "pending"
  BY <1>2 DEF A!Execution, A!ToolRunRow, A!RunStatus
<1>6. /\ DOMAIN told' = DOMAIN told /\ told'[x] = "invoked"
      /\ \A y \in ToolRuns \ {x} : told'[y] = told[y]
  BY <1>1, <1>2 DEF A!Over, A!AutomationSays, AutomationInv, A!AutomationIds
<1> HIDE DEF r
<1>7. row'[x] = r /\ DOMAIN row' = DOMAIN row /\ \A y \in ToolRuns \ {x} : row'[y] = row[y]
  BY <1>1, <1>2
<1>8. RunSound(exec'[x], r, "invoked")
  BY <1>3, <1>4, <1>5 DEF RunSound, Announced
<1> QED BY <1>1, <1>3, <1>6, <1>7, <1>8 DEF RunMoves

LEMMA DispatchMoves ==
    ASSUME AutomationInv, NEW x \in ToolRuns, NEW escapes,
           NEW engine \in {"none", "allow", "denied", "approval_required"},
           A!Dispatch(x, escapes, engine)
    PROVE  RunMoves(x)
<1> DEFINE known == exec[x].name \in DOMAIN registry[exec[x].at]
           gate == IF known THEN A!Gate(registry[exec[x].at][exec[x].name], exec[x].approved,
                                        escapes, engine)
                   ELSE "broken"
           stage == IF gate = "allow" THEN "dispatched" ELSE gate
           ran == gate = "allow"
<1>1. A!At(x, "invoked") /\ UNCHANGED <<row, told, call>>
      /\ exec' = [exec EXCEPT ![x].stage = stage, ![x].ran = ran]
  BY DEF A!Dispatch, A!txVars
<1>2. gate \in {"broken", "allow", "denied", "approval_required"}
  BY GateSays
<1> HIDE DEF gate
<1>3. stage \in {"broken", "dispatched", "denied", "approval_required"} /\ ran \in BOOLEAN
      /\ (stage = "dispatched" <=> ran)
  BY <1>2
<1>4. /\ exec[x] \in A!Execution /\ exec[x].stage = "invoked"
      /\ RunSound(exec[x], row[x], told[x])
      /\ x \in DOMAIN exec
  BY <1>1, RunAt
<1> HIDE DEF stage, ran
<1> DEFINE e1 == [exec[x] EXCEPT !.stage = stage]
           e == [e1 EXCEPT !.ran = ran]
<1>5. e1 \in A!Execution /\ e1.stage = stage
  BY <1>3, <1>4 DEF A!Execution, A!RunStage
<1>6. exec' = [exec EXCEPT ![x] = e]
  BY <1>1, <1>4
<1> HIDE DEF e1
<1>7. e \in A!Execution /\ e.stage = stage /\ e.ran = ran
  BY <1>3, <1>5 DEF A!Execution
<1>8. exec'[x] = e /\ DOMAIN exec' = DOMAIN exec /\ \A y \in ToolRuns \ {x} : exec'[y] = exec[y]
  BY <1>4, <1>6 DEF AutomationInv
<1> HIDE DEF e
<1>9. row[x] \in A!ToolRunRow /\ row[x].status = "pending" /\ told[x] = "invoked"
  BY <1>4, NoneAssumption DEF RunSound, A!RunStage
<1>10. RunSound(e, row[x], told[x])
  BY <1>3, <1>7, <1>9 DEF RunSound, Announced
<1> QED BY <1>1, <1>8, <1>10 DEF RunMoves

LEMMA ReturnMoves ==
    ASSUME AutomationInv, NEW x \in ToolRuns, NEW stage \in {"succeeded", "failed", "broken"},
           A!Return(x, stage)
    PROVE  RunMoves(x)
<1>1. A!At(x, "dispatched") /\ A!Goes(x, stage) /\ UNCHANGED <<row, told, call>>
  BY DEF A!Return, A!txVars
<1>2. stage \in A!RunStage
  BY DEF A!RunStage
<1>3. /\ exec[x] \in A!Execution /\ exec[x].stage = "dispatched"
      /\ RunSound(exec[x], row[x], told[x])
  BY <1>1, RunAt
<1>4. /\ exec'[x] \in A!Execution
      /\ exec'[x].stage = stage /\ exec'[x].ran = exec[x].ran
      /\ DOMAIN exec' = DOMAIN exec
      /\ \A y \in ToolRuns \ {x} : exec'[y] = exec[y]
  BY <1>1, <1>2, RunGoes
<1>5. /\ row[x] \in A!ToolRunRow /\ row[x].status = "pending" /\ told[x] = "invoked"
      /\ exec[x].ran
  BY <1>3, NoneAssumption DEF RunSound, A!RunStage
<1>6. RunSound(exec'[x], row[x], told[x])
  BY <1>2, <1>4, <1>5 DEF RunSound, Announced
<1> QED BY <1>1, <1>4, <1>6 DEF RunMoves

LEMMA RecordMoves ==
    ASSUME AutomationInv, NEW x \in ToolRuns, A!Record(x)
    PROVE  RunMoves(x)
<1>1. PICK outcome \in {"succeeded", "failed", "denied", "approval_required", "broken"} :
          /\ A!At(x, outcome) /\ A!UpdateRun(x, A!StatusOf(outcome))
          /\ told' = A!Over(A!AutomationSays(x, A!AnnouncedAs(outcome)), told)
          /\ A!Goes(x, IF outcome \in {"succeeded", "failed"} THEN "reread" ELSE "ended")
  BY DEF A!Record
<1> DEFINE status == A!StatusOf(outcome)
           event == A!AnnouncedAs(outcome)
           next == IF outcome \in {"succeeded", "failed"} THEN "reread" ELSE "ended"
<1>2. /\ status \in A!RunStatus \ {"pending"} /\ event = Announced(status)
      /\ next \in {"reread", "ended"} /\ next \in A!RunStage
  BY DEF A!StatusOf, A!AnnouncedAs, Announced, A!RunStatus, A!RunStage
<1>3. /\ exec[x] \in A!Execution /\ exec[x].stage = outcome
      /\ RunSound(exec[x], row[x], told[x])
      /\ x \in DOMAIN row /\ x \in DOMAIN told
  BY <1>1, RunAt
<1>4. /\ exec'[x] \in A!Execution
      /\ exec'[x].stage = next /\ exec'[x].ran = exec[x].ran
      /\ DOMAIN exec' = DOMAIN exec
      /\ \A y \in ToolRuns \ {x} : exec'[y] = exec[y]
  BY <1>1, <1>2, RunGoes
<1>5. row[x] \in A!ToolRunRow
  BY <1>1, <1>3, NoneAssumption DEF RunSound, A!RunStage
<1>6. /\ status = "succeeded" => exec[x].ran
      /\ status \in {"denied", "approval_required"} => ~exec[x].ran
  BY <1>1, <1>3, NoneAssumption DEF RunSound, A!StatusOf
<1>7. UNCHANGED call
  BY DEF A!Record
<1> HIDE DEF next, status, event
<1> DEFINE r == [row[x] EXCEPT !.status = status]
<1>8. row' = [row EXCEPT ![x] = r]
  BY <1>1 DEF A!UpdateRun, status
<1>9. r \in A!ToolRunRow /\ r.status = status
  BY <1>2, <1>5 DEF A!ToolRunRow
<1> HIDE DEF r
<1>10. row'[x] = r /\ DOMAIN row' = DOMAIN row /\ \A y \in ToolRuns \ {x} : row'[y] = row[y]
  BY <1>3, <1>8
<1>11. /\ DOMAIN told' = DOMAIN told /\ told'[x] = event
       /\ \A y \in ToolRuns \ {x} : told'[y] = told[y]
  BY <1>1, <1>3 DEF A!Over, A!AutomationSays, AutomationInv, A!AutomationIds, event
<1>12. RunSound(exec'[x], r, event)
  BY <1>2, <1>4, <1>6, <1>9 DEF RunSound
<1> QED BY <1>4, <1>7, <1>10, <1>11, <1>12 DEF RunMoves

LEMMA ReReadMoves ==
    ASSUME AutomationInv, NEW x \in ToolRuns, A!ReRead(x)
    PROVE  RunMoves(x)
<1>1. A!At(x, "reread") /\ A!Goes(x, "ended") /\ UNCHANGED <<row, told, call>>
  BY DEF A!ReRead, A!txVars
<1>2. /\ exec[x] \in A!Execution /\ exec[x].stage = "reread"
      /\ RunSound(exec[x], row[x], told[x])
  BY <1>1, RunAt
<1>3. /\ exec'[x] \in A!Execution
      /\ exec'[x].stage = "ended" /\ exec'[x].ran = exec[x].ran
      /\ DOMAIN exec' = DOMAIN exec
      /\ \A y \in ToolRuns \ {x} : exec'[y] = exec[y]
  BY <1>1, RunGoes DEF A!RunStage
<1>4. RunSound(exec'[x], row[x], told[x])
  BY <1>2, <1>3, NoneAssumption DEF RunSound
<1> QED BY <1>1, <1>3, <1>4 DEF RunMoves

LEMMA RecordFailsMoves ==
    ASSUME AutomationInv, NEW x \in ToolRuns, A!RecordFails(x)
    PROVE  RunMoves(x)
<1>1. UNCHANGED <<row, told, call>>
  BY DEF A!RecordFails, A!txVars
<1>2. PICK from \in A!RunStage \ {"looked_up", "ended"}, to \in {"broken", "ended"} :
          A!At(x, from) /\ A!Goes(x, to)
  BY DEF A!RecordFails, A!RunStage
<1>3. /\ exec[x] \in A!Execution /\ exec[x].stage = from
      /\ RunSound(exec[x], row[x], told[x])
  BY <1>2, RunAt
<1>4. /\ exec'[x] \in A!Execution
      /\ exec'[x].stage = to /\ exec'[x].ran = exec[x].ran
      /\ DOMAIN exec' = DOMAIN exec
      /\ \A y \in ToolRuns \ {x} : exec'[y] = exec[y]
  BY <1>2, RunGoes DEF A!RunStage
<1>5. row[x] \in A!ToolRunRow
  BY <1>2, <1>3, NoneAssumption DEF RunSound, A!RunStage
<1>6. row[x] # None
  BY <1>3, <1>5, NoneAssumption, <1>2 DEF RunSound, A!RunStage, A!ToolRunRow
<1>7. RunSound(exec'[x], row[x], told[x])
  BY <1>2, <1>3, <1>4, <1>5, <1>6, NoneAssumption DEF RunSound
<1> QED BY <1>1, <1>4, <1>7 DEF RunMoves

\* The steps of an execution.
LEMMA RunStep ==
    ASSUME AutomationInv, NEW x \in ToolRuns, A!RunSteps(x)
    PROVE  AutomationInv'
<1>1. RunMoves(x)
  BY LookUpMoves, InvokeMoves, DispatchMoves, ReturnMoves, RecordMoves, ReReadMoves,
     RecordFailsMoves
  DEF A!RunSteps
<1> QED BY <1>1 DEF RunMoves, AutomationInv

\* A process dies.
LEMMA RestartStep ==
    ASSUME AutomationInv, NEW p \in Processes, A!Restart(p)
    PROVE  AutomationInv'
<1>1. UNCHANGED <<row, told>> /\ DOMAIN call' = ToolCalls /\ DOMAIN exec' = ToolRuns
  BY DEF A!Restart
<1>2. \A c \in ToolCalls : call'[c] # None => OfTools(call'[c])
  BY DEF A!Restart, AutomationInv
<1>3. ASSUME NEW x \in ToolRuns PROVE RunSound(exec'[x], row[x], told[x])
  <2>1. \/ exec'[x] = exec[x]
        \/ exec[x] # None /\ exec'[x] = [exec[x] EXCEPT !.stage = "ended"]
    BY DEF A!Restart
  <2>2. RunSound(exec[x], row[x], told[x])
    BY DEF AutomationInv
  <2>3. CASE exec[x] # None /\ exec'[x] = [exec[x] EXCEPT !.stage = "ended"]
    <3> DEFINE e == [exec[x] EXCEPT !.stage = "ended"]
    <3>1. exec[x] \in A!Execution
      BY <2>2, <2>3 DEF RunSound
    <3>2. e \in A!Execution /\ e.stage = "ended" /\ e.ran = exec[x].ran
      BY <3>1 DEF A!Execution, A!RunStage
    <3>3. exec'[x] = e
      BY <2>3
    <3> HIDE DEF e
    <3>4. row[x] # None =>
            /\ row[x] \in A!ToolRunRow
            /\ row[x].status = "succeeded" => exec[x].ran
            /\ row[x].status \in {"denied", "approval_required"} => ~exec[x].ran
            /\ told[x] = Announced(row[x].status)
      BY <2>2 DEF RunSound
    <3> QED BY <3>2, <3>3, <3>4 DEF RunSound
  <2> QED BY <2>1, <2>2, <2>3
<1> QED BY <1>1, <1>2, <1>3 DEF AutomationInv

\* The commands on tools.
LEMMA ToolStep ==
    ASSUME AutomationInv, NEW c \in ToolCalls, NEW p \in Processes, A!ToolRequests(c, p)
    PROVE  AutomationInv'
<1> DEFINE Begins(t, w, says) ==
              A!Begin(c, {w}, says) /\ w.on = t /\ DOMAIN says = {t} /\ UNCHANGED exec
<1> USE DEF A!AutomationSays, A!Mirrors
<1>1. ASSUME NEW t \in Tools, NEW n, NEW def, A!RegisterTool(c, p, t, n, def)
      PROVE  \E w, says : Begins(t, w, says)
  <2>1. A!InsertTool(t, n, def).on = t
    BY DEF A!InsertTool, A!Unique, A!Insert
  <2>2. Begins(t, A!InsertTool(t, n, def), A!AutomationSays(t, "registered"))
    BY <1>1, <2>1 DEF A!RegisterTool
  <2> QED BY <2>2
<1>2. ASSUME NEW t \in Tools, NEW patch, NEW v, A!EditTool(c, p, t, patch, v)
      PROVE  \E w, says : Begins(t, w, says)
  <2>1. A!UpdateTool(t, patch, v).on = t
    BY DEF A!UpdateTool, A!Update, A!Insert
  <2>2. Begins(t, A!UpdateTool(t, patch, v), A!AutomationSays(t, "updated"))
    BY <1>2, <2>1 DEF A!EditTool
  <2> QED BY <2>2
<1>3. ASSUME NEW t \in Tools, A!DeregisterTool(c, p, t)
      PROVE  \E w, says : Begins(t, w, says)
  <2>1. A!DeleteTool(t).on = t
    BY DEF A!DeleteTool, A!Delete, A!Attempt, A!Update, A!Insert
  <2>2. Begins(t, A!DeleteTool(t), A!AutomationSays(t, "deregistered"))
    BY <1>3, <2>1 DEF A!DeregisterTool
  <2> QED BY <2>2
<1>4. \E t \in Tools : \E w, says : Begins(t, w, says)
  BY <1>1, <1>2, <1>3 DEF A!ToolRequests
<1> QED BY <1>4, ToolsBegin

LEMMA AutomationStep ==
    ASSUME AutomationInv, A!AutomationNext
    PROVE  AutomationInv'
<1>1. ASSUME NEW c \in ToolCalls, A!Mirrored(c) PROVE AutomationInv'
  BY <1>1 DEF A!Mirrored, A!txVars, AutomationInv
<1>2. ASSUME NEW c \in ToolCalls, A!Commit(c), UNCHANGED exec PROVE AutomationInv'
  <2>1. T!Commit(c)
    BY <1>2 DEF A!Commit, T!Commit, A!Finds, T!Finds, A!Clashes, T!Clashes, A!Written, T!Written,
                A!Over, T!Over
  <2> QED BY <1>2, <2>1, ToolsCommit
<1>3. ASSUME NEW c \in ToolCalls, A!Rollback(c), UNCHANGED exec PROVE AutomationInv'
  BY <1>3 DEF A!Rollback, AutomationInv
<1> QED BY <1>1, <1>2, <1>3, ToolStep, RunStep, RestartStep DEF A!AutomationNext, A!Finishes

\* The record of a run of a tool tells the truth about it, whatever fails on the way: a
\* run recorded as succeeded did run, one recorded as denied or waiting for approval did
\* not, and the last event says what the row says (execute_tool and ToolExecutor).
THEOREM ToolRunsTruthful == Spec => []RunsTruthful
<1> DEFINE Inv == part = "automation" => AutomationInv
<1>1. Init => Inv
  BY AutomationInitial DEF Init, StudioParts, ProductionParts, LiveRecordParts, QualityParts,
     WorkspaceParts
<1>2. Inv /\ [Next]_vars => Inv'
  <2> SUFFICES ASSUME Inv, [Next]_vars, part' = "automation" PROVE AutomationInv'
    OBVIOUS
  <2>1. CASE UNCHANGED vars
    BY <2>1 DEF vars, processVars, AutomationInv
  <2>2. CASE A!AutomationNext /\ UNCHANGED part
    BY <2>2, AutomationStep
  <2> QED BY <2>1, <2>2 DEF Next, Tables
<1>3. Inv => RunsTruthful
  <2> SUFFICES ASSUME AutomationInv, NEW x \in ToolRuns, A!Present(x)
               PROVE  /\ row[x].status = "succeeded" => exec[x].ran
                      /\ row[x].status \in {"denied", "approval_required"} => ~exec[x].ran
                      /\ told[x] = CASE row[x].status = "pending" -> "invoked"
                                     [] row[x].status \in {"denied", "approval_required"} -> "denied"
                                     [] OTHER -> row[x].status
    BY DEF RunsTruthful, A!RunsTruthful
  <2> QED BY DEF AutomationInv, RunSound, A!Present, Announced
<1> QED BY <1>1, <1>2, <1>3, PTL DEF Spec

-----------------------------------------------------------------------------
(* Evaluation runs *)

LEMMA QualityFinish == ASSUME Q!Finish PROVE \E c \in Calls : T!Commit(c) \/ T!Rollback(c)
BY DEF Q!Finish, Q!Commit, T!Commit, Q!Rollback, T!Rollback, Q!Finds, T!Finds, Q!Clashes, T!Clashes,
       Q!Written, T!Written, Q!Over, T!Over

\* Records that have passed have earned it.
PassedEarned(records) == \A record \in records : record.passed => Q!Earned(record)

Complete(records) == records # {} /\ \A record \in records : record.passed

\* A command on evaluation runs writes all of their records, and must find what it
\* writes; what it announces as completed is a run with records that have all passed.
OfRuns(k) ==
    /\ \A w \in k.writes : /\ w.on \in EvalRuns /\ w.must /\ ~w.gone /\ w.tells = None
                           /\ "records" \in DOMAIN w.set /\ PassedEarned(w.set.records)
    /\ \A r \in EvalRuns \intersect DOMAIN k.says : k.says[r] = "COMPLETED" =>
          /\ \E w \in k.writes : w.on = r
          /\ \A w \in k.writes : w.on = r => Complete(w.set.records)

RunsInv ==
    /\ DOMAIN row = Q!QualityIds /\ DOMAIN told = Q!QualityIds /\ DOMAIN call = Calls
    /\ \A r \in EvalRuns : row[r] # None =>
          "records" \in DOMAIN row[r] /\ PassedEarned(row[r].records)
    /\ \A c \in Calls : call[c] # None => OfRuns(call[c])

\* What a statement of such a command leaves of the records.
LEMMA RecordsWritten ==
    ASSUME NEW w, ~w.gone, "records" \in DOMAIN w.set
    PROVE  "records" \in DOMAIN T!Written(w) /\ T!Written(w).records = w.set.records
BY DEF T!Written, T!Over

LEMMA RunsCommit ==
    ASSUME RunsInv, NEW c \in Calls, T!Commit(c)
    PROVE  RunsInv' /\ Q!CompletionEarned
<1>1. /\ call[c] # None
      /\ call' = [call EXCEPT ![c] = None]
      /\ DOMAIN row' = DOMAIN row
      /\ DOMAIN told' = DOMAIN told
  BY CommitApplies
<1>2. Applied(call[c]) \/ UNCHANGED <<row, told>>
  BY CommitApplies
<1>3. OfRuns(call[c])
  BY <1>1 DEF RunsInv
<1>4. \A d \in Calls : call'[d] # None => OfRuns(call'[d])
  BY <1>1 DEF RunsInv
<1>5. ASSUME NEW r \in EvalRuns, row'[r] # None
      PROVE  "records" \in DOMAIN row'[r] /\ PassedEarned(row'[r].records)
  <2>1. CASE row'[r] = row[r]
    BY <1>5, <2>1 DEF RunsInv
  <2>2. CASE row'[r] # row[r]
    <3>1. Applied(call[c]) /\ r \in DOMAIN row
      BY <1>2, <2>2 DEF RunsInv, Q!QualityIds
    <3>2. PICK w \in call[c].writes : row'[r] = T!Written(w)
      BY <2>2, <3>1 DEF Applied
    <3> QED BY <1>3, <3>2, RecordsWritten DEF OfRuns
  <2> QED BY <2>1, <2>2
<1>6. ASSUME NEW r \in EvalRuns, told'[r] # told[r], told'[r] = "COMPLETED"
      PROVE  row'[r].records # {} /\ \A record \in row'[r].records : Q!Earned(record)
  <2>1. Applied(call[c]) /\ r \in DOMAIN row /\ r \in DOMAIN told
    BY <1>2, <1>6 DEF RunsInv, Q!QualityIds
  <2>2. r \in DOMAIN call[c].says /\ call[c].says[r] = "COMPLETED"
    BY <1>3, <1>6, <2>1 DEF Applied, OfRuns
  <2>3. /\ \E w \in call[c].writes : w.on = r /\ T!Finds(w)
        /\ \A w \in call[c].writes : w.on = r => Complete(w.set.records)
    BY <1>3, <2>1, <2>2 DEF Applied, OfRuns
  <2>4. PICK w \in call[c].writes : w.on = r /\ row'[r] = T!Written(w)
    BY <2>1, <2>3 DEF Applied
  <2>5. Complete(w.set.records) /\ PassedEarned(w.set.records) /\ row'[r].records = w.set.records
    BY <1>3, <2>3, <2>4, RecordsWritten DEF OfRuns
  <2> QED BY <2>5 DEF Complete, PassedEarned
<1> QED BY <1>1, <1>4, <1>5, <1>6 DEF RunsInv, Q!CompletionEarned

\* A command on runs begins.
LEMMA RunsBegin ==
    ASSUME RunsInv, NEW c \in Calls, NEW writes, NEW says, Q!Begin(c, writes, says),
           OfRuns([writes |-> writes, says |-> says])
    PROVE  RunsInv' /\ UNCHANGED <<row, told>>
<1>1. /\ call' = [call EXCEPT ![c] = [writes |-> writes, says |-> says]]
      /\ UNCHANGED <<row, told>>
  BY DEF Q!Begin
<1>2. \A d \in Calls : call'[d] # None => OfRuns(call'[d])
  BY <1>1 DEF RunsInv
<1> QED BY <1>1, <1>2 DEF RunsInv

\* A run that is saved, with all of its columns.
LEMMA RunSaved ==
    ASSUME NEW r \in EvalRuns, NEW new, "records" \in DOMAIN new, PassedEarned(new.records), NEW says,
           \A x \in DOMAIN says : x = r /\ (says[x] = "COMPLETED" => Complete(new.records))
    PROVE  OfRuns([writes |-> {Q!SaveEvaluationRun(r, new)}, says |-> says])
<1> DEFINE w == Q!SaveEvaluationRun(r, new)
<1>1. w.on = r /\ w.must /\ ~w.gone /\ w.tells = None
      /\ "records" \in DOMAIN w.set /\ w.set.records = new.records
  BY DEF Q!SaveEvaluationRun, Q!Update, Q!Insert
<1> HIDE DEF w
<1> QED BY <1>1 DEF OfRuns, w

\* record_metric: what passes has evidence, and reaches its threshold.
LEMMA RecordedEarned ==
    ASSUME NEW metric, NEW score, NEW threshold, NEW evidence, NEW blocked
    PROVE  LET record == Q!Recorded(metric, score, threshold, evidence, blocked)
           IN  record.passed => Q!Earned(record)
BY DEF Q!Recorded, Q!Earned

LEMMA RecordMetricBegins ==
    ASSUME RunsInv, NEW c \in Calls, NEW r \in EvalRuns, NEW metric, NEW score, NEW threshold,
           NEW evidence, NEW blocked,
           Q!RecordMetric(c, r, metric, score, threshold, evidence, blocked)
    PROVE  RunsInv' /\ UNCHANGED <<row, told>>
<1> DEFINE record == Q!Recorded(metric, score, threshold, evidence, blocked)
           records == row[r].records \union {record}
           new == Q!Over(Q!Bumped(r, [records |-> records]), row[r])
<1>1. Q!Begin(c, {Q!SaveEvaluationRun(r, new)}, Q!Nothing) /\ row[r] # None
  BY DEF Q!RecordMetric, Q!Present
<1>2. record.passed => Q!Earned(record)
  BY RecordedEarned
<1> HIDE DEF record
<1>3. PassedEarned(records)
  BY <1>1, <1>2 DEF RunsInv, PassedEarned
<1> HIDE DEF records
<1>4. "records" \in DOMAIN new /\ new.records = records
  BY DEF Q!Over, Q!Bumped
<1> HIDE DEF new
<1>5. OfRuns([writes |-> {Q!SaveEvaluationRun(r, new)}, says |-> Q!Nothing])
  BY <1>3, <1>4, RunSaved DEF Q!Nothing
<1> QED BY <1>1, <1>5, RunsBegin

LEMMA FinalizeBegins ==
    ASSUME RunsInv, NEW c \in Calls, NEW r \in EvalRuns, Q!FinalizeEvaluationRun(c, r)
    PROVE  RunsInv' /\ UNCHANGED <<row, told>>
<1> DEFINE verdict == Q!Verdict(row[r].records)
           new == Q!Over(Q!Bumped(r, [status |-> verdict, passed |-> verdict = "COMPLETED",
                                      composite |-> Q!Composite(row[r].records)]), row[r])
<1>1. Q!Begin(c, {Q!SaveEvaluationRun(r, new)}, Q!QualitySays(r, verdict)) /\ row[r] # None
  BY DEF Q!FinalizeEvaluationRun, Q!Present
<1>2. verdict = "COMPLETED" => Complete(row[r].records)
  BY DEF Q!Verdict, Complete
<1> HIDE DEF verdict
<1>3. "records" \in DOMAIN row[r] /\ PassedEarned(row[r].records)
  BY <1>1 DEF RunsInv
<1>4. "records" \in DOMAIN new /\ new.records = row[r].records
  BY <1>3 DEF Q!Over, Q!Bumped
<1> HIDE DEF new
<1>5. OfRuns([writes |-> {Q!SaveEvaluationRun(r, new)}, says |-> Q!QualitySays(r, verdict)])
  BY <1>2, <1>3, <1>4, RunSaved DEF Q!QualitySays
<1> QED BY <1>1, <1>5, RunsBegin

LEMMA StartBegins ==
    ASSUME RunsInv, NEW c \in Calls, NEW r \in EvalRuns, NEW d, Q!StartEvaluationRun(c, r, d)
    PROVE  RunsInv' /\ UNCHANGED <<row, told>>
<1> DEFINE new == [dataset |-> d, status |-> "RUNNING", records |-> {}, composite |-> 0,
                   passed |-> FALSE, version |-> 2]
<1>1. Q!Begin(c, {Q!SaveEvaluationRun(r, new)}, Q!QualitySays(r, "RUNNING"))
  BY DEF Q!StartEvaluationRun
<1>2. "records" \in DOMAIN new /\ new.records = {}
  OBVIOUS
<1> HIDE DEF new
<1>3. OfRuns([writes |-> {Q!SaveEvaluationRun(r, new)}, says |-> Q!QualitySays(r, "RUNNING")])
  BY <1>2, RunSaved DEF Q!QualitySays, PassedEarned
<1> QED BY <1>1, <1>3, RunsBegin

LEMMA RunsStep ==
    ASSUME RunsInv, Q!QualityRunsNext
    PROVE  RunsInv' /\ Q!CompletionEarned
<1>1. ASSUME UNCHANGED told PROVE Q!CompletionEarned
  BY <1>1 DEF Q!CompletionEarned
<1>2. ASSUME NEW c \in Calls, T!Rollback(c) PROVE RunsInv' /\ Q!CompletionEarned
  BY <1>1, <1>2 DEF T!Rollback, RunsInv
<1>3. ASSUME NEW c \in Calls, Q!EvaluationRequests(c) PROVE RunsInv' /\ Q!CompletionEarned
  <2>1. RunsInv' /\ UNCHANGED <<row, told>>
    BY <1>3, RecordMetricBegins, FinalizeBegins, StartBegins
    DEF Q!EvaluationRequests, Q!ExecuteDatasetEvaluation
  <2> QED BY <1>1, <2>1
<1> QED BY <1>2, <1>3, QualityFinish, RunsCommit DEF Q!QualityRunsNext

\* Datasets, reports and comparisons: nothing of theirs is announced as completed.
NothingCompleted(k) ==
    /\ \A w \in k.writes : w.tells = None
    /\ \A id \in DOMAIN k.says : k.says[id] # "COMPLETED"

ReportsInv ==
    /\ DOMAIN row = Q!QualityIds /\ DOMAIN told = Q!QualityIds /\ DOMAIN call = Calls
    /\ \A c \in Calls : call[c] # None => NothingCompleted(call[c])

LEMMA ReportsBegin ==
    ASSUME ReportsInv, NEW c \in Calls, NEW writes, NEW says, Q!Begin(c, writes, says),
           NothingCompleted([writes |-> writes, says |-> says])
    PROVE  ReportsInv' /\ UNCHANGED told
<1>1. /\ call' = [call EXCEPT ![c] = [writes |-> writes, says |-> says]]
      /\ UNCHANGED <<row, told>>
  BY DEF Q!Begin
<1>2. \A d \in Calls : call'[d] # None => NothingCompleted(call'[d])
  BY <1>1 DEF ReportsInv
<1> QED BY <1>1, <1>2 DEF ReportsInv

LEMMA ReportsStep ==
    ASSUME ReportsInv, Q!QualityReportsNext
    PROVE  ReportsInv' /\ Q!CompletionEarned
<1>1. ASSUME UNCHANGED told PROVE Q!CompletionEarned
  BY <1>1 DEF Q!CompletionEarned
<1>2. ASSUME NEW c \in Calls, T!Rollback(c) PROVE ReportsInv' /\ Q!CompletionEarned
  BY <1>1, <1>2 DEF T!Rollback, ReportsInv
<1>3. ASSUME NEW c \in Calls, T!Commit(c) PROVE ReportsInv' /\ Q!CompletionEarned
  <2>1. /\ call[c] # None
        /\ call' = [call EXCEPT ![c] = None]
        /\ DOMAIN row' = DOMAIN row
        /\ DOMAIN told' = DOMAIN told
    BY <1>3, CommitApplies
  <2>2. Applied(call[c]) \/ UNCHANGED <<row, told>>
    BY <1>3, CommitApplies
  <2>3. \A d \in Calls : call'[d] # None => NothingCompleted(call'[d])
    BY <2>1 DEF ReportsInv
  <2>4. \A r \in EvalRuns : told'[r] # told[r] => told'[r] # "COMPLETED"
    <3>1. NothingCompleted(call[c]) /\ \A r \in EvalRuns : r \in DOMAIN told
      BY <2>1 DEF ReportsInv, Q!QualityIds
    <3> QED BY <2>2, <3>1 DEF Applied, NothingCompleted
  <2> QED BY <2>1, <2>3, <2>4 DEF ReportsInv, Q!CompletionEarned
<1>4. ASSUME NEW c \in Calls, NEW w, NEW says, Q!Begin(c, {w}, says), w.tells = None,
             \A id \in DOMAIN says : says[id] # "COMPLETED"
      PROVE  ReportsInv' /\ Q!CompletionEarned
  <2>1. NothingCompleted([writes |-> {w}, says |-> says])
    BY <1>4 DEF NothingCompleted
  <2> QED BY <1>1, <1>4, <2>1, ReportsBegin
<1>5. ASSUME NEW c \in Calls, Q!DatasetRequests(c) PROVE ReportsInv' /\ Q!CompletionEarned
  <2>1. \A d, cases : Q!SaveDataset(d, cases).tells = None
    BY DEF Q!SaveDataset, Q!Update, Q!Insert
  <2>2. \A id \in DOMAIN Q!Nothing : Q!Nothing[id] # "COMPLETED"
    BY DEF Q!Nothing
  <2> QED BY <1>4, <1>5, <2>1, <2>2 DEF Q!DatasetRequests, Q!CreateDataset, Q!AddTestCase
<1>6. ASSUME NEW c \in Calls, Q!VerificationRequests(c) PROVE ReportsInv' /\ Q!CompletionEarned
  <2>1. ASSUME NEW v, NEW checks, Q!RunVerificationSuite(c, v, checks)
        PROVE  ReportsInv' /\ Q!CompletionEarned
    <3> DEFINE gates == [g \in DOMAIN checks |-> Q!GateStatus(checks[g])]
    <3>1. Q!Begin(c, {Q!SaveVerificationReport(v, gates)}, Q!QualitySays(v, Q!Overall(gates)))
      BY <2>1 DEF Q!RunVerificationSuite
    <3> HIDE DEF gates
    <3>2. Q!SaveVerificationReport(v, gates).tells = None
      BY DEF Q!SaveVerificationReport, Q!Insert
    <3>3. Q!Overall(gates) # "COMPLETED"
      BY DEF Q!Overall
    <3>4. \A id \in DOMAIN Q!QualitySays(v, Q!Overall(gates)) :
             Q!QualitySays(v, Q!Overall(gates))[id] # "COMPLETED"
      BY <3>3 DEF Q!QualitySays
    <3> QED BY <1>4, <3>1, <3>2, <3>4
  <2>2. ASSUME NEW x, NEW candidate, NEW baseline, Q!CompareBaseline(c, x, candidate, baseline)
        PROVE  ReportsInv' /\ Q!CompletionEarned
    <3> DEFINE compared == Q!Compared(candidate, baseline, 5, 70)
               says == IF compared.regression THEN Q!QualitySays(x, "regression") ELSE Q!Nothing
    <3>1. Q!Begin(c, {Q!SaveBaselineComparison(x, compared)}, says)
      BY <2>2 DEF Q!CompareBaseline
    <3> HIDE DEF compared
    <3>2. Q!SaveBaselineComparison(x, compared).tells = None
      BY DEF Q!SaveBaselineComparison, Q!Insert
    <3>3. \A id \in DOMAIN says : says[id] # "COMPLETED"
      BY DEF Q!QualitySays, Q!Nothing
    <3> HIDE DEF says
    <3> QED BY <1>4, <3>1, <3>2, <3>3
  <2> QED BY <1>6, <2>1, <2>2 DEF Q!VerificationRequests
<1> QED BY <1>2, <1>3, <1>5, <1>6, QualityFinish DEF Q!QualityReportsNext

\* However commands on it race, an evaluation run is announced as completed only with
\* metrics stored, each of which has evidence and reaches its threshold (record_metric
\* and finalize of EvaluationRunAggregate, save_evaluation_run without a version).
THEOREM RunsCompletedEarned == Spec => CompletedEarned
<1> DEFINE Inv == (part = "evaluation" => RunsInv) /\ (part = "verification" => ReportsInv)
<1>1. Init => Inv
  <2>1. Q!QualityInit => RunsInv /\ ReportsInv
    BY DEF Q!QualityInit, RunsInv, ReportsInv, Q!QualityIds
  <2> QED BY <2>1 DEF Init, StudioParts, ProductionParts, LiveRecordParts, QualityParts,
             WorkspaceParts
<1>2. Inv /\ [Next]_vars => Inv' /\ [(part \in QualityParts) => Q!CompletionEarned]_vars
  <2> SUFFICES ASSUME Inv, [Next]_vars
               PROVE  Inv' /\ [(part \in QualityParts) => Q!CompletionEarned]_vars
    OBVIOUS
  <2>1. CASE UNCHANGED vars
    BY <2>1 DEF vars, processVars, RunsInv, ReportsInv
  <2>2. CASE part = "evaluation" /\ Q!QualityRunsNext /\ UNCHANGED part
    BY <2>2, RunsStep
  <2>3. CASE part = "verification" /\ Q!QualityReportsNext /\ UNCHANGED part
    BY <2>3, ReportsStep
  <2>4. CASE part \notin QualityParts /\ UNCHANGED part
    BY <2>4 DEF QualityParts
  <2> QED BY <2>1, <2>2, <2>3, <2>4 DEF Next, Tables, QualityParts
<1> QED BY <1>1, <1>2, PTL DEF Spec, CompletedEarned

-----------------------------------------------------------------------------
(* Memories *)

LEMMA MemoryFinish == ASSUME M!Finish PROVE \E c \in Calls : T!Commit(c) \/ T!Rollback(c)
BY DEF M!Finish, M!Commit, T!Commit, M!Rollback, T!Rollback, M!Finds, T!Finds, M!Clashes, T!Clashes,
       M!Written, T!Written, M!Over, T!Over

\* A row with a content, its revision and its version.
Numbered(r) ==
    /\ "value" \in DOMAIN r /\ "revision" \in DOMAIN r /\ "version" \in DOMAIN r
    /\ r.revision \in Nat /\ r.version \in Nat

\* What may be written over a row: a later version, and with another content a later
\* revision.
Succeeds(set, r) ==
    Numbered(set) /\ set.version > r.version /\ (set.value = r.value \/ set.revision > r.revision)

\* What an UPDATE for a version may do to the row that is there now: it finds a later
\* version, or it may write over it.
Usable(set, where, r) ==
    where <= r.version /\ (where = r.version => set.value = r.value \/ set.revision > r.revision)

\* Of identifiers that are made up, an INSERT is of one that has never been used, any
\* other statement of one that has been.
StatementSound(w) ==
    /\ w.on \in Memories
    /\ w.fresh => ~w.gone
    /\ ~w.gone => Numbered(w.set)
    /\ w.on \notin Named =>
          IF w.fresh THEN row[w.on] = None /\ told[w.on] = None
          ELSE /\ told[w.on] # None
               /\ ~w.gone => /\ w.where \in Nat /\ w.set.version > w.where
                             /\ row[w.on] # None => Usable(w.set, w.where, row[w.on])

\* A command tells of the rows it writes, and of those it makes for sure.
MemoryCall(k) ==
    /\ \A w \in k.writes : StatementSound(w)
    /\ \A w \in k.writes : w.fresh => w.on \in DOMAIN k.says
    /\ \A id \in DOMAIN k.says : k.says[id] # None /\ \E w \in k.writes : w.on = id

\* No two commands make the same record, unless a caller has chosen its identifier.
Apart(k, other) ==
    \A w \in k.writes, v \in other.writes : w.fresh /\ w.on \notin Named => w.on # v.on

MemoryInv ==
    /\ DOMAIN row = Memories /\ DOMAIN told = Memories /\ DOMAIN call = Calls
    /\ \A m \in Memories : row[m] # None => Numbered(row[m]) /\ told[m] # None
    /\ \A c \in Calls : call[c] # None => MemoryCall(call[c])
    /\ \A c, d \in Calls : c # d /\ call[c] # None /\ call[d] # None => Apart(call[c], call[d])

\* What a statement that finds its row leaves there.
LEMMA NumberedWritten ==
    ASSUME NEW w, Numbered(w.set), ~w.gone
    PROVE  /\ Numbered(T!Written(w)) /\ T!Written(w).value = w.set.value
           /\ T!Written(w).revision = w.set.revision /\ T!Written(w).version = w.set.version
BY DEF T!Written, T!Over, Numbered

\* A row changes only to one that is made, to none, or to one that succeeds it.
LEMMA MemoryWrites ==
    ASSUME MemoryInv, NEW c \in Calls, call[c] # None, Applied(call[c]), NEW m \in Memories
    PROVE  /\ row'[m] = row[m] \/ row'[m] = None \/ Numbered(row'[m])
           /\ \/ m \in Named
              \/ row'[m] = row[m]
              \/ row'[m] = None
              \/ row[m] = None /\ told[m] = None
                 /\ \E w \in call[c].writes : w.fresh /\ w.on = m
              \/ row[m] # None /\ Succeeds(row'[m], row[m])
           /\ told[m] # None => told'[m] # None
           /\ row[m] = None /\ row'[m] # None => told'[m] # None
           /\ (\A w \in call[c].writes : w.on # m) => row'[m] = row[m] /\ told'[m] = told[m]
<1> DEFINE k == call[c]
<1>1. MemoryCall(k) /\ m \in DOMAIN row /\ m \in DOMAIN told
  BY DEF MemoryInv
<1>2. \A id \in DOMAIN k.says : k.says[id] # None /\ \E w \in k.writes : w.on = id
  BY <1>1 DEF MemoryCall
<1>3. told[m] # None => told'[m] # None
  BY <1>1, <1>2 DEF Applied
<1>4. m \in DOMAIN k.says => told'[m] # None
  BY <1>1, <1>2 DEF Applied
<1>5. \/ row'[m] = row[m]
      \/ \E w \in k.writes : w.on = m /\ T!Finds(w) /\ row'[m] = T!Written(w)
  BY <1>1 DEF Applied
<1>6. (\A w \in k.writes : w.on # m) => row'[m] = row[m] /\ told'[m] = told[m]
  BY <1>1, <1>2 DEF Applied
<1>7. ASSUME NEW w \in k.writes, w.on = m, T!Finds(w), row'[m] = T!Written(w)
      PROVE  /\ row'[m] = None \/ Numbered(row'[m])
             /\ \/ m \in Named
                \/ row'[m] = None
                \/ row[m] = None /\ told[m] = None /\ w.fresh
                \/ row[m] # None /\ Succeeds(row'[m], row[m])
             /\ row[m] = None => w.fresh
  <2>1. StatementSound(w)
    BY <1>1 DEF MemoryCall
  <2>2. CASE w.fresh
    BY <1>7, <2>1, <2>2, NumberedWritten DEF StatementSound, T!Finds
  <2>3. CASE ~w.fresh /\ w.gone
    BY <1>7, <2>3 DEF T!Written, T!Finds
  <2>4. CASE ~w.fresh /\ ~w.gone
    <3>1. row[m] # None /\ Numbered(w.set) /\ Numbered(row'[m])
      BY <1>7, <2>1, <2>4, NumberedWritten DEF StatementSound, T!Finds
    <3>2. ASSUME m \notin Named PROVE Succeeds(row'[m], row[m])
      <4>1. w.where = row[m].version
        BY <1>7, <2>1, <2>4, <3>2, NoneAssumption DEF StatementSound, T!Finds
      <4>2. w.set.version > w.where /\ Usable(w.set, w.where, row[m])
        BY <1>7, <2>1, <2>4, <3>1, <3>2 DEF StatementSound
      <4> QED BY <1>7, <2>4, <3>1, <4>1, <4>2, NumberedWritten DEF Succeeds, Usable
    <3> QED BY <2>4, <3>1, <3>2
  <2> QED BY <2>2, <2>3, <2>4
<1>8. row[m] = None /\ row'[m] # None => m \in DOMAIN k.says
  <2>1. ASSUME row[m] = None, row'[m] # None PROVE \E w \in k.writes : w.on = m /\ w.fresh
    BY <1>5, <1>7, <2>1
  <2> QED BY <1>1, <2>1 DEF MemoryCall
<1> QED BY <1>3, <1>4, <1>5, <1>6, <1>7, <1>8

LEMMA MemoryCommit ==
    ASSUME MemoryInv, NEW c \in Calls, T!Commit(c)
    PROVE  MemoryInv' /\ M!ContentStep
<1>1. /\ call[c] # None
      /\ call' = [call EXCEPT ![c] = None]
      /\ DOMAIN row' = DOMAIN row
      /\ DOMAIN told' = DOMAIN told
  BY CommitApplies
<1>2. \A d \in Calls : call'[d] # None => d # c /\ call'[d] = call[d]
  BY <1>1 DEF MemoryInv
<1>3. DOMAIN call' = Calls /\ \A d, e \in Calls :
         d # e /\ call'[d] # None /\ call'[e] # None => Apart(call'[d], call'[e])
  BY <1>1, <1>2 DEF MemoryInv
<1>4. CASE UNCHANGED <<row, told>>
  <2>1. \A d \in Calls : (call[d] # None => MemoryCall(call[d]))'
    BY <1>2, <1>4 DEF MemoryInv, MemoryCall, StatementSound
  <2> QED BY <1>1, <1>3, <1>4, <2>1 DEF MemoryInv, M!ContentStep
<1>5. CASE Applied(call[c])
  <2>1. ASSUME NEW m \in Memories, row'[m] # None
        PROVE  Numbered(row'[m]) /\ told'[m] # None
    BY <1>1, <1>5, <2>1, MemoryWrites DEF MemoryInv, Succeeds
  <2>2. ASSUME NEW d \in Calls, call'[d] # None, NEW w \in call'[d].writes
        PROVE  StatementSound(w)'
    <3>1. d # c /\ call[d] # None /\ call'[d] = call[d] /\ w \in call[d].writes
      BY <1>2, <2>2
    <3>2. StatementSound(w) /\ Apart(call[d], call[c]) /\ Apart(call[c], call[d])
      BY <1>1, <3>1 DEF MemoryInv, MemoryCall
    <3> DEFINE m == w.on
    <3>3. m \in Memories
      BY <3>2 DEF StatementSound
    <3>6. CASE m \in Named
      BY <3>2, <3>6 DEF StatementSound
    <3>4. CASE w.fresh /\ m \notin Named
      <4>1. \A v \in call[c].writes : v.on # m
        BY <3>1, <3>2, <3>4 DEF Apart
      <4>2. row'[m] = row[m] /\ told'[m] = told[m]
        BY <1>1, <1>5, <3>3, <4>1, MemoryWrites
      <4> QED BY <3>2, <3>4, <4>2 DEF StatementSound
    <3>5. CASE ~w.fresh /\ m \notin Named
      <4>1. told'[m] # None
        BY <1>1, <1>5, <3>2, <3>3, <3>5, MemoryWrites DEF StatementSound
      <4>2. \/ row'[m] = row[m] \/ row'[m] = None
            \/ row[m] # None /\ Succeeds(row'[m], row[m])
        BY <1>1, <1>5, <3>2, <3>3, <3>5, MemoryWrites DEF StatementSound
      <4>3. ASSUME ~w.gone, row'[m] # None PROVE Usable(w.set, w.where, row'[m])
        <5>1. row[m] # None /\ Usable(w.set, w.where, row[m]) /\ w.where \in Nat /\ Numbered(row[m])
          BY <3>2, <3>5, <4>2, <4>3 DEF StatementSound, MemoryInv
        <5> QED BY <4>2, <4>3, <5>1 DEF Usable, Succeeds, Numbered
      <4> QED BY <3>2, <3>5, <4>1, <4>3 DEF StatementSound
    <3> QED BY <3>4, <3>5, <3>6
  <2>3. \A d \in Calls : (call[d] # None => MemoryCall(call[d]))'
    BY <1>2, <2>2 DEF MemoryInv, MemoryCall
  <2>4. ASSUME NEW m \in Memories \ Named, row[m] # None, row'[m] # None,
               row'[m].value # row[m].value
        PROVE  row'[m].revision > row[m].revision
    BY <1>1, <1>5, <2>4, MemoryWrites DEF Succeeds
  <2> QED BY <1>1, <1>3, <2>1, <2>3, <2>4 DEF MemoryInv, M!ContentStep
<1> QED BY <1>4, <1>5, CommitApplies

\* A command begins that writes over rows that are there, or makes ones that are new.
LEMMA MemoryBegin ==
    ASSUME MemoryInv, NEW c \in Calls, NEW writes, NEW says, M!Begin(c, writes, says),
           MemoryCall([writes |-> writes, says |-> says]),
           \A w \in writes : IF w.fresh THEN w.on \in Named \/ M!Unused(w.on) ELSE row[w.on] # None
    PROVE  MemoryInv' /\ UNCHANGED row
<1> DEFINE k == [writes |-> writes, says |-> says]
<1>1. call[c] = None /\ call' = [call EXCEPT ![c] = k] /\ UNCHANGED <<row, told>>
  BY DEF M!Begin
<1>2. MemoryCall(k) /\ k.writes = writes
  OBVIOUS
<1> HIDE DEF k
<1>3. \A d \in Calls : call'[d] = IF d = c THEN k ELSE call[d]
  BY <1>1 DEF MemoryInv
<1>4. ASSUME NEW d \in Calls, call'[d] # None PROVE MemoryCall(call[d])'
  <2>1. MemoryCall(call'[d])
    BY <1>2, <1>3, <1>4 DEF MemoryInv
  <2> QED BY <1>1, <2>1 DEF MemoryCall, StatementSound
<1>5. ASSUME NEW d \in Calls, d # c, call[d] # None PROVE Apart(k, call[d]) /\ Apart(call[d], k)
  <2>1. Apart(k, call[d])
    BY <1>2, <1>5 DEF Apart, M!Unused
  <2>2. ASSUME NEW w \in call[d].writes, NEW v \in writes, w.fresh, w.on \notin Named
        PROVE  w.on # v.on
    <3>1. row[w.on] = None
      BY <1>5, <2>2 DEF MemoryInv, MemoryCall, StatementSound
    <3> QED BY <1>2, <1>5, <2>2, <3>1 DEF M!Unused
  <2> QED BY <1>2, <2>1, <2>2 DEF Apart
<1>6. \A d, e \in Calls : d # e /\ call'[d] # None /\ call'[e] # None => Apart(call'[d], call'[e])
  BY <1>3, <1>5 DEF MemoryInv
<1> QED BY <1>1, <1>4, <1>6 DEF MemoryInv

\* What the commands make of a row succeeds it.
LEMMA SupersededSucceeds ==
    ASSUME NEW r, Numbered(r)
    PROVE  Succeeds(M!Superseded(r), r) /\ M!Superseded(r).value = r.value
<1> DEFINE r1 == [r EXCEPT !.learning.status = "superseded"]
           r2 == [r1 EXCEPT !.revision = r1.revision + 1]
           r3 == [r2 EXCEPT !.version = r2.version + 1]
<1>1. M!Superseded(r) = r3
  BY DEF M!Superseded
<1>2. Numbered(r1) /\ r1.value = r.value /\ r1.revision = r.revision /\ r1.version = r.version
  BY DEF Numbered
<1> HIDE DEF r1
<1>3. Numbered(r2) /\ r2.value = r.value /\ r2.revision = r.revision + 1 /\ r2.version = r.version
  BY <1>2 DEF Numbered
<1> HIDE DEF r2
<1>4. Numbered(r3) /\ r3.value = r.value /\ r3.revision = r.revision + 1 /\ r3.version = r.version + 1
  BY <1>3 DEF Numbered
<1> HIDE DEF r3
<1> QED BY <1>1, <1>4 DEF Succeeds, Numbered

LEMMA DeduplicatedSucceeds ==
    ASSUME NEW r, Numbered(r), NEW t, t = r \/ t = M!Superseded(r), NEW new
    PROVE  Succeeds(M!Deduplicated(t, new), r)
<1>1. Numbered(t) /\ t.value = r.value /\ t.version >= r.version
  BY SupersededSucceeds DEF Succeeds, Numbered
<1> DEFINE t1 == [t EXCEPT !.learning = new.learning]
           t2 == [t1 EXCEPT !.version = t1.version + 1]
<1>2. M!Deduplicated(t, new) = t2
  BY DEF M!Deduplicated
<1>3. Numbered(t1) /\ t1.value = r.value /\ t1.version >= r.version
  BY <1>1 DEF Numbered
<1> HIDE DEF t1
<1>4. Numbered(t2) /\ t2.value = r.value /\ t2.version > r.version
  BY <1>3 DEF Numbered
<1> HIDE DEF t2
<1> QED BY <1>2, <1>4 DEF Succeeds

LEMMA ResavedSucceeds ==
    ASSUME NEW r, Numbered(r), NEW t, t = r \/ t = M!Superseded(r), NEW new, Numbered(new)
    PROVE  Succeeds(M!Resaved(t, new), r)
<1>1. Numbered(t) /\ t.revision >= r.revision /\ t.version >= r.version
  <2>1. CASE t = r
    BY <2>1 DEF Numbered
  <2>2. CASE t = M!Superseded(r)
    <3>1. M!Superseded(r).revision = r.revision + 1
      BY DEF M!Superseded, Numbered
    <3> QED BY <2>2, <3>1, SupersededSucceeds DEF Succeeds, Numbered
  <2> QED BY <2>1, <2>2
<1> DEFINE n1 == [new EXCEPT !.scope = t.scope]
           n2 == [n1 EXCEPT !.key = t.key]
           n3 == [n2 EXCEPT !.revision = t.revision + 1]
           n4 == [n3 EXCEPT !.version = t.version + 1]
<1>2. M!Resaved(t, new) = n4
  BY DEF M!Resaved
<1>3. Numbered(n1)
  BY DEF Numbered
<1> HIDE DEF n1
<1>4. Numbered(n2)
  BY <1>3 DEF Numbered
<1> HIDE DEF n2
<1>5. Numbered(n3) /\ n3.revision = t.revision + 1
  BY <1>1, <1>4 DEF Numbered
<1> HIDE DEF n3
<1>6. Numbered(n4) /\ n4.revision = t.revision + 1 /\ n4.version = t.version + 1
  BY <1>1, <1>5 DEF Numbered
<1> HIDE DEF n4
<1> QED BY <1>1, <1>2, <1>6 DEF Succeeds, Numbered

\* An UPDATE for the version that was read is sound.
LEMMA UpdateSound ==
    ASSUME MemoryInv, NEW m \in Memories, row[m] # None, NEW set, Succeeds(set, row[m])
    PROVE  /\ StatementSound(M!UpdateMemory(m, set))
           /\ M!UpdateMemory(m, set).on = m /\ ~M!UpdateMemory(m, set).fresh
<1> DEFINE w == M!UpdateMemory(m, set)
<1>1. w.on = m /\ w.set = set /\ w.where = row[m].version /\ ~w.fresh /\ ~w.gone
  BY DEF M!UpdateMemory, M!Update, M!Insert
<1>2. told[m] # None /\ Numbered(row[m])
  BY DEF MemoryInv
<1> HIDE DEF w
<1>3. Usable(set, row[m].version, row[m]) /\ row[m].version \in Nat
  BY <1>2 DEF Usable, Succeeds, Numbered
<1> QED BY <1>1, <1>2, <1>3 DEF StatementSound, Succeeds, w

\* And so is a DELETE.
LEMMA DeleteSound ==
    ASSUME MemoryInv, NEW m \in Memories, row[m] # None, NEW what
    PROVE  /\ StatementSound(M!DeleteMemoryRow(m))
           /\ M!DeleteMemoryRow(m).on = m /\ ~M!DeleteMemoryRow(m).fresh
           /\ StatementSound(M!Telling(M!DeleteMemoryRow(m), what))
           /\ M!Telling(M!DeleteMemoryRow(m), what).on = m
           /\ ~M!Telling(M!DeleteMemoryRow(m), what).fresh
<1> DEFINE w == M!DeleteMemoryRow(m)
           v == M!Telling(w, what)
<1>1. w.on = m /\ ~w.fresh /\ w.gone
  BY DEF M!DeleteMemoryRow, M!Delete, M!Attempt, M!Update, M!Insert
<1>2. v.on = m /\ ~v.fresh /\ v.gone
  BY DEF M!Telling, M!DeleteMemoryRow, M!Delete, M!Attempt, M!Update, M!Insert
<1>3. told[m] # None
  BY DEF MemoryInv
<1> HIDE DEF w, v
<1> QED BY <1>1, <1>2, <1>3 DEF StatementSound, w, v

\* What a save has seen of a row: the row, or the row superseded.
LEMMA SeenRows ==
    ASSUME MemoryInv, NEW learning, NEW m \in Memories
    PROVE  \/ M!Seen(learning)[m] = row[m]
           \/ row[m] # None /\ M!Seen(learning)[m] = M!Superseded(row[m])
BY DEF M!Seen, M!Present, MemoryInv

\* A save that writes one statement and marks what it supersedes.
LEMMA SaveBegins ==
    ASSUME MemoryInv, NEW c \in Calls, NEW learning, NEW w, NEW what, what # None,
           StatementSound(w),
           IF w.fresh THEN w.on \in Named \/ M!Unused(w.on) ELSE row[w.on] # None,
           M!Begin(c, M!SaveWrites(learning, w), M!SaveSays(learning, w.on, what))
    PROVE  MemoryInv' /\ UNCHANGED row
<1> DEFINE writes == M!SaveWrites(learning, w)
           says == M!SaveSays(learning, w.on, what)
           olds == {x \in Memories : M!Seen(learning)[x] # row[x]}
           marks == {M!UpdateMemory(x, M!Seen(learning)[x]) : x \in olds \ {w.on}}
<1>1. writes = {w} \union marks
  BY DEF M!SaveWrites
<1>2. ASSUME NEW x \in olds
      PROVE  LET v == M!UpdateMemory(x, M!Seen(learning)[x])
             IN  StatementSound(v) /\ v.on = x /\ ~v.fresh /\ row[x] # None
  <2>1. row[x] # None /\ M!Seen(learning)[x] = M!Superseded(row[x])
    BY SeenRows
  <2>2. Succeeds(M!Seen(learning)[x], row[x])
    BY <2>1, SupersededSucceeds DEF MemoryInv
  <2> QED BY <2>1, <2>2, UpdateSound
<1>3. \A v \in marks : StatementSound(v) /\ ~v.fresh /\ row[v.on] # None
  BY <1>2
<1>4. DOMAIN says = {w.on} \union olds /\ \A id \in DOMAIN says : says[id] \in {what, "superseded"}
  BY DEF M!SaveSays, M!Over, M!MemorySays
<1>5. \A id \in DOMAIN says : \E v \in writes : v.on = id
  BY <1>1, <1>2, <1>4
<1>6. \A v \in writes : StatementSound(v) /\ (v.fresh => v = w)
                        /\ (IF v.fresh THEN v.on \in Named \/ M!Unused(v.on) ELSE row[v.on] # None)
  BY <1>1, <1>3
<1>7. M!Begin(c, writes, says)
  OBVIOUS
<1> HIDE DEF writes, says, olds, marks
<1>8. MemoryCall([writes |-> writes, says |-> says])
  BY <1>4, <1>5, <1>6, NoneAssumption DEF MemoryCall
<1> QED BY <1>6, <1>7, <1>8, MemoryBegin

LEMMA SaveMemoryBegins ==
    ASSUME MemoryInv, NEW c \in Calls, NEW m \in Memories, NEW scope, NEW owner, NEW key,
           NEW value, NEW ttl, NEW learning, M!SaveMemory(c, m, scope, owner, key, value, ttl, learning)
    PROVE  MemoryInv' /\ UNCHANGED row
<1> DEFINE table == M!Seen(learning)
           new == [scope |-> scope, owner |-> owner, key |-> key, value |-> value,
                   hash |-> M!ContentHash(key, value), ttl |-> ttl, learning |-> learning,
                   revision |-> 1, version |-> 1]
<1>1. Numbered(new)
  BY DEF Numbered
<1>2. \/ \E d \in M!Hashed(table, new.hash) :
            M!Begin(c, M!SaveWrites(learning, M!UpdateMemory(d, M!Deduplicated(table[d], new))),
                    M!SaveSays(learning, d, "updated"))
      \/ \E d \in M!Kept(table, scope, owner, key) :
            M!Begin(c, M!SaveWrites(learning, M!UpdateMemory(d, M!Resaved(table[d], new))),
                    M!SaveSays(learning, d, "updated"))
      \/ /\ m \in Named \/ M!Unused(m)
         /\ M!Kept(table, scope, owner, key) = {}
         /\ M!Begin(c, M!SaveWrites(learning, M!InsertMemory(m, new)), M!SaveSays(learning, m, "created"))
  BY DEF M!SaveMemory
<1> HIDE DEF new
<1>3. ASSUME NEW d \in Memories, table[d] # None
      PROVE  /\ row[d] # None /\ Numbered(row[d])
             /\ Succeeds(M!Deduplicated(table[d], new), row[d])
             /\ Succeeds(M!Resaved(table[d], new), row[d])
  <2>1. \/ table[d] = row[d]
        \/ row[d] # None /\ table[d] = M!Superseded(row[d])
    BY SeenRows
  <2>2. row[d] # None
    BY <1>3, <2>1
  <2>3. Numbered(row[d])
    BY <2>2 DEF MemoryInv
  <2> HIDE DEF table
  <2> QED BY <1>1, <2>1, <2>2, <2>3, DeduplicatedSucceeds, ResavedSucceeds
<1> HIDE DEF table
<1>4. ASSUME NEW d \in Memories, row[d] # None, NEW set, Succeeds(set, row[d]),
             M!Begin(c, M!SaveWrites(learning, M!UpdateMemory(d, set)), M!SaveSays(learning, d, "updated"))
      PROVE  MemoryInv' /\ UNCHANGED row
  <2> DEFINE w == M!UpdateMemory(d, set)
  <2>1. StatementSound(w) /\ w.on = d /\ ~w.fresh
    BY <1>4, UpdateSound
  <2>2. M!Begin(c, M!SaveWrites(learning, w), M!SaveSays(learning, w.on, "updated"))
    BY <1>4, <2>1
  <2> HIDE DEF w
  <2>3. row[w.on] # None
    BY <1>4, <2>1
  <2> QED BY <2>1, <2>2, <2>3, SaveBegins, NoneAssumption
<1>5. CASE \E d \in M!Hashed(table, new.hash) :
              M!Begin(c, M!SaveWrites(learning, M!UpdateMemory(d, M!Deduplicated(table[d], new))),
                      M!SaveSays(learning, d, "updated"))
  BY <1>3, <1>4, <1>5 DEF M!Hashed
<1>6. CASE \E d \in M!Kept(table, scope, owner, key) :
              M!Begin(c, M!SaveWrites(learning, M!UpdateMemory(d, M!Resaved(table[d], new))),
                      M!SaveSays(learning, d, "updated"))
  BY <1>3, <1>4, <1>6 DEF M!Kept
<1>7. CASE /\ m \in Named \/ M!Unused(m)
           /\ M!Begin(c, M!SaveWrites(learning, M!InsertMemory(m, new)),
                      M!SaveSays(learning, m, "created"))
  <2> DEFINE w == M!InsertMemory(m, new)
  <2>1. w.on = m /\ w.fresh /\ ~w.gone /\ w.set = new
    BY DEF M!InsertMemory, M!Insert
  <2>2. M!Begin(c, M!SaveWrites(learning, w), M!SaveSays(learning, w.on, "created"))
    BY <1>7, <2>1
  <2> HIDE DEF w
  <2>3. m \in Named \/ (told[m] = None /\ row[m] = None)
    BY <1>7 DEF M!Unused, MemoryInv
  <2>4. StatementSound(w)
    BY <1>1, <2>1, <2>3 DEF StatementSound
  <2> QED BY <1>7, <2>1, <2>2, <2>4, SaveBegins, NoneAssumption
<1> QED BY <1>2, <1>5, <1>6, <1>7

\* A command that only deletes.
LEMMA DeletesBegin ==
    ASSUME MemoryInv, NEW c \in Calls, NEW ids \in SUBSET Memories, \A m \in ids : row[m] # None,
           NEW writes, M!Begin(c, writes, << >>),
           \/ writes = {M!DeleteMemoryRow(m) : m \in ids}
           \/ writes = {M!Telling(M!DeleteMemoryRow(m), "deleted") : m \in ids}
    PROVE  MemoryInv' /\ UNCHANGED row
<1>1. \A m \in ids : /\ StatementSound(M!DeleteMemoryRow(m))
                     /\ M!DeleteMemoryRow(m).on = m /\ ~M!DeleteMemoryRow(m).fresh
                     /\ StatementSound(M!Telling(M!DeleteMemoryRow(m), "deleted"))
                     /\ M!Telling(M!DeleteMemoryRow(m), "deleted").on = m
                     /\ ~M!Telling(M!DeleteMemoryRow(m), "deleted").fresh
  BY DeleteSound
<1>2. \A w \in writes : StatementSound(w) /\ ~w.fresh /\ row[w.on] # None
  BY <1>1
<1>3. MemoryCall([writes |-> writes, says |-> << >>])
  BY <1>2 DEF MemoryCall
<1> QED BY <1>2, <1>3, MemoryBegin

LEMMA SetTtlBegins ==
    ASSUME MemoryInv, NEW c \in Calls, NEW m \in Memories, M!SetTtl(c, m)
    PROVE  MemoryInv' /\ UNCHANGED row
<1> DEFINE r1 == [row[m] EXCEPT !.ttl = TRUE]
           r2 == [r1 EXCEPT !.version = r1.version + 1]
           w == M!UpdateMemory(m, r2)
<1>1. row[m] # None /\ M!Begin(c, {w}, << >>)
  BY DEF M!SetTtl, M!Present
<1>2. Numbered(row[m])
  BY <1>1 DEF MemoryInv
<1>3. Numbered(r1) /\ r1.value = row[m].value /\ r1.version = row[m].version
  BY <1>2 DEF Numbered
<1> HIDE DEF r1
<1>4. Numbered(r2) /\ r2.value = row[m].value /\ r2.version = row[m].version + 1
  BY <1>3 DEF Numbered
<1> HIDE DEF r2
<1>5. Succeeds(r2, row[m])
  BY <1>2, <1>4 DEF Succeeds, Numbered
<1>6. StatementSound(w) /\ w.on = m /\ ~w.fresh
  BY <1>1, <1>5, UpdateSound
<1> HIDE DEF w
<1> DEFINE writes == {w}
<1>7. MemoryCall([writes |-> writes, says |-> << >>])
  BY <1>6 DEF MemoryCall
<1>8. \A v \in writes : IF v.fresh THEN v.on \in Named \/ M!Unused(v.on) ELSE row[v.on] # None
  BY <1>1, <1>6
<1>9. M!Begin(c, writes, << >>)
  BY <1>1
<1> HIDE DEF writes
<1> QED BY <1>7, <1>8, <1>9, MemoryBegin

LEMMA MemoryStep ==
    ASSUME MemoryInv, M!MemoryNext
    PROVE  MemoryInv' /\ M!ContentStep
<1>1. ASSUME UNCHANGED row PROVE M!ContentStep
  BY <1>1 DEF M!ContentStep
<1>2. ASSUME NEW c \in Calls, T!Rollback(c) PROVE MemoryInv' /\ M!ContentStep
  <2>1. call' = [call EXCEPT ![c] = None] /\ UNCHANGED <<row, told>>
    BY <1>2 DEF T!Rollback
  <2>2. \A d \in Calls : call'[d] = None \/ call'[d] = call[d]
    BY <2>1 DEF MemoryInv
  <2>3. \A d \in Calls : (call[d] # None => MemoryCall(call[d]))'
    BY <2>1, <2>2 DEF MemoryInv, MemoryCall, StatementSound
  <2>4. \A d, e \in Calls : d # e /\ call'[d] # None /\ call'[e] # None => Apart(call'[d], call'[e])
    BY <2>2 DEF MemoryInv
  <2> QED BY <1>1, <2>1, <2>3, <2>4 DEF MemoryInv
<1>3. ASSUME NEW c \in Calls, M!SaveRequests(c) PROVE MemoryInv' /\ UNCHANGED row
  BY <1>3, SaveMemoryBegins DEF M!SaveRequests
<1>4. ASSUME NEW c \in Calls, NEW m \in Memories,
             M!DeleteMemory(c, m) \/ M!SetTtl(c, m) \/ M!GetExpired(c, m)
      PROVE  MemoryInv' /\ UNCHANGED row
  <2>1. CASE M!DeleteMemory(c, m)
    <3>1. /\ row[m] # None
          /\ M!Begin(c, {M!Telling(M!DeleteMemoryRow(x), "deleted") : x \in {m}}, << >>)
      <4>1. {M!Telling(M!DeleteMemoryRow(x), "deleted") : x \in {m}}
              = {M!Telling(M!DeleteMemoryRow(m), "deleted")}
        OBVIOUS
      <4>2. M!Begin(c, {M!Telling(M!DeleteMemoryRow(m), "deleted")}, << >>) /\ row[m] # None
        BY <2>1 DEF M!DeleteMemory, M!Present
      <4> QED BY <4>1, <4>2
    <3> QED BY <3>1, DeletesBegin
  <2>2. CASE M!GetExpired(c, m)
    <3>1. /\ row[m] # None
          /\ M!Begin(c, {M!DeleteMemoryRow(x) : x \in {m}}, << >>)
      <4>1. {M!DeleteMemoryRow(x) : x \in {m}} = {M!DeleteMemoryRow(m)}
        OBVIOUS
      <4>2. M!Begin(c, {M!DeleteMemoryRow(m)}, << >>) /\ M!MayExpire(m)
        BY <2>2 DEF M!GetExpired
      <4> QED BY <4>1, <4>2 DEF M!MayExpire, M!Present
    <3> QED BY <3>1, DeletesBegin
  <2> QED BY <1>4, <2>1, <2>2, SetTtlBegins
<1>5. ASSUME NEW c \in Calls, NEW scope, NEW owner, NEW keys, M!ForgetByPattern(c, scope, owner, keys)
      PROVE  MemoryInv' /\ UNCHANGED row
  <2> DEFINE matched == {m \in M!Listed(scope, owner) : row[m].key \in keys}
  <2>1. M!Begin(c, {M!Telling(M!DeleteMemoryRow(m), "deleted") : m \in matched}, << >>)
    BY <1>5 DEF M!ForgetByPattern
  <2>2. matched \in SUBSET Memories /\ \A m \in matched : row[m] # None
    BY DEF M!Listed, M!Present
  <2> HIDE DEF matched
  <2> QED BY <2>1, <2>2, DeletesBegin
<1>6. ASSUME NEW c \in Calls, NEW expired \in SUBSET {m \in Memories : M!MayExpire(m)},
             M!EvictExpired(c, expired)
      PROVE  MemoryInv' /\ UNCHANGED row
  <2>1. M!Begin(c, {M!DeleteMemoryRow(m) : m \in expired}, << >>)
    BY <1>6 DEF M!EvictExpired
  <2>2. expired \in SUBSET Memories /\ \A m \in expired : row[m] # None
    BY DEF M!MayExpire, M!Present
  <2> QED BY <2>1, <2>2, DeletesBegin
<1>7. ASSUME NEW c \in Calls, M!SaveRequests(c) \/ M!ForgetRequests(c) \/ M!ReadRequests(c)
      PROVE  MemoryInv' /\ UNCHANGED row
  BY <1>3, <1>4, <1>5, <1>6, <1>7 DEF M!ForgetRequests, M!ReadRequests
<1> QED BY <1>1, <1>2, <1>7, MemoryFinish, MemoryCommit DEF M!MemoryNext

\* However saves, deletions, evictions and reads of memories interleave, with identifiers
\* that are made up and ones that callers choose, the content of a record whose identifier
\* was made up never changes under an unchanged version (save_memory, and update of
\* SqlMemoryStore).
THEOREM MemoryContentVersioned == Spec => ContentVersioned
<1> DEFINE Inv == part = "memory" => MemoryInv
<1>1. Init => Inv
  <2>1. M!MemoryInit => MemoryInv
    BY DEF M!MemoryInit, MemoryInv, M!MemoryIds
  <2> QED BY <2>1 DEF Init, StudioParts, ProductionParts, LiveRecordParts, QualityParts,
             WorkspaceParts
<1>2. Inv /\ [Next]_vars => Inv' /\ [part = "memory" => M!ContentStep]_vars
  <2> SUFFICES ASSUME Inv, [Next]_vars
               PROVE  Inv' /\ [part = "memory" => M!ContentStep]_vars
    OBVIOUS
  <2>1. CASE UNCHANGED vars
    <3>1. UNCHANGED <<part, row, call, told>>
      BY <2>1 DEF vars
    <3>2. MemoryInv => MemoryInv'
      BY <3>1 DEF MemoryInv, MemoryCall, StatementSound
    <3> QED BY <2>1, <3>1, <3>2
  <2>2. CASE part = "memory" /\ M!MemoryNext /\ UNCHANGED part
    BY <2>2, MemoryStep
  <2>3. CASE part # "memory" /\ UNCHANGED part
    BY <2>3
  <2> QED BY <2>1, <2>2, <2>3 DEF Next, Tables
<1> QED BY <1>1, <1>2, PTL DEF Spec, ContentVersioned

-----------------------------------------------------------------------------
(* Linked rows *)

(***************************************************************************)
(* What the tables of studio, production and live_record have in common,   *)
(* x being the module: rows have columns, some of which no UPDATE sets;    *)
(* some columns name rows of other tables, which may have to name the row  *)
(* in return.                                                              *)
(***************************************************************************)

Schemas == {"studio", "production", "live"}

\* The rows that name others, and those that are named.
Core(x) ==
    IF x = "studio" THEN UNION {Projects, Series, Episodes, S!Revisions}
    ELSE IF x = "production" THEN UNION {Projects, P!Revisions, Assets, AssetRevisions, Edls}
    ELSE UNION {L!Plans, L!Takes, L!Segments, L!Events, Sessions}

StudioColumns(id) ==
    IF id \in Projects
    THEN [title |-> Texts, meta |-> Texts, series |-> SUBSET Series, version |-> Nat]
    ELSE IF id \in Series
    THEN [project |-> Projects \union {None}, title |-> Texts, meta |-> Texts,
          episodes |-> SUBSET Episodes, version |-> Nat]
    ELSE IF id \in Episodes
    THEN [series |-> Series, title |-> Texts, state |-> S!EpisodeState,
          current |-> S!Revisions \union {None}, awaiting |-> S!Reviews \union {None},
          asked |-> {"stated", "omitted"}, version |-> Nat]
    ELSE [episode |-> Episodes, parent |-> S!Revisions \union {None}, hash |-> Hashes,
          locked |-> BOOLEAN, intent |-> {"NONE", "DOWNSTREAM", None}, version |-> Nat]

ProductionColumns(id) ==
    IF id \in Projects
    THEN [title |-> Texts, status |-> P!ProjectStatus, meta |-> Texts,
          current |-> P!Revisions \union {None}, version |-> Nat]
    ELSE IF id \in P!Revisions
    THEN [project |-> Projects, parent |-> P!Revisions \union {None}, hash |-> Hashes,
          locked |-> BOOLEAN, intent |-> {"NONE", "ALL", None}, version |-> Nat]
    ELSE IF id \in Assets
    THEN [project |-> Projects \union {None}, state |-> DOMAIN P!AssetTransitions,
          active |-> AssetRevisions \union {None}, version |-> Nat]
    ELSE IF id \in AssetRevisions
    THEN [asset |-> Assets, hash |-> Hashes, version |-> {0}]
    ELSE [project |-> Projects, revision |-> P!Revisions, status |-> {"DRAFT", "PUBLISHED"},
          version |-> {0}]

PlanHashes == (SUBSET Scenes) \X L!ActionLists

LiveColumns(id) ==
    IF id \in L!Plans
    THEN [scenes |-> SUBSET Scenes, actions |-> L!ActionLists, status |-> DOMAIN L!PlanTransitions,
          hash |-> PlanHashes \union {None}, version |-> Nat]
    ELSE IF id \in L!Takes
    THEN [plan |-> L!Plans, hash |-> PlanHashes, status |-> DOMAIN L!TakeTransitions, version |-> Nat]
    ELSE IF id \in L!Segments THEN [playable |-> BOOLEAN, version |-> {0}]
    ELSE IF id \in L!Events
    THEN [type |-> {"MARKER", "ACTION_SUCCESS", "ACTION_FAILURE", "ACTION_TAMPERED"}, version |-> {0}]
    ELSE [plan |-> L!Plans, hash |-> PlanHashes, connected |-> BOOLEAN, version |-> {0}]

Columns(x, id) ==
    IF x = "studio" THEN StudioColumns(id)
    ELSE IF x = "production" THEN ProductionColumns(id) ELSE LiveColumns(id)

\* The columns that UPDATEs set.
Settable(x, id) ==
    IF x = "studio"
    THEN IF id \in Projects THEN {"title", "meta", "series", "version"}
         ELSE IF id \in Series THEN {"title", "meta", "episodes", "version"}
         ELSE IF id \in Episodes
         THEN {"title", "state", "current", "awaiting", "asked", "version"}
         ELSE {"locked", "version"}
    ELSE IF x = "production"
    THEN IF id \in Projects THEN {"title", "status", "meta", "current", "version"}
         ELSE IF id \in P!Revisions THEN {"locked", "version"}
         ELSE IF id \in Assets THEN {"state", "active", "version"}
         ELSE IF id \in AssetRevisions THEN {}
         ELSE {"status"}
    ELSE IF id \in L!Plans THEN {"scenes", "actions", "status", "hash", "version"}
         ELSE IF id \in L!Takes THEN {"status", "version"}
         ELSE IF id \in L!Segments THEN {"playable"}
         ELSE IF id \in L!Events THEN {}
         ELSE {"connected"}

\* The columns that name rows which must be there.
Links(x, id) ==
    IF x = "studio"
    THEN IF id \in Projects THEN {"series"} ELSE IF id \in Series THEN {"episodes"}
         ELSE IF id \in Episodes THEN {"current"} ELSE {"parent"}
    ELSE IF x = "production"
    THEN IF id \in Projects THEN {"current"} ELSE IF id \in P!Revisions THEN {"project", "parent"}
         ELSE IF id \in Assets THEN {"active"} ELSE IF id \in AssetRevisions THEN {}
         ELSE {"project", "revision"}
    ELSE IF id \in L!Plans \union L!Segments \union L!Events THEN {} ELSE {"plan"}

\* The table that a column names rows of.
Target(x, f) ==
    IF x = "studio"
    THEN IF f = "series" THEN Series ELSE IF f = "episodes" THEN Episodes ELSE S!Revisions
    ELSE IF x = "production"
    THEN IF f = "project" THEN Projects ELSE IF f = "active" THEN AssetRevisions ELSE P!Revisions
    ELSE L!Plans

\* The column by which a row names the one that names it, if it has to.
Backs(x) ==
    IF x = "studio" THEN [series |-> "project", episodes |-> "series", current |-> "episode"]
    ELSE IF x = "production" THEN [current |-> "project", active |-> "asset"]
    ELSE [f \in {} |-> f]

\* The rows that a value of a column names.
NamedBy(f, v) == IF f \in {"series", "episodes"} THEN v ELSE {v} \ {None}

Owned(x, id, f, r) == f \in DOMAIN Backs(x) => r[Backs(x)[f]] = id

Typed(x, id, r) ==
    /\ r = [f \in DOMAIN Columns(x, id) |-> r[f]]
    /\ \A f \in DOMAIN Columns(x, id) : r[f] \in Columns(x, id)[f]

Fits(x, id, set) ==
    /\ DOMAIN set \subseteq Settable(x, id)
    /\ \A f \in DOMAIN set : set[f] \in Columns(x, id)[f]

\* What a row names is there, and belongs to it.
LinksHold(x, id, r) ==
    \A f \in Links(x, id) : \A t \in NamedBy(f, r[f]) :
        t \in Target(x, f) /\ row[t] # None /\ Owned(x, id, f, row[t])

\* What a statement names is there, or is made by the same command for sure.
Promised(x, k, id, f, t) ==
    /\ t \in Target(x, f)
    /\ \/ row[t] # None /\ Owned(x, id, f, row[t])
       \/ /\ \E v \in k.writes : v.on = t /\ v.fresh /\ v.must
          /\ \A v \in k.writes : v.on = t /\ v.fresh => Owned(x, id, f, v.set)

LinkedStatement(x, k, w) ==
    /\ ~w.gone
    /\ IF w.fresh THEN Typed(x, w.on, w.set) ELSE row[w.on] # None /\ Fits(x, w.on, w.set)
    /\ \A f \in Links(x, w.on) \intersect DOMAIN w.set : \A t \in NamedBy(f, w.set[f]) :
          Promised(x, k, w.on, f, t)

LinkedCall(x, k) == \A w \in k.writes : w.on \in Core(x) => LinkedStatement(x, k, w)

LinkedInv(x) ==
    /\ Core(x) \subseteq DOMAIN row /\ DOMAIN call = Calls
    /\ \A id \in Core(x) : row[id] # None => Typed(x, id, row[id]) /\ LinksHold(x, id, row[id])
    /\ \A c \in Calls : call[c] # None => LinkedCall(x, call[c])

\* The columns that are settable are columns, those that are links are columns, and what
\* a row is named by in return is not settable.
LEMMA SchemaFacts ==
    ASSUME NEW x \in Schemas, NEW id \in Core(x)
    PROVE  /\ Settable(x, id) \subseteq DOMAIN Columns(x, id)
           /\ Links(x, id) \subseteq DOMAIN Columns(x, id)
           /\ \A f \in Links(x, id) : \A t \in Target(x, f) :
                 /\ t \in Core(x)
                 /\ f \in DOMAIN Backs(x) =>
                       Backs(x)[f] \in DOMAIN Columns(x, t) /\ Backs(x)[f] \notin Settable(x, t)
<1>1. CASE x = "studio"
  <2>1. /\ Projects \intersect Series = {} /\ Projects \intersect Episodes = {}
        /\ Projects \intersect S!Revisions = {} /\ Series \intersect Episodes = {}
        /\ Series \intersect S!Revisions = {} /\ Episodes \intersect S!Revisions = {}
    BY IdsAssumption DEF Separate
  <2>2. id \in Projects \/ id \in Series \/ id \in Episodes \/ id \in S!Revisions
    BY <1>1 DEF Core
  <2> QED BY <1>1, <2>1, <2>2 DEF Core, Settable, Columns, StudioColumns, Links, Target, Backs
<1>2. CASE x = "production"
  <2>1. /\ Projects \intersect P!Revisions = {} /\ Projects \intersect Assets = {}
        /\ Projects \intersect AssetRevisions = {} /\ Projects \intersect Edls = {}
        /\ P!Revisions \intersect Assets = {} /\ P!Revisions \intersect AssetRevisions = {}
        /\ P!Revisions \intersect Edls = {} /\ Assets \intersect AssetRevisions = {}
        /\ Assets \intersect Edls = {} /\ AssetRevisions \intersect Edls = {}
    BY IdsAssumption DEF Separate
  <2>2. id \in Projects \/ id \in P!Revisions \/ id \in Assets \/ id \in AssetRevisions \/ id \in Edls
    BY <1>2 DEF Core
  <2> QED BY <1>2, <2>1, <2>2 DEF Core, Settable, Columns, ProductionColumns, Links, Target, Backs
<1>3. CASE x = "live"
  <2>1. /\ Settable(x, id) \subseteq DOMAIN Columns(x, id)
        /\ Links(x, id) \subseteq DOMAIN Columns(x, id)
    BY <1>3 DEF Settable, Columns, LiveColumns, Links
  <2>2. \A f : Target(x, f) \subseteq Core(x)
    BY <1>3 DEF Target, Core
  <2>3. DOMAIN Backs(x) = {}
    BY <1>3 DEF Backs
  <2> QED BY <2>1, <2>2, <2>3
<1> QED BY <1>1, <1>2, <1>3 DEF Schemas

\* A row of a table is not None.
LEMMA TypedPresent ==
    ASSUME NEW x \in Schemas, NEW id, NEW r, Typed(x, id, r)
    PROVE  r # None
<1>1. CASE x = "studio"
  <2>1. r \in S!Project \/ r \in S!SeriesRow \/ r \in S!Episode \/ r \in S!Revision
    BY <1>1 DEF Typed, Columns, StudioColumns, S!Project, S!SeriesRow, S!Episode, S!Revision
  <2> QED BY <2>1, NoneAssumption
<1>2. CASE x = "production"
  <2>1. \/ r \in P!VideoProject \/ r \in P!ProductionRevision \/ r \in P!ProductionAsset
        \/ r \in P!AssetRevision \/ r \in P!EditDecisionList
    BY <1>2 DEF Typed, Columns, ProductionColumns, P!VideoProject, P!ProductionRevision,
       P!ProductionAsset, P!AssetRevision, P!EditDecisionList, P!Maybe
  <2> QED BY <2>1, NoneAssumption
<1>3. CASE x = "live"
  <2>1. \/ r \in L!LiveExecutionPlan \/ r \in L!RecordingTake \/ r \in L!RecordingSegment
        \/ r \in L!RecordingEvent \/ r \in L!DirectorSession
    BY <1>3 DEF Typed, Columns, LiveColumns, PlanHashes, L!LiveExecutionPlan, L!RecordingTake,
       L!RecordingSegment, L!RecordingEvent, L!DirectorSession, L!Maybe
  <2> QED BY <2>1, NoneAssumption
<1> QED BY <1>1, <1>2, <1>3 DEF Schemas

\* An UPDATE leaves a row one of its table, with the columns that are not settable.
LEMMA OverTyped ==
    ASSUME NEW x \in Schemas, NEW id \in Core(x), NEW r, Typed(x, id, r), NEW set, Fits(x, id, set)
    PROVE  /\ Typed(x, id, T!Over(set, r))
           /\ \A f \in DOMAIN Columns(x, id) \ Settable(x, id) : T!Over(set, r)[f] = r[f]
           /\ \A f \in DOMAIN Columns(x, id) :
                 T!Over(set, r)[f] = IF f \in DOMAIN set THEN set[f] ELSE r[f]
<1> DEFINE cols == Columns(x, id)
           new == T!Over(set, r)
<1>1. Settable(x, id) \subseteq DOMAIN cols
  BY SchemaFacts
<1>2. DOMAIN set \subseteq DOMAIN cols /\ DOMAIN r = DOMAIN cols
      /\ \A f \in DOMAIN cols : r[f] \in cols[f]
  BY <1>1 DEF Fits, Typed
<1>3. \A f \in DOMAIN set : f \in Settable(x, id) /\ set[f] \in cols[f]
  BY DEF Fits
<1> HIDE DEF cols
<1>4. new = [f \in DOMAIN cols |-> IF f \in DOMAIN set THEN set[f] ELSE r[f]]
  BY <1>2 DEF T!Over
<1> HIDE DEF new
<1>5. \A f \in DOMAIN cols : new[f] = IF f \in DOMAIN set THEN set[f] ELSE r[f]
  BY <1>4
<1>6. new = [f \in DOMAIN cols |-> new[f]]
  BY <1>4, <1>5
<1>7. \A f \in DOMAIN cols : new[f] \in cols[f]
  BY <1>2, <1>3, <1>5
<1> QED BY <1>3, <1>5, <1>6, <1>7 DEF Typed, new, cols

\* What a statement that finds its row leaves there.
LEMMA LinkedWritten ==
    ASSUME NEW x \in Schemas, LinkedInv(x), NEW k, NEW w, LinkedStatement(x, k, w), w.on \in Core(x),
           T!Finds(w)
    PROVE  /\ Typed(x, w.on, T!Written(w))
           /\ row[w.on] = None => w.fresh /\ T!Written(w) = w.set
           /\ row[w.on] # None => ~w.fresh /\ T!Written(w) = T!Over(w.set, row[w.on])
                                  /\ Fits(x, w.on, w.set)
<1>1. CASE w.fresh
  BY <1>1 DEF LinkedStatement, T!Written, T!Finds
<1>2. CASE ~w.fresh
  <2>1. row[w.on] # None /\ Fits(x, w.on, w.set) /\ T!Written(w) = T!Over(w.set, row[w.on])
    BY <1>2 DEF LinkedStatement, T!Written, T!Finds
  <2>2. Typed(x, w.on, row[w.on])
    BY <2>1 DEF LinkedInv
  <2> QED BY <1>2, <2>1, <2>2, OverTyped
<1> QED BY <1>1, <1>2

\* Rows are never deleted, and keep what no UPDATE sets.
LEMMA LinkedGrowth ==
    ASSUME NEW x \in Schemas, LinkedInv(x), NEW c \in Calls, call[c] # None, Applied(call[c]),
           NEW id \in Core(x), row[id] # None
    PROVE  /\ row'[id] # None
           /\ \A f \in DOMAIN Columns(x, id) \ Settable(x, id) : row'[id][f] = row[id][f]
<1>1. CASE row'[id] = row[id]
  BY <1>1
<1>2. CASE row'[id] # row[id]
  <2>1. PICK w \in call[c].writes : w.on = id /\ T!Finds(w) /\ row'[id] = T!Written(w)
    BY <1>2 DEF Applied, LinkedInv
  <2>2. LinkedStatement(x, call[c], w)
    BY <2>1 DEF LinkedInv, LinkedCall
  <2>3. Typed(x, id, row'[id]) /\ row'[id] = T!Over(w.set, row[id]) /\ Fits(x, id, w.set)
    BY <2>1, <2>2, LinkedWritten
  <2>4. Typed(x, id, row[id])
    BY DEF LinkedInv
  <2>5. row'[id] # None
    BY <2>3, TypedPresent
  <2> QED BY <2>3, <2>4, <2>5, OverTyped
<1> QED BY <1>1, <1>2

\* A row that is there and belongs to another still does when a command has committed.
LEMMA OwnedStays ==
    ASSUME NEW x \in Schemas, LinkedInv(x), NEW c \in Calls, call[c] # None, Applied(call[c]),
           NEW id \in Core(x), NEW f \in Links(x, id), NEW t \in Target(x, f),
           row[t] # None, Owned(x, id, f, row[t])
    PROVE  row'[t] # None /\ Owned(x, id, f, row'[t])
<1>1. t \in Core(x) /\ (f \in DOMAIN Backs(x) =>
         Backs(x)[f] \in DOMAIN Columns(x, t) /\ Backs(x)[f] \notin Settable(x, t))
  BY SchemaFacts
<1>2. /\ row'[t] # None
      /\ \A g \in DOMAIN Columns(x, t) \ Settable(x, t) : row'[t][g] = row[t][g]
  BY <1>1, LinkedGrowth
<1> QED BY <1>1, <1>2 DEF Owned

\* What a command has promised is there when it has committed.
LEMMA PromiseKept ==
    ASSUME NEW x \in Schemas, LinkedInv(x), NEW c \in Calls, call[c] # None, Applied(call[c]),
           NEW id \in Core(x), NEW f \in Links(x, id), NEW t, Promised(x, call[c], id, f, t)
    PROVE  t \in Target(x, f) /\ row'[t] # None /\ Owned(x, id, f, row'[t])
<1>1. t \in Target(x, f)
  BY DEF Promised
<1>2. CASE row[t] # None /\ Owned(x, id, f, row[t])
  BY <1>1, <1>2, OwnedStays
<1>3. CASE /\ \E v \in call[c].writes : v.on = t /\ v.fresh /\ v.must
           /\ \A v \in call[c].writes : v.on = t /\ v.fresh => Owned(x, id, f, v.set)
  <2>1. t \in Core(x) /\ t \in DOMAIN row
    BY <1>1, SchemaFacts DEF LinkedInv
  <2>2. PICK v \in call[c].writes : v.on = t /\ v.fresh /\ T!Finds(v)
    BY <1>3 DEF Applied
  <2>3. row[t] = None
    BY <2>2 DEF T!Finds
  <2>4. PICK w \in call[c].writes : w.on = t /\ T!Finds(w) /\ row'[t] = T!Written(w)
    BY <2>1, <2>2 DEF Applied
  <2>5. LinkedStatement(x, call[c], w)
    BY <2>1, <2>4 DEF LinkedInv, LinkedCall
  <2>6. w.fresh /\ row'[t] = w.set /\ Typed(x, t, row'[t])
    BY <2>1, <2>3, <2>4, <2>5, LinkedWritten
  <2> QED BY <1>1, <1>3, <2>4, <2>6, TypedPresent
<1> QED BY <1>2, <1>3 DEF Promised

\* The rows are linked when a command has committed.
LEMMA LinkedRows ==
    ASSUME NEW x \in Schemas, LinkedInv(x), NEW c \in Calls, call[c] # None, Applied(call[c]),
           NEW id \in Core(x), row'[id] # None
    PROVE  Typed(x, id, row'[id]) /\ LinksHold(x, id, row[id])'
<1> SUFFICES /\ Typed(x, id, row'[id])
             /\ \A f \in Links(x, id) : \A t \in NamedBy(f, row'[id][f]) :
                   t \in Target(x, f) /\ row'[t] # None /\ Owned(x, id, f, row'[t])
  BY DEF LinksHold, Typed, Columns, StudioColumns, ProductionColumns, Links, Target, Owned, NamedBy,
         Backs
<1>1. Links(x, id) \subseteq DOMAIN Columns(x, id)
  BY SchemaFacts
<1>2. ASSUME row[id] # None, NEW f \in Links(x, id), NEW t \in NamedBy(f, row[id][f])
      PROVE  t \in Target(x, f) /\ row'[t] # None /\ Owned(x, id, f, row'[t])
  <2>1. t \in Target(x, f) /\ row[t] # None /\ Owned(x, id, f, row[t])
    BY <1>2 DEF LinkedInv, LinksHold
  <2> QED BY <2>1, OwnedStays
<1>3. CASE row'[id] = row[id]
  BY <1>2, <1>3 DEF LinkedInv
<1>4. CASE row'[id] # row[id]
  <2>1. PICK w \in call[c].writes : w.on = id /\ T!Finds(w) /\ row'[id] = T!Written(w)
    BY <1>4 DEF Applied, LinkedInv
  <2>2. LinkedStatement(x, call[c], w)
    BY <2>1 DEF LinkedInv, LinkedCall
  <2>3. /\ Typed(x, id, row'[id])
        /\ row[id] = None => row'[id] = w.set
        /\ row[id] # None => row'[id] = T!Over(w.set, row[id]) /\ Fits(x, id, w.set)
    BY <2>1, <2>2, LinkedWritten
  <2>4. ASSUME NEW f \in Links(x, id), f \in DOMAIN w.set, NEW t \in NamedBy(f, w.set[f])
        PROVE  t \in Target(x, f) /\ row'[t] # None /\ Owned(x, id, f, row'[t])
    <3>1. Promised(x, call[c], id, f, t)
      BY <2>1, <2>2, <2>4 DEF LinkedStatement
    <3> QED BY <3>1, PromiseKept
  <2>5. CASE row[id] = None
    <3>1. DOMAIN w.set = DOMAIN Columns(x, id)
      BY <2>3, <2>5 DEF Typed
    <3> QED BY <1>1, <2>3, <2>4, <2>5, <3>1
  <2>6. CASE row[id] # None
    <3>1. \A f \in Links(x, id) : row'[id][f] = IF f \in DOMAIN w.set THEN w.set[f] ELSE row[id][f]
      BY <1>1, <2>3, <2>6, OverTyped DEF LinkedInv
    <3> QED BY <1>2, <2>3, <2>4, <2>6, <3>1
  <2> QED BY <2>5, <2>6
<1> QED BY <1>3, <1>4

\* What another command has read and decided still fits.
LEMMA LinkedOthers ==
    ASSUME NEW x \in Schemas, LinkedInv(x), NEW c \in Calls, call[c] # None, Applied(call[c]),
           NEW k, LinkedCall(x, k), NEW w \in k.writes, w.on \in Core(x)
    PROVE  /\ ~w.gone
           /\ IF w.fresh THEN Typed(x, w.on, w.set) ELSE row'[w.on] # None /\ Fits(x, w.on, w.set)
           /\ \A f \in Links(x, w.on) \intersect DOMAIN w.set : \A t \in NamedBy(f, w.set[f]) :
                 /\ t \in Target(x, f)
                 /\ \/ row'[t] # None /\ Owned(x, w.on, f, row'[t])
                    \/ /\ \E v \in k.writes : v.on = t /\ v.fresh /\ v.must
                       /\ \A v \in k.writes : v.on = t /\ v.fresh => Owned(x, w.on, f, v.set)
<1>1. LinkedStatement(x, k, w)
  BY DEF LinkedCall
<1>2. /\ ~w.gone
      /\ IF w.fresh THEN Typed(x, w.on, w.set) ELSE row'[w.on] # None /\ Fits(x, w.on, w.set)
  BY <1>1, LinkedGrowth DEF LinkedStatement
<1>3. ASSUME NEW f \in Links(x, w.on) \intersect DOMAIN w.set, NEW t \in NamedBy(f, w.set[f])
      PROVE  /\ t \in Target(x, f)
             /\ \/ row'[t] # None /\ Owned(x, w.on, f, row'[t])
                \/ /\ \E v \in k.writes : v.on = t /\ v.fresh /\ v.must
                   /\ \A v \in k.writes : v.on = t /\ v.fresh => Owned(x, w.on, f, v.set)
  <2>1. Promised(x, k, w.on, f, t)
    BY <1>1 DEF LinkedStatement
  <2> QED BY <2>1, OwnedStays DEF Promised
<1> QED BY <1>2, <1>3

LEMMA LinkedCommit ==
    ASSUME NEW x \in Schemas, LinkedInv(x), NEW c \in Calls, T!Commit(c)
    PROVE  LinkedInv(x)'
<1>1. /\ call[c] # None
      /\ call' = [call EXCEPT ![c] = None]
      /\ DOMAIN row' = DOMAIN row
  BY CommitApplies
<1>2. DOMAIN call' = Calls /\ \A d \in Calls : call'[d] # None => call'[d] = call[d] /\ call[d] # None
  BY <1>1 DEF LinkedInv
<1>3. CASE UNCHANGED <<row, told>>
  BY <1>1, <1>2, <1>3 DEF LinkedInv, LinksHold, LinkedCall, LinkedStatement, Promised
<1>4. CASE Applied(call[c])
  <2>1. \A id \in Core(x) : (row[id] # None => Typed(x, id, row[id]) /\ LinksHold(x, id, row[id]))'
    BY <1>1, <1>4, LinkedRows
  <2>2. ASSUME NEW d \in Calls, call'[d] # None
        PROVE  LinkedCall(x, call[d])'
    <3>1. call'[d] = call[d] /\ LinkedCall(x, call[d])
      BY <1>2, <2>2 DEF LinkedInv
    <3> QED BY <1>1, <1>4, <3>1, LinkedOthers DEF LinkedCall, LinkedStatement, Promised
  <2> QED BY <1>1, <1>2, <2>1, <2>2 DEF LinkedInv
<1> QED BY <1>3, <1>4, CommitApplies

\* A command begins, or fails.
LEMMA LinkedBegin ==
    ASSUME NEW x \in Schemas, LinkedInv(x), NEW c \in Calls, NEW writes, NEW says,
           T!Begin(c, writes, says), LinkedCall(x, [writes |-> writes, says |-> says])
    PROVE  LinkedInv(x)'
<1> DEFINE k == [writes |-> writes, says |-> says]
<1>1. call' = [call EXCEPT ![c] = k] /\ UNCHANGED row
  BY DEF T!Begin
<1>2. LinkedCall(x, k)
  OBVIOUS
<1> HIDE DEF k
<1>3. DOMAIN call' = Calls /\ \A d \in Calls : call'[d] # None => LinkedCall(x, call'[d])
  BY <1>1, <1>2 DEF LinkedInv
<1> QED BY <1>1, <1>3 DEF LinkedInv, LinksHold, LinkedCall, LinkedStatement, Promised

LEMMA LinkedRollback ==
    ASSUME NEW x \in Schemas, LinkedInv(x), NEW c \in Calls, T!Rollback(c)
    PROVE  LinkedInv(x)'
<1>1. call' = [call EXCEPT ![c] = None] /\ UNCHANGED row
  BY DEF T!Rollback
<1>2. DOMAIN call' = Calls /\ \A d \in Calls : call'[d] # None => LinkedCall(x, call'[d])
  BY <1>1 DEF LinkedInv
<1> QED BY <1>1, <1>2 DEF LinkedInv, LinksHold, LinkedCall, LinkedStatement, Promised

-----------------------------------------------------------------------------
(* Episodes *)

\* The rows that are updated for a version, unless a request leaves it out.
Versioned(x) == IF x = "studio" THEN Episodes ELSE {}

\* What may be done to an episode: it moves as it may.
MayWrite(set, r) == "state" \in DOMAIN set => set.state \in S!Transitions[r.state]

\* An UPDATE for a version, which finds a later one or may be done.
Conditional(w) ==
    /\ w.where \in Nat /\ "version" \in DOMAIN w.set /\ w.set.version > w.where
    /\ w.where <= row[w.on].version
    /\ w.where = row[w.on].version => MayWrite(w.set, row[w.on])

\* An UPDATE of an episode for a version, or for a request that has left it out, as has
\* one before it.
VersionedStatement(w) ==
    /\ "asked" \in DOMAIN w.set => w.set.asked = "omitted"
    /\ \/ row[w.on].asked = "omitted"
       \/ w.where = None /\ "asked" \in DOMAIN w.set
       \/ Conditional(w)

VersionedCall(x, k) ==
    \A w \in k.writes : w.on \in Versioned(x) /\ ~w.fresh => VersionedStatement(w)

VersionedInv(x) == \A c \in Calls : call[c] # None => VersionedCall(x, call[c])

\* Versioned rows change by what may be done to them, while every request states a version.
VersionedStep(x) ==
    \A id \in Versioned(x) :
        row[id] # None /\ row'[id] # row[id] /\ row'[id].asked = "stated" =>
            \E set : MayWrite(set, row[id]) /\ row'[id] = T!Over(set, row[id])

LEMMA VersionedFacts ==
    ASSUME NEW x \in Schemas, NEW id \in Versioned(x)
    PROVE  /\ id \in Core(x)
           /\ "version" \in DOMAIN Columns(x, id) /\ Columns(x, id)["version"] = Nat
           /\ "asked" \in DOMAIN Columns(x, id) /\ Columns(x, id)["asked"] = {"stated", "omitted"}
<1>1. CASE x = "studio"
  <2>1. /\ Projects \intersect Episodes = {} /\ Series \intersect Episodes = {}
    BY IdsAssumption DEF Separate
  <2> QED BY <1>1, <2>1 DEF Versioned, Core, Columns, StudioColumns
<1> QED BY <1>1 DEF Versioned

\* How a commit changes a versioned row.
LEMMA VersionedWrites ==
    ASSUME NEW x \in Schemas, LinkedInv(x), VersionedInv(x), NEW c \in Calls, call[c] # None,
           Applied(call[c]), NEW id \in Versioned(x), row[id] # None, row'[id] # row[id]
    PROVE  /\ row[id].asked = "omitted" => row'[id].asked = "omitted"
           /\ \/ row'[id].asked = "omitted"
              \/ /\ \E set : MayWrite(set, row[id]) /\ row'[id] = T!Over(set, row[id])
                 /\ row[id].version \in Nat /\ row'[id].version \in Nat
                 /\ row'[id].version > row[id].version
<1>1. /\ id \in Core(x) /\ "version" \in DOMAIN Columns(x, id) /\ Columns(x, id)["version"] = Nat
      /\ "asked" \in DOMAIN Columns(x, id)
  BY VersionedFacts
<1>2. PICK w \in call[c].writes : w.on = id /\ T!Finds(w) /\ row'[id] = T!Written(w)
  BY <1>1 DEF Applied, LinkedInv
<1>3. LinkedStatement(x, call[c], w)
  BY <1>1, <1>2 DEF LinkedInv, LinkedCall
<1>4. ~w.fresh /\ row'[id] = T!Over(w.set, row[id]) /\ Typed(x, id, row'[id])
  BY <1>1, <1>2, <1>3, LinkedWritten
<1>5. VersionedStatement(w)
  BY <1>2, <1>4 DEF VersionedInv, VersionedCall
<1>6. Typed(x, id, row[id])
  BY <1>1 DEF LinkedInv
<1>7. row'[id].asked = IF "asked" \in DOMAIN w.set THEN w.set.asked ELSE row[id].asked
  BY <1>1, <1>4, <1>6 DEF T!Over, Typed
<1>8. CASE Conditional(w)
  <2>1. w.where = row[id].version
    BY <1>2, <1>4, <1>8, NoneAssumption DEF Conditional, T!Finds
  <2>2. row[id].version \in Nat /\ row'[id].version \in Nat
    BY <1>1, <1>4, <1>6 DEF Typed
  <2>3. row'[id].version = w.set.version
    BY <1>4, <1>8 DEF T!Over, Conditional
  <2>4. MayWrite(w.set, row[id]) /\ row'[id].version > row[id].version
    BY <1>2, <1>8, <2>1, <2>3 DEF Conditional
  <2> QED BY <1>4, <1>5, <1>7, <2>2, <2>4 DEF VersionedStatement
<1> QED BY <1>2, <1>5, <1>7, <1>8 DEF VersionedStatement

LEMMA VersionedCommit ==
    ASSUME NEW x \in Schemas, LinkedInv(x), VersionedInv(x), NEW c \in Calls, T!Commit(c)
    PROVE  VersionedInv(x)' /\ VersionedStep(x)
<1>1. call[c] # None /\ call' = [call EXCEPT ![c] = None]
  BY CommitApplies
<1>2. \A d \in Calls : call'[d] # None => call'[d] = call[d] /\ call[d] # None
  BY <1>1 DEF LinkedInv
<1>3. CASE UNCHANGED <<row, told>>
  BY <1>1, <1>2, <1>3 DEF VersionedInv, VersionedCall, VersionedStatement, Conditional, VersionedStep
<1>4. CASE Applied(call[c])
  <2>1. VersionedStep(x)
    BY <1>1, <1>4, VersionedWrites DEF VersionedStep
  <2>2. ASSUME NEW d \in Calls, call'[d] # None, NEW w \in call'[d].writes, w.on \in Versioned(x),
               ~w.fresh
        PROVE  VersionedStatement(w)'
    <3>1. call[d] # None /\ w \in call[d].writes
      BY <1>2, <2>2
    <3>2. VersionedStatement(w) /\ row[w.on] # None
      BY <2>2, <3>1, VersionedFacts
      DEF VersionedInv, VersionedCall, LinkedInv, LinkedCall, LinkedStatement
    <3>3. CASE row'[w.on] = row[w.on]
      BY <3>2, <3>3 DEF VersionedStatement, Conditional
    <3>4. CASE row'[w.on] # row[w.on]
      <4>1. /\ row[w.on].asked = "omitted" => row'[w.on].asked = "omitted"
            /\ \/ row'[w.on].asked = "omitted"
               \/ /\ row[w.on].version \in Nat /\ row'[w.on].version \in Nat
                  /\ row'[w.on].version > row[w.on].version
        BY <1>1, <1>4, <2>2, <3>2, <3>4, VersionedWrites
      <4>2. ASSUME Conditional(w), row'[w.on].asked # "omitted" PROVE Conditional(w)'
        <5>1. w.where \in Nat /\ w.where <= row[w.on].version
              /\ "version" \in DOMAIN w.set /\ w.set.version > w.where
          BY <4>2 DEF Conditional
        <5>2. w.where <= row'[w.on].version /\ w.where # row'[w.on].version
          BY <4>1, <4>2, <5>1
        <5> QED BY <5>1, <5>2 DEF Conditional
      <4> QED BY <3>2, <4>1, <4>2 DEF VersionedStatement
    <3> QED BY <3>3, <3>4
  <2> QED BY <1>2, <2>1, <2>2 DEF VersionedInv, VersionedCall
<1> QED BY <1>3, <1>4, CommitApplies

LEMMA VersionedBegin ==
    ASSUME NEW x \in Schemas, LinkedInv(x), VersionedInv(x), NEW c \in Calls, NEW writes, NEW says,
           T!Begin(c, writes, says), VersionedCall(x, [writes |-> writes, says |-> says])
    PROVE  VersionedInv(x)' /\ VersionedStep(x)
<1> DEFINE k == [writes |-> writes, says |-> says]
<1>1. call' = [call EXCEPT ![c] = k] /\ UNCHANGED row
  BY DEF T!Begin
<1>2. VersionedCall(x, k)
  OBVIOUS
<1> HIDE DEF k
<1>3. \A d \in Calls : call'[d] # None => VersionedCall(x, call'[d])
  BY <1>1, <1>2 DEF LinkedInv, VersionedInv
<1> QED BY <1>1, <1>3
        DEF VersionedInv, VersionedCall, VersionedStatement, Conditional, VersionedStep

LEMMA VersionedRollback ==
    ASSUME NEW x \in Schemas, LinkedInv(x), VersionedInv(x), NEW c \in Calls, T!Rollback(c)
    PROVE  VersionedInv(x)' /\ VersionedStep(x)
<1>1. call' = [call EXCEPT ![c] = None] /\ UNCHANGED row
  BY DEF T!Rollback
<1>2. \A d \in Calls : call'[d] # None => VersionedCall(x, call'[d])
  BY <1>1 DEF LinkedInv, VersionedInv
<1> QED BY <1>1, <1>2
        DEF VersionedInv, VersionedCall, VersionedStatement, Conditional, VersionedStep

-----------------------------------------------------------------------------
(* Revisions *)

\* The rows that are locked.
Lockable(x) ==
    IF x = "studio" THEN S!Revisions ELSE IF x = "production" THEN P!Revisions ELSE {}

\* A revision is made unlocked and locked once, and has no other version.
LockedOnce(r) ==
    /\ "locked" \in DOMAIN r /\ "version" \in DOMAIN r
    /\ \/ r.locked = FALSE /\ r.version = 0
       \/ r.locked = TRUE /\ r.version = 1

LockRows(x) == \A id \in Lockable(x) : row[id] # None => LockedOnce(row[id])

\* Whatever a statement is for, it makes a revision, or locks it as any other does.
LockStatement(w) ==
    IF w.fresh THEN LockedOnce(w.set)
    ELSE DOMAIN w.set = {"locked", "version"} /\ w.set.locked = TRUE /\ w.set.version = 1

LockCall(x, k) == \A w \in k.writes : w.on \in Lockable(x) => LockStatement(w)

LockInv(x) == LockRows(x) /\ \A c \in Calls : call[c] # None => LockCall(x, call[c])

LockStep(x) ==
    \A id \in Lockable(x) : row[id] # None /\ row[id].locked = TRUE => row'[id] = row[id]

LEMMA LockableFacts ==
    ASSUME NEW x \in Schemas, NEW id \in Lockable(x)
    PROVE  id \in Core(x)
BY DEF Schemas, Lockable, Core

\* What a statement leaves of a revision.
LEMMA LockWritten ==
    ASSUME NEW w, LockStatement(w), ~w.gone, NEW r, w.fresh \/ LockedOnce(r),
           NEW new, new = IF w.fresh THEN w.set ELSE T!Over(w.set, r)
    PROVE  /\ LockedOnce(new)
           /\ ~w.fresh /\ r.locked = TRUE /\ r = [f \in DOMAIN r |-> r[f]] => new = r
<1>1. CASE w.fresh
  BY <1>1 DEF LockStatement
<1>2. CASE ~w.fresh
  <2>1. /\ DOMAIN w.set = {"locked", "version"} /\ w.set["locked"] = TRUE /\ w.set["version"] = 1
        /\ "locked" \in DOMAIN r /\ "version" \in DOMAIN r
    BY <1>2 DEF LockStatement, LockedOnce
  <2>2. new = [f \in DOMAIN w.set \union DOMAIN r |-> IF f \in DOMAIN w.set THEN w.set[f] ELSE r[f]]
    BY <1>2 DEF T!Over
  <2>3. DOMAIN new = DOMAIN r /\ new["locked"] = TRUE /\ new["version"] = 1
    BY <2>1, <2>2
  <2>4. LockedOnce(new)
    BY <2>1, <2>3 DEF LockedOnce
  <2>5. ASSUME r.locked = TRUE, r = [f \in DOMAIN r |-> r[f]] PROVE new = r
    <3>1. r["locked"] = TRUE /\ r["version"] = 1
      BY <1>2, <2>5 DEF LockedOnce
    <3>2. \A f \in DOMAIN r : new[f] = r[f]
      BY <2>1, <2>2, <3>1
    <3>3. new = [f \in DOMAIN r |-> new[f]]
      BY <2>2, <2>3
    <3> QED BY <2>5, <3>2, <3>3
  <2> QED BY <1>2, <2>4, <2>5
<1> QED BY <1>1, <1>2

LEMMA LockCommit ==
    ASSUME NEW x \in Schemas, LinkedInv(x), LockInv(x), NEW c \in Calls, T!Commit(c)
    PROVE  LockInv(x)' /\ LockStep(x)
<1>1. call[c] # None /\ call' = [call EXCEPT ![c] = None]
  BY CommitApplies
<1>2. \A d \in Calls : call'[d] # None => call'[d] = call[d] /\ call[d] # None
  BY <1>1 DEF LinkedInv
<1>3. \A d \in Calls : call'[d] # None => LockCall(x, call'[d])
  BY <1>2 DEF LockInv
<1>4. CASE UNCHANGED <<row, told>>
  BY <1>3, <1>4 DEF LockInv, LockRows, LockCall, LockStep
<1>5. CASE Applied(call[c])
  <2>1. ASSUME NEW id \in Lockable(x)
        PROVE  /\ row'[id] # None => LockedOnce(row'[id])
               /\ row[id] # None /\ row[id].locked = TRUE => row'[id] = row[id]
    <3>1. CASE row'[id] = row[id]
      BY <2>1, <3>1 DEF LockInv, LockRows
    <3>2. CASE row'[id] # row[id]
      <4>1. id \in Core(x)
        BY LockableFacts
      <4>2. PICK w \in call[c].writes : w.on = id /\ T!Finds(w) /\ row'[id] = T!Written(w)
        BY <1>5, <3>2, <4>1 DEF Applied, LinkedInv
      <4>3. LinkedStatement(x, call[c], w) /\ LockStatement(w)
        BY <1>1, <2>1, <4>1, <4>2 DEF LinkedInv, LinkedCall, LockInv, LockCall
      <4>4. ~w.gone /\ row'[id] = IF w.fresh THEN w.set ELSE T!Over(w.set, row[id])
        BY <4>2, <4>3 DEF LinkedStatement, T!Written
      <4>5. (w.fresh => row[id] = None) /\ (~w.fresh => row[id] # None)
        BY <4>2 DEF T!Finds
      <4>6. row[id] # None => LockedOnce(row[id]) /\ row[id] = [f \in DOMAIN row[id] |-> row[id][f]]
        BY <2>1, <4>1 DEF LockInv, LockRows, LinkedInv, Typed
      <4> QED BY <4>3, <4>4, <4>5, <4>6, LockWritten
    <3> QED BY <3>1, <3>2
  <2>2. LockRows(x)' /\ LockStep(x)
    BY <2>1 DEF LockRows, LockStep, Lockable
  <2> QED BY <1>3, <2>2 DEF LockInv, LockCall, LockStatement, LockedOnce, Lockable
<1> QED BY <1>4, <1>5, CommitApplies

LEMMA LockBegin ==
    ASSUME NEW x \in Schemas, LinkedInv(x), LockInv(x), NEW c \in Calls, NEW writes, NEW says,
           T!Begin(c, writes, says), LockCall(x, [writes |-> writes, says |-> says])
    PROVE  LockInv(x)' /\ LockStep(x)
<1> DEFINE k == [writes |-> writes, says |-> says]
<1>1. call' = [call EXCEPT ![c] = k] /\ UNCHANGED row
  BY DEF T!Begin
<1>2. LockCall(x, k)
  OBVIOUS
<1> HIDE DEF k
<1>3. \A d \in Calls : call'[d] # None => LockCall(x, call'[d])
  BY <1>1, <1>2 DEF LinkedInv, LockInv
<1> QED BY <1>1, <1>3 DEF LockInv, LockRows, LockCall, LockStep

LEMMA LockRollback ==
    ASSUME NEW x \in Schemas, LinkedInv(x), LockInv(x), NEW c \in Calls, T!Rollback(c)
    PROVE  LockInv(x)' /\ LockStep(x)
<1>1. call' = [call EXCEPT ![c] = None] /\ UNCHANGED row
  BY DEF T!Rollback
<1>2. \A d \in Calls : call'[d] # None => LockCall(x, call'[d])
  BY <1>1 DEF LinkedInv, LockInv
<1> QED BY <1>1, <1>2 DEF LockInv, LockRows, LockCall, LockStep

-----------------------------------------------------------------------------
(* Commands of a module with linked rows *)

CommandSound(x, k) ==
    LinkedCall(x, k) /\ VersionedCall(x, k) /\ (LockRows(x) => LockCall(x, k))

\* A statement is sound: on a row that is linked, versioned or locked.
StatementsSound(x, w) ==
    /\ w.on \in Versioned(x) /\ ~w.fresh => VersionedStatement(w)
    /\ LockRows(x) /\ w.on \in Lockable(x) => LockStatement(w)

\* A command begins that is sound.
Begins(x, c) ==
    \E writes, says :
        T!Begin(c, writes, says) /\ CommandSound(x, [writes |-> writes, says |-> says])

\* The rows with a version that UPDATEs count.
Counted(x) ==
    IF x = "studio" THEN Core(x)
    ELSE IF x = "production" THEN UNION {Projects, P!Revisions, Assets}
    ELSE L!Plans \union L!Takes

LEMMA CountedFacts ==
    ASSUME NEW x \in Schemas, NEW id \in Counted(x)
    PROVE  /\ id \in Core(x)
           /\ "version" \in Settable(x, id) /\ "version" \notin Links(x, id)
           /\ "version" \in DOMAIN Columns(x, id) /\ Columns(x, id)["version"] = Nat
<1>1. CASE x = "studio"
  BY <1>1 DEF Counted, Core, Settable, Columns, StudioColumns, Links
<1>2. CASE x = "production"
  <2>1. /\ P!Revisions \intersect AssetRevisions = {} /\ Projects \intersect AssetRevisions = {}
        /\ Assets \intersect AssetRevisions = {}
    BY IdsAssumption DEF Separate
  <2> QED BY <1>2, <2>1 DEF Counted, Core, Settable, Columns, ProductionColumns, Links
<1>3. CASE x = "live"
  BY <1>3 DEF Counted, Core, Settable, Columns, LiveColumns, Links
<1> QED BY <1>1, <1>2, <1>3 DEF Schemas

\* What is set of a row whose version is counted: the columns that are meant, unless
\* they are given as None, and the version after the one that was read.
Bumps(x, id, base, set) ==
    /\ Fits(x, id, set)
    /\ "version" \in DOMAIN set /\ set.version = row[id].version + 1
    /\ DOMAIN set \subseteq DOMAIN base \union {"version"}
    /\ \A f \in DOMAIN set \ {"version"} : set[f] = base[f]
    /\ \A f \in DOMAIN base : base[f] # None => f \in DOMAIN set

\* Columns of an episode that are set for a version, or for a request that left it out.
Careful(id, base, v) ==
    \/ v = row[id].version /\ MayWrite(base, row[id]) /\ "asked" \notin DOMAIN base
    \/ v = None /\ "asked" \in DOMAIN base /\ base.asked = "omitted"

\* The columns that are set to lock a revision.
Locking(id, base) == DOMAIN base = {"locked"} /\ base.locked = TRUE /\ row[id].locked = FALSE

\* What is set of a row is as it should be.
Sound(x, id, base, v) ==
    /\ id \in Versioned(x) => Careful(id, base, v)
    /\ id \in Lockable(x) => Locking(id, base)

LEMMA TrueIsSome == TRUE # None
BY NoneAssumption

LEMMA BumpedSets ==
    ASSUME NEW x \in Schemas, LinkedInv(x), NEW id \in Counted(x), row[id] # None,
           NEW base, Fits(x, id, base), "version" \notin DOMAIN base
    PROVE  Bumps(x, id, base, T!Bumped(id, base)) /\ Bumps(x, id, base, T!Given(T!Bumped(id, base)))
<1> DEFINE v == row[id].version
           set == T!Bumped(id, base)
           given == T!Given(set)
<1>1. /\ id \in Core(x) /\ "version" \in Settable(x, id)
      /\ "version" \in DOMAIN Columns(x, id) /\ Columns(x, id)["version"] = Nat
  BY CountedFacts
<1>2. Typed(x, id, row[id])
  BY <1>1 DEF LinkedInv
<1>3. v \in Nat /\ v + 1 \in Nat /\ v + 1 # None
  BY <1>1, <1>2, NoneAssumption DEF Typed
<1>4. DOMAIN set = DOMAIN base \union {"version"} /\ set["version"] = v + 1
      /\ \A f \in DOMAIN base : set[f] = base[f]
  BY DEF T!Bumped, T!Over
<1> HIDE DEF set
<1>8. \A f \in DOMAIN base : base[f] # None => f \in DOMAIN set /\ set[f] # None
  BY <1>4
<1>5. DOMAIN given = {f \in DOMAIN set : set[f] # None} /\ \A f \in DOMAIN given : given[f] = set[f]
  BY DEF T!Given
<1> HIDE DEF given, v
<1>6. Fits(x, id, set)
  BY <1>1, <1>3, <1>4 DEF Fits
<1>7. Fits(x, id, given)
  BY <1>5, <1>6 DEF Fits
<1>9. \A f \in DOMAIN base : base[f] # None => f \in DOMAIN given
  BY <1>5, <1>8
<1> QED BY <1>3, <1>4, <1>5, <1>6, <1>7, <1>8, <1>9 DEF Bumps, set, given, v

\* A statement that updates a row, in a command that may begin.
LEMMA UpdateLinked ==
    ASSUME NEW x \in Schemas, LinkedInv(x), NEW id \in Counted(x), row[id] # None,
           NEW base, NEW w, w.on = id, ~w.fresh, ~w.gone, Bumps(x, id, base, w.set), NEW k,
           \A f \in Links(x, id) \intersect DOMAIN base : \A t \in NamedBy(f, base[f]) :
              Promised(x, k, id, f, t)
    PROVE  LinkedStatement(x, k, w)
BY CountedFacts DEF LinkedStatement, Bumps

LEMMA UpdateSounds ==
    ASSUME NEW x \in Schemas, LinkedInv(x), NEW id \in Counted(x), row[id] # None,
           NEW base, NEW w, w.on = id, ~w.fresh, Bumps(x, id, base, w.set),
           Sound(x, id, base, w.where)
    PROVE  StatementsSound(x, w)
<1>1. row[id].version \in Nat
  BY CountedFacts DEF LinkedInv, Typed
<1>2. ASSUME id \in Versioned(x) PROVE VersionedStatement(w)
  <2>1. CASE /\ w.where = row[id].version /\ MayWrite(base, row[id])
             /\ "asked" \notin DOMAIN base
    <3>1. MayWrite(w.set, row[id]) /\ "asked" \notin DOMAIN w.set
      BY <2>1 DEF MayWrite, Bumps
    <3>2. Conditional(w)
      BY <1>1, <2>1, <3>1 DEF Conditional, Bumps
    <3> QED BY <3>1, <3>2 DEF VersionedStatement
  <2>2. CASE w.where = None /\ "asked" \in DOMAIN base /\ base.asked = "omitted"
    <3>1. "asked" \in DOMAIN w.set /\ w.set.asked = "omitted"
      BY <2>2, NoneAssumption DEF Bumps
    <3> QED BY <2>2, <3>1 DEF VersionedStatement
  <2> QED BY <1>2, <2>1, <2>2 DEF Sound, Careful
<1>3. ASSUME id \in Lockable(x), LockRows(x) PROVE LockStatement(w)
  <2>1. DOMAIN base = {"locked"} /\ base["locked"] = TRUE /\ row[id].locked = FALSE
    BY <1>3 DEF Sound, Locking
  <2>2. row[id].version = 0
    BY <1>3, <2>1 DEF LockRows, LockedOnce
  <2>3. base["locked"] # None => "locked" \in DOMAIN w.set
    BY <2>1 DEF Bumps
  <2>4. "locked" \in DOMAIN w.set
    BY <2>1, <2>3, TrueIsSome
  <2>5. DOMAIN w.set = {"locked", "version"} /\ w.set["version"] = 1 /\ w.set["locked"] = base["locked"]
    BY <2>1, <2>2, <2>4 DEF Bumps
  <2> QED BY <2>1, <2>5 DEF LockStatement
<1> QED BY <1>2, <1>3 DEF StatementsSound

LEMMA InsertLinked ==
    ASSUME NEW x \in Schemas, NEW id \in Core(x), NEW w, w.on = id, w.fresh, ~w.gone,
           Typed(x, id, w.set), NEW k,
           \A f \in Links(x, id) : \A t \in NamedBy(f, w.set[f]) : Promised(x, k, id, f, t)
    PROVE  LinkedStatement(x, k, w)
BY DEF LinkedStatement

\* A command of one statement, and one of at most two.
LEMMA OneStatement ==
    ASSUME NEW x \in Schemas, NEW c, NEW w, NEW says, T!Begin(c, {w}, says),
           w.on \in Core(x) => LinkedStatement(x, [writes |-> {w}, says |-> says], w),
           StatementsSound(x, w)
    PROVE  Begins(x, c)
<1> DEFINE k == [writes |-> {w}, says |-> says]
<1>1. k.writes = {w} /\ (w.on \in Core(x) => LinkedStatement(x, k, w))
  OBVIOUS
<1> HIDE DEF k
<1>2. CommandSound(x, k)
  BY <1>1 DEF CommandSound, LinkedCall, VersionedCall, LockCall, StatementsSound
<1> QED BY <1>2 DEF Begins, k

LEMMA TwoStatements ==
    ASSUME NEW x \in Schemas, NEW c, NEW w, NEW v, NEW writes, NEW says, T!Begin(c, writes, says),
           w \in writes, \A u \in writes : u = w \/ u = v,
           \A k : k.writes = writes =>
              /\ w.on \in Core(x) => LinkedStatement(x, k, w)
              /\ v \in writes /\ v.on \in Core(x) => LinkedStatement(x, k, v),
           StatementsSound(x, w), v \in writes => StatementsSound(x, v)
    PROVE  Begins(x, c)
<1> DEFINE k == [writes |-> writes, says |-> says]
<1>1. k.writes = writes
  OBVIOUS
<1> HIDE DEF k
<1>2. CommandSound(x, k)
  BY <1>1 DEF CommandSound, LinkedCall, VersionedCall, LockCall, StatementsSound
<1> QED BY <1>2 DEF Begins, k

\* A command on other tables.
LEMMA OtherTables ==
    ASSUME NEW x \in Schemas, NEW c, NEW writes, NEW says, T!Begin(c, writes, says),
           \A w \in writes : w.on \notin Core(x)
    PROVE  Begins(x, c)
<1> DEFINE k == [writes |-> writes, says |-> says]
<1>1. k.writes = writes
  OBVIOUS
<1> HIDE DEF k
<1>2. CommandSound(x, k)
  BY <1>1, VersionedFacts, LockableFacts DEF CommandSound, LinkedCall, VersionedCall, LockCall
<1> QED BY <1>2 DEF Begins, k

\* The invariants, and what they say of a step.
LinkedStep(x) ==
    /\ LinkedInv(x)'
    /\ VersionedInv(x) => VersionedInv(x)' /\ VersionedStep(x)
    /\ LockInv(x) => LockInv(x)' /\ LockStep(x)

LEMMA BeginsStep ==
    ASSUME NEW x \in Schemas, LinkedInv(x), NEW c \in Calls, Begins(x, c)
    PROVE  LinkedStep(x)
<1>1. PICK writes, says :
         T!Begin(c, writes, says) /\ CommandSound(x, [writes |-> writes, says |-> says])
  BY DEF Begins
<1>2. LinkedInv(x)'
  BY <1>1, LinkedBegin DEF CommandSound
<1>3. ASSUME VersionedInv(x) PROVE VersionedInv(x)' /\ VersionedStep(x)
  BY <1>1, <1>3, VersionedBegin DEF CommandSound
<1>4. ASSUME LockInv(x) PROVE LockInv(x)' /\ LockStep(x)
  BY <1>1, <1>4, LockBegin DEF CommandSound, LockInv
<1> QED BY <1>2, <1>3, <1>4 DEF LinkedStep

LEMMA FinishStep ==
    ASSUME NEW x \in Schemas, LinkedInv(x), NEW c \in Calls, T!Commit(c) \/ T!Rollback(c)
    PROVE  LinkedStep(x)
BY LinkedCommit, LinkedRollback, VersionedCommit, VersionedRollback, LockCommit, LockRollback
DEF LinkedStep

\* The statements that commands are made of.
LEMMA InsertStatement ==
    ASSUME NEW id, NEW new
    PROVE  LET w == T!Insert(id, new)
           IN  w.on = id /\ w.set = new /\ w.fresh /\ w.must /\ ~w.gone
BY DEF T!Insert

LEMMA UpdateStatement ==
    ASSUME NEW x \in Schemas, LinkedInv(x), NEW id \in Counted(x), row[id] # None,
           NEW base, Fits(x, id, base), "version" \notin DOMAIN base,
           NEW v, NEW w, NEW set, set = T!Bumped(id, base) \/ set = T!Given(T!Bumped(id, base)),
           w = T!Update(id, set, v) \/ w = T!Attempt(id, set, v)
    PROVE  w.on = id /\ ~w.fresh /\ ~w.gone /\ w.where = v /\ Bumps(x, id, base, w.set)
<1>1. Bumps(x, id, base, set)
  BY BumpedSets
<1>2. w.on = id /\ ~w.fresh /\ ~w.gone /\ w.where = v /\ w.set = set
  BY DEF T!Update, T!Attempt, T!Insert
<1> QED BY <1>1, <1>2

\* A command that is one UPDATE of columns that name no rows.
LEMMA UpdateBegins ==
    ASSUME NEW x \in Schemas, LinkedInv(x), NEW c, NEW says, NEW id \in Counted(x), row[id] # None,
           NEW base, Fits(x, id, base), "version" \notin DOMAIN base,
           \A f \in Links(x, id) : f \notin DOMAIN base,
           NEW v, NEW w, NEW set, set = T!Bumped(id, base) \/ set = T!Given(T!Bumped(id, base)),
           w = T!Update(id, set, v), T!Begin(c, {w}, says),
           Sound(x, id, base, v)
    PROVE  Begins(x, c)
<1>1. w.on = id /\ ~w.fresh /\ ~w.gone /\ w.where = v /\ Bumps(x, id, base, w.set)
  BY UpdateStatement
<1>2. \A k : LinkedStatement(x, k, w)
  BY <1>1, UpdateLinked
<1>3. StatementsSound(x, w)
  BY <1>1, UpdateSounds
<1> QED BY <1>2, <1>3, OneStatement

\* A command that makes a row out of rows that are there ...
LEMMA InsertBegins ==
    ASSUME NEW x \in Schemas, LinkedInv(x), NEW c, NEW says, NEW t \in Core(x), NEW new,
           Typed(x, t, new), LinksHold(x, t, new), T!Begin(c, {T!Insert(t, new)}, says),
           t \in Lockable(x) => LockedOnce(new)
    PROVE  Begins(x, c)
<1> DEFINE w == T!Insert(t, new)
<1>1. w.on = t /\ w.set = new /\ w.fresh /\ ~w.gone
  BY InsertStatement
<1>2. T!Begin(c, {w}, says)
  OBVIOUS
<1> HIDE DEF w
<1>3. \A k : LinkedStatement(x, k, w)
  BY <1>1, InsertLinked DEF LinksHold, Promised
<1>4. StatementsSound(x, w)
  BY <1>1 DEF StatementsSound, LockStatement
<1> QED BY <1>1, <1>2, <1>3, <1>4, OneStatement

\* ... and one that also has another row name it.
LEMMA PointBegins ==
    ASSUME NEW x \in Schemas, LinkedInv(x), NEW c, NEW says, NEW t \in Core(x), NEW new,
           Typed(x, t, new), LinksHold(x, t, new),
           NEW id \in Counted(x), row[id] # None, NEW base, Fits(x, id, base),
           "version" \notin DOMAIN base,
           \A f \in Links(x, id) \intersect DOMAIN base : \A u \in NamedBy(f, base[f]) :
              /\ u \in Target(x, f)
              /\ \/ u = t /\ Owned(x, id, f, new)
                 \/ row[u] # None /\ Owned(x, id, f, row[u]),
           NEW expected, NEW v, NEW set, set = T!Bumped(id, base) \/ set = T!Given(T!Bumped(id, base)),
           v = T!Update(id, set, expected) \/ v = T!Attempt(id, set, expected),
           T!Begin(c, {T!Insert(t, new), v}, says),
           Sound(x, id, base, expected), t \in Lockable(x) => LockedOnce(new)
    PROVE  Begins(x, c)
<1> DEFINE w == T!Insert(t, new)
           writes == {w, v}
<1>1. w.on = t /\ w.set = new /\ w.fresh /\ w.must /\ ~w.gone
  BY InsertStatement
<1>2. v.on = id /\ ~v.fresh /\ ~v.gone /\ v.where = expected /\ Bumps(x, id, base, v.set)
  BY UpdateStatement
<1>3. T!Begin(c, writes, says) /\ w \in writes /\ v \in writes /\ \A u \in writes : u = w \/ u = v
  OBVIOUS
<1> HIDE DEF w, writes
<1>4. \A k : LinkedStatement(x, k, w)
  BY <1>1, InsertLinked DEF LinksHold, Promised
<1>5. ASSUME NEW k, k.writes = writes PROVE LinkedStatement(x, k, v)
  <2>1. \A u \in k.writes : u.on = t /\ u.fresh => u = w
    BY <1>2, <1>3, <1>5
  <2>2. ASSUME NEW f \in Links(x, id) \intersect DOMAIN base, NEW u \in NamedBy(f, base[f])
        PROVE  Promised(x, k, id, f, u)
    <3>1. /\ u \in Target(x, f)
          /\ \/ u = t /\ Owned(x, id, f, new)
             \/ row[u] # None /\ Owned(x, id, f, row[u])
      BY <2>2
    <3>2. CASE row[u] # None /\ Owned(x, id, f, row[u])
      BY <3>1, <3>2 DEF Promised
    <3>3. CASE u = t /\ Owned(x, id, f, new)
      <4>1. w \in k.writes /\ w.on = u /\ w.fresh /\ w.must
        BY <1>1, <1>3, <1>5, <3>3
      <4>2. \A z \in k.writes : z.on = u /\ z.fresh => Owned(x, id, f, z.set)
        BY <1>1, <2>1, <3>3
      <4> QED BY <3>1, <4>1, <4>2 DEF Promised
    <3> QED BY <3>1, <3>2, <3>3
  <2> QED BY <1>2, <2>2, UpdateLinked
<1>6. StatementsSound(x, v)
  BY <1>2, UpdateSounds
<1>7. StatementsSound(x, w)
  BY <1>1 DEF StatementsSound, LockStatement
<1> QED BY <1>1, <1>3, <1>4, <1>5, <1>6, <1>7, TwoStatements

\* The columns of a row, and what it names.
LEMMA RowTyped ==
    ASSUME NEW x \in Schemas, LinkedInv(x), NEW id \in Core(x), row[id] # None
    PROVE  /\ DOMAIN row[id] = DOMAIN Columns(x, id)
           /\ \A f \in DOMAIN Columns(x, id) : row[id][f] \in Columns(x, id)[f]
<1>1. Typed(x, id, row[id])
  BY DEF LinkedInv
<1> QED BY <1>1 DEF Typed

LEMMA RowLinked ==
    ASSUME NEW x \in Schemas, LinkedInv(x), NEW id \in Core(x), row[id] # None,
           NEW f \in Links(x, id), NEW t \in NamedBy(f, row[id][f])
    PROVE  row[t] # None /\ Owned(x, id, f, row[t])
<1>1. LinksHold(x, id, row[id])
  BY DEF LinkedInv
<1> QED BY <1>1 DEF LinksHold

\* A new row with the columns of its table.
LEMMA NewTyped ==
    ASSUME NEW x, NEW id, NEW cols, Columns(x, id) = cols, NEW new,
           new = [f \in DOMAIN cols |-> new[f]], \A f \in DOMAIN cols : new[f] \in cols[f]
    PROVE  Typed(x, id, new)
BY DEF Typed

-----------------------------------------------------------------------------
(* Studio *)

LEMMA StudioFinish == ASSUME S!Finish PROVE \E c \in Calls : T!Commit(c) \/ T!Rollback(c)
BY DEF S!Finish, S!Commit, T!Commit, S!Rollback, T!Rollback, S!Finds, T!Finds, S!Clashes, T!Clashes,
       S!Written, T!Written, S!Over, T!Over

LEMMA StudioBegin ==
    ASSUME NEW c, NEW writes, NEW says, S!Begin(c, writes, says)
    PROVE  T!Begin(c, writes, says)
BY DEF S!Begin, T!Begin

\* The statements of the store.
LEMMA StudioStatements ==
    ASSUME NEW id, NEW set, NEW v
    PROVE  /\ S!Insert(id, set) = T!Insert(id, set)
           /\ S!Update(id, set, v) = T!Update(id, set, v)
           /\ S!Unchecked(S!Update(id, set, v)) = T!Attempt(id, set, v)
           /\ S!Bumped(id, set) = T!Bumped(id, set) /\ S!Given(set) = T!Given(set)
BY DEF S!Insert, T!Insert, S!Update, T!Update, S!Unchecked, T!Attempt, S!Bumped, T!Bumped,
       S!Over, T!Over, S!Given, T!Given

\* The tables.
LEMMA StudioTables ==
    /\ "studio" \in Schemas
    /\ \A p \in Projects :
          /\ p \in Core("studio") /\ p \in Counted("studio")
          /\ p \notin Versioned("studio") /\ p \notin Lockable("studio")
          /\ Settable("studio", p) = {"title", "meta", "series", "version"}
          /\ Links("studio", p) = {"series"}
          /\ Columns("studio", p) =
                [title |-> Texts, meta |-> Texts, series |-> SUBSET Series, version |-> Nat]
    /\ \A s \in Series :
          /\ s \in Core("studio") /\ s \in Counted("studio")
          /\ s \notin Versioned("studio") /\ s \notin Lockable("studio")
          /\ Settable("studio", s) = {"title", "meta", "episodes", "version"}
          /\ Links("studio", s) = {"episodes"}
          /\ Columns("studio", s) =
                [project |-> Projects \union {None}, title |-> Texts, meta |-> Texts,
                 episodes |-> SUBSET Episodes, version |-> Nat]
    /\ \A e \in Episodes :
          /\ e \in Core("studio") /\ e \in Counted("studio")
          /\ e \in Versioned("studio") /\ e \notin Lockable("studio")
          /\ Settable("studio", e) = {"title", "state", "current", "awaiting", "asked", "version"}
          /\ Links("studio", e) = {"current"}
          /\ Columns("studio", e) =
                [series |-> Series, title |-> Texts, state |-> S!EpisodeState,
                 current |-> S!Revisions \union {None}, awaiting |-> S!Reviews \union {None},
                 asked |-> {"stated", "omitted"}, version |-> Nat]
    /\ \A r \in S!Revisions :
          /\ r \in Core("studio") /\ r \in Counted("studio")
          /\ r \notin Versioned("studio") /\ r \in Lockable("studio")
          /\ Settable("studio", r) = {"locked", "version"}
          /\ Links("studio", r) = {"parent"}
          /\ Columns("studio", r) =
                [episode |-> Episodes, parent |-> S!Revisions \union {None}, hash |-> Hashes,
                 locked |-> BOOLEAN, intent |-> {"NONE", "DOWNSTREAM", None}, version |-> Nat]
<1>1. /\ Projects \intersect Series = {} /\ Projects \intersect Episodes = {}
      /\ Projects \intersect S!Revisions = {} /\ Series \intersect Episodes = {}
      /\ Series \intersect S!Revisions = {} /\ Episodes \intersect S!Revisions = {}
  BY IdsAssumption DEF Separate
<1> QED BY <1>1 DEF Schemas, Core, Counted, Versioned, Lockable, Settable, Links, Columns, StudioColumns

\* The rows.
LEMMA StudioRows ==
    ASSUME LinkedInv("studio")
    PROVE  /\ \A p \in Projects : row[p] # None =>
                 /\ DOMAIN row[p] = {"title", "meta", "series", "version"}
                 /\ row[p].title \in Texts /\ row[p].meta \in Texts /\ row[p].series \subseteq Series
                 /\ \A s \in row[p].series : row[s] # None /\ row[s].project = p
           /\ \A s \in Series : row[s] # None =>
                 /\ DOMAIN row[s] = {"project", "title", "meta", "episodes", "version"}
                 /\ row[s].title \in Texts /\ row[s].meta \in Texts
                 /\ row[s].episodes \subseteq Episodes
                 /\ \A e \in row[s].episodes : row[e] # None /\ row[e].series = s
           /\ \A e \in Episodes : row[e] # None =>
                 /\ DOMAIN row[e] = {"series", "title", "state", "current", "awaiting", "asked", "version"}
                 /\ row[e].state \in S!EpisodeState /\ row[e].current \in S!Revisions \union {None}
                 /\ row[e].current # None =>
                       row[row[e].current] # None /\ row[row[e].current].episode = e
           /\ \A r \in S!Revisions : row[r] # None =>
                 /\ "locked" \in DOMAIN row[r] /\ row[r].locked \in BOOLEAN
                 /\ row[r].episode \in Episodes /\ row[r].parent \in S!Revisions \union {None}
                 /\ row[r].parent # None => row[row[r].parent] # None
<1>1. "studio" \in Schemas
  BY DEF Schemas
<1>2. ASSUME NEW p \in Projects, row[p] # None
      PROVE  /\ DOMAIN row[p] = {"title", "meta", "series", "version"}
             /\ row[p].title \in Texts /\ row[p].meta \in Texts /\ row[p].series \subseteq Series
             /\ \A s \in row[p].series : row[s] # None /\ row[s].project = p
  <2> DEFINE cols == [title |-> Texts, meta |-> Texts, series |-> SUBSET Series, version |-> Nat]
  <2>1. p \in Core("studio") /\ Columns("studio", p) = cols /\ "series" \in Links("studio", p)
    BY StudioTables
  <2>2. DOMAIN row[p] = DOMAIN cols /\ \A f \in DOMAIN cols : row[p][f] \in cols[f]
    BY <1>1, <1>2, <2>1, RowTyped
  <2>3. \A s \in row[p].series : row[s] # None /\ row[s].project = p
    BY <1>1, <1>2, <2>1, RowLinked DEF NamedBy, Owned, Backs
  <2> QED BY <2>2, <2>3
<1>3. ASSUME NEW s \in Series, row[s] # None
      PROVE  /\ DOMAIN row[s] = {"project", "title", "meta", "episodes", "version"}
             /\ row[s].title \in Texts /\ row[s].meta \in Texts
             /\ row[s].episodes \subseteq Episodes
             /\ \A e \in row[s].episodes : row[e] # None /\ row[e].series = s
  <2> DEFINE cols == [project |-> Projects \union {None}, title |-> Texts, meta |-> Texts,
                      episodes |-> SUBSET Episodes, version |-> Nat]
  <2>1. s \in Core("studio") /\ Columns("studio", s) = cols /\ "episodes" \in Links("studio", s)
    BY StudioTables
  <2>2. DOMAIN row[s] = DOMAIN cols /\ \A f \in DOMAIN cols : row[s][f] \in cols[f]
    BY <1>1, <1>3, <2>1, RowTyped
  <2>3. \A e \in row[s].episodes : row[e] # None /\ row[e].series = s
    BY <1>1, <1>3, <2>1, RowLinked DEF NamedBy, Owned, Backs
  <2> QED BY <2>2, <2>3
<1>4. ASSUME NEW e \in Episodes, row[e] # None
      PROVE  /\ DOMAIN row[e] = {"series", "title", "state", "current", "awaiting", "asked", "version"}
             /\ row[e].state \in S!EpisodeState /\ row[e].current \in S!Revisions \union {None}
             /\ row[e].current # None =>
                   row[row[e].current] # None /\ row[row[e].current].episode = e
  <2> DEFINE cols == [series |-> Series, title |-> Texts, state |-> S!EpisodeState,
                      current |-> S!Revisions \union {None}, awaiting |-> S!Reviews \union {None},
                      asked |-> {"stated", "omitted"}, version |-> Nat]
  <2>1. e \in Core("studio") /\ Columns("studio", e) = cols /\ "current" \in Links("studio", e)
    BY StudioTables
  <2>2. DOMAIN row[e] = DOMAIN cols /\ \A f \in DOMAIN cols : row[e][f] \in cols[f]
    BY <1>1, <1>4, <2>1, RowTyped
  <2>3. ASSUME row[e].current # None
        PROVE  row[row[e].current] # None /\ row[row[e].current].episode = e
    <3>1. row[e].current \in NamedBy("current", row[e]["current"])
      BY <2>3 DEF NamedBy
    <3>2. row[row[e].current] # None /\ Owned("studio", e, "current", row[row[e].current])
      BY <1>1, <1>4, <2>1, <3>1, RowLinked
    <3> QED BY <3>2 DEF Owned, Backs
  <2> QED BY <2>2, <2>3
<1>5. ASSUME NEW r \in S!Revisions, row[r] # None
      PROVE  /\ "locked" \in DOMAIN row[r] /\ row[r].locked \in BOOLEAN
             /\ row[r].episode \in Episodes /\ row[r].parent \in S!Revisions \union {None}
             /\ row[r].parent # None => row[row[r].parent] # None
  <2> DEFINE cols == [episode |-> Episodes, parent |-> S!Revisions \union {None}, hash |-> Hashes,
                      locked |-> BOOLEAN, intent |-> {"NONE", "DOWNSTREAM", None}, version |-> Nat]
  <2>1. r \in Core("studio") /\ Columns("studio", r) = cols /\ "parent" \in Links("studio", r)
    BY StudioTables
  <2>2. DOMAIN row[r] = DOMAIN cols /\ \A f \in DOMAIN cols : row[r][f] \in cols[f]
    BY <1>1, <1>5, <2>1, RowTyped
  <2>3. ASSUME row[r].parent # None PROVE row[row[r].parent] # None
    <3>1. row[r].parent \in NamedBy("parent", row[r]["parent"])
      BY <2>3 DEF NamedBy
    <3> QED BY <1>1, <1>5, <2>1, <3>1, RowLinked
  <2> QED BY <2>2, <2>3
<1> QED BY <1>2, <1>3, <1>4, <1>5

LEMMA CreateProjectBegins ==
    ASSUME LinkedInv("studio"), NEW c, NEW p \in Projects, NEW text \in Texts,
           S!CreateProject(c, p, text)
    PROVE  Begins("studio", c)
<1> DEFINE new == [title |-> text, meta |-> text, series |-> {}, version |-> 0]
           cols == [title |-> Texts, meta |-> Texts, series |-> SUBSET Series, version |-> Nat]
<1>1. T!Begin(c, {T!Insert(p, new)}, S!Says(p, "created"))
  BY StudioBegin, StudioStatements DEF S!CreateProject, S!PutProject
<1>2. Columns("studio", p) = cols
  BY StudioTables
<1>3. new = [f \in DOMAIN cols |-> new[f]] /\ \A f \in DOMAIN cols : new[f] \in cols[f]
  OBVIOUS
<1>4. new.series = {}
  OBVIOUS
<1> HIDE DEF new, cols
<1>5. Typed("studio", p, new)
  BY <1>2, <1>3, NewTyped
<1>6. LinksHold("studio", p, new)
  BY <1>4, StudioTables DEF LinksHold, NamedBy
<1> QED BY <1>1, <1>5, <1>6, StudioTables, InsertBegins

\* What an edit changes of the columns of a row.
LEMMA ChangedSets ==
    ASSUME NEW id, NEW title \in Texts \union {None}, NEW meta \in Texts \union {None}
    PROVE  LET changed == S!Changed(id, [title |-> title, meta |-> meta])
           IN  /\ DOMAIN changed \subseteq {"title", "meta"}
               /\ \A f \in DOMAIN changed : changed[f] \in Texts
BY DEF S!Changed, S!Given

LEMMA UpdateProjectBegins ==
    ASSUME LinkedInv("studio"), NEW c, NEW p \in Projects, NEW title \in Texts \union {None},
           NEW meta \in Texts \union {None}, NEW v \in S!Stated(p),
           S!UpdateProject(c, p, [title |-> title, meta |-> meta], v)
    PROVE  Begins("studio", c)
<1> DEFINE changed == S!Changed(p, [title |-> title, meta |-> meta])
           base == IF "title" \in DOMAIN changed THEN S!Over([meta |-> row[p].meta], changed)
                   ELSE changed
           set == T!Given(T!Bumped(p, base))
           w == T!Update(p, set, v)
<1>1. row[p] # None
  BY DEF S!Stated, S!Present
<1>2. DOMAIN changed \subseteq {"title", "meta"} /\ \A f \in DOMAIN changed : changed[f] \in Texts
  BY ChangedSets
<1>3. T!Begin(c, {w}, <<>>)
  BY StudioBegin, StudioStatements DEF S!UpdateProject, S!SetProject
<1> HIDE DEF changed
<1>4. DOMAIN base \subseteq {"title", "meta"} /\ \A f \in DOMAIN base : base[f] \in Texts
  BY <1>1, <1>2, StudioRows DEF S!Over
<1> HIDE DEF base
<1>5. Fits("studio", p, base) /\ "version" \notin DOMAIN base /\ "series" \notin DOMAIN base
  BY <1>4, StudioTables DEF Fits
<1> HIDE DEF w
<1> QED BY <1>1, <1>3, <1>5, StudioTables, UpdateBegins DEF w, Sound

LEMMA UpdateSeriesBegins ==
    ASSUME LinkedInv("studio"), NEW c, NEW s \in Series, NEW title \in Texts \union {None},
           NEW meta \in Texts \union {None}, NEW v \in S!Stated(s),
           S!UpdateSeries(c, s, [title |-> title, meta |-> meta], v)
    PROVE  Begins("studio", c)
<1> DEFINE base == S!Changed(s, [title |-> title, meta |-> meta])
           set == T!Given(T!Bumped(s, base))
           w == T!Update(s, set, v)
<1>1. row[s] # None
  BY DEF S!Stated, S!Present
<1>2. DOMAIN base \subseteq {"title", "meta"} /\ \A f \in DOMAIN base : base[f] \in Texts
  BY ChangedSets
<1>3. T!Begin(c, {w}, <<>>)
  BY StudioBegin, StudioStatements DEF S!UpdateSeries, S!SetSeries
<1> HIDE DEF base
<1>4. Fits("studio", s, base) /\ "version" \notin DOMAIN base /\ "episodes" \notin DOMAIN base
  BY <1>2, StudioTables DEF Fits
<1> HIDE DEF w
<1> QED BY <1>1, <1>3, <1>4, StudioTables, UpdateBegins DEF w, Sound

LEMMA CreateSeriesBegins ==
    ASSUME LinkedInv("studio"), NEW c, NEW s \in Series, NEW p \in Projects \union {None},
           NEW text \in Texts, S!CreateSeries(c, s, p, text)
    PROVE  Begins("studio", c)
<1> DEFINE new == [project |-> p, title |-> text, meta |-> text, episodes |-> {}, version |-> 0]
           cols == [project |-> Projects \union {None}, title |-> Texts, meta |-> Texts,
                    episodes |-> SUBSET Episodes, version |-> Nat]
           base == [series |-> row[p].series \union {s}]
           set == T!Given(T!Bumped(p, base))
           v == T!Attempt(p, set, row[p].version)
           says == S!Says(s, "created")
<1>1. /\ p = None => T!Begin(c, {T!Insert(s, new)}, says)
      /\ p # None => row[p] # None /\ T!Begin(c, {T!Insert(s, new), v}, says)
  <2>1. S!PutSeries(s, p, text) = T!Insert(s, new)
        /\ S!Unchecked(S!SetProject(p, S!Bumped(p, base), row[p].version)) = v
    BY StudioStatements DEF S!PutSeries, S!SetProject
  <2>2. /\ p # None => row[p] # None
        /\ S!Begin(c, {S!PutSeries(s, p, text)}
                \union (IF p = None THEN {}
                        ELSE {S!Unchecked(S!SetProject(p, S!Bumped(p, base), row[p].version))}), says)
    BY DEF S!CreateSeries, S!Present
  <2> HIDE DEF new, base, set, v, says
  <2>3. p = None => T!Begin(c, {T!Insert(s, new)}, says)
    <3>1. {T!Insert(s, new)} \union {} = {T!Insert(s, new)}
      OBVIOUS
    <3> QED BY <2>1, <2>2, <3>1, StudioBegin
  <2>4. p # None => T!Begin(c, {T!Insert(s, new), v}, says)
    <3>1. {T!Insert(s, new)} \union {v} = {T!Insert(s, new), v}
      OBVIOUS
    <3> QED BY <2>1, <2>2, <3>1, StudioBegin
  <2> QED BY <2>2, <2>3, <2>4
<1>2. Columns("studio", s) = cols
  BY StudioTables
<1>3. new = [f \in DOMAIN cols |-> new[f]] /\ \A f \in DOMAIN cols : new[f] \in cols[f]
  <2>1. new = [f \in DOMAIN cols |-> new[f]]
    OBVIOUS
  <2>2. \A f \in DOMAIN cols : new[f] \in cols[f]
    OBVIOUS
  <2> QED BY <2>1, <2>2
<1>4. new.episodes = {} /\ new.project = p
  OBVIOUS
<1>5. DOMAIN base = {"series"} /\ base.series = row[p].series \union {s}
  OBVIOUS
<1> HIDE DEF new, cols, base
<1>6. Typed("studio", s, new)
  BY <1>2, <1>3, NewTyped
<1>7. LinksHold("studio", s, new)
  BY <1>4, StudioTables DEF LinksHold, NamedBy
<1>8. CASE p = None
  BY <1>1, <1>6, <1>7, <1>8, StudioTables, InsertBegins
<1>9. CASE p # None
  <2>1. p \in Projects /\ row[p] # None
    BY <1>1, <1>9
  <2>2. row[p].series \subseteq Series /\ \A u \in row[p].series : row[u] # None /\ row[u].project = p
    BY <2>1, StudioRows
  <2>3. Fits("studio", p, base) /\ "version" \notin DOMAIN base
    BY <1>5, <2>1, <2>2, StudioTables DEF Fits
  <2>4. ASSUME NEW u \in NamedBy("series", base["series"])
        PROVE  /\ u \in Target("studio", "series")
               /\ \/ u = s /\ Owned("studio", p, "series", new)
                  \/ row[u] # None /\ Owned("studio", p, "series", row[u])
    BY <1>4, <1>5, <2>2, <2>4 DEF NamedBy, Target, Owned, Backs
  <2>5. \A f \in Links("studio", p) \intersect DOMAIN base : \A u \in NamedBy(f, base[f]) :
           /\ u \in Target("studio", f)
           /\ \/ u = s /\ Owned("studio", p, f, new)
              \/ row[u] # None /\ Owned("studio", p, f, row[u])
    BY <1>5, <2>4
  <2> HIDE DEF v, set
  <2> QED BY <1>1, <1>6, <1>7, <1>9, <2>1, <2>3, <2>5, StudioTables, PointBegins DEF v, set, Sound
<1> QED BY <1>8, <1>9

LEMMA CreateEpisodeBegins ==
    ASSUME LinkedInv("studio"), NEW c, NEW e \in Episodes, NEW s \in Series, NEW text \in Texts,
           S!CreateEpisode(c, e, s, text)
    PROVE  Begins("studio", c)
<1> DEFINE new == [series |-> s, title |-> text, state |-> "DRAFT", current |-> None,
                   awaiting |-> None, asked |-> "stated", version |-> 0]
           cols == [series |-> Series, title |-> Texts, state |-> S!EpisodeState,
                    current |-> S!Revisions \union {None}, awaiting |-> S!Reviews \union {None},
                    asked |-> {"stated", "omitted"}, version |-> Nat]
           base == [episodes |-> row[s].episodes \union {e}]
           set == T!Given(T!Bumped(s, base))
           v == T!Attempt(s, set, row[s].version)
           says == S!Says(e, "DRAFT")
<1>1. row[s] # None /\ T!Begin(c, {T!Insert(e, new), v}, says)
  <2>1. S!PutEpisode(e, s, text) = T!Insert(e, new)
        /\ S!Unchecked(S!SetSeries(s, S!Bumped(s, base), row[s].version)) = v
    BY StudioStatements DEF S!PutEpisode, S!SetSeries
  <2>2. /\ row[s] # None
        /\ S!Begin(c, {S!PutEpisode(e, s, text),
                       S!Unchecked(S!SetSeries(s, S!Bumped(s, base), row[s].version))}, says)
    BY DEF S!CreateEpisode, S!Present
  <2> HIDE DEF new, base, set, v, says
  <2> QED BY <2>1, <2>2, StudioBegin
<1>2. Columns("studio", e) = cols
  BY StudioTables
<1>3. new = [f \in DOMAIN cols |-> new[f]] /\ \A f \in DOMAIN cols : new[f] \in cols[f]
  <2>1. new = [f \in DOMAIN cols |-> new[f]]
    OBVIOUS
  <2>2. \A f \in DOMAIN cols : new[f] \in cols[f]
    BY DEF S!EpisodeState
  <2> QED BY <2>1, <2>2
<1>4. new.current = None /\ new.series = s
  OBVIOUS
<1>5. DOMAIN base = {"episodes"} /\ base.episodes = row[s].episodes \union {e}
  OBVIOUS
<1> HIDE DEF new, cols, base
<1>6. Typed("studio", e, new)
  BY <1>2, <1>3, NewTyped
<1>7. LinksHold("studio", e, new)
  BY <1>4, StudioTables DEF LinksHold, NamedBy
<1>8. /\ row[s].episodes \subseteq Episodes
      /\ \A u \in row[s].episodes : row[u] # None /\ row[u].series = s
  BY <1>1, StudioRows
<1>9. Fits("studio", s, base) /\ "version" \notin DOMAIN base
  BY <1>5, <1>8, StudioTables DEF Fits
<1>10. ASSUME NEW u \in NamedBy("episodes", base["episodes"])
       PROVE  /\ u \in Target("studio", "episodes")
              /\ \/ u = e /\ Owned("studio", s, "episodes", new)
                 \/ row[u] # None /\ Owned("studio", s, "episodes", row[u])
  BY <1>4, <1>5, <1>8, <1>10 DEF NamedBy, Target, Owned, Backs
<1>11. \A f \in Links("studio", s) \intersect DOMAIN base : \A u \in NamedBy(f, base[f]) :
          /\ u \in Target("studio", f)
          /\ \/ u = e /\ Owned("studio", s, f, new)
             \/ row[u] # None /\ Owned("studio", s, f, row[u])
  BY <1>5, <1>10
<1> HIDE DEF v, set
<1> QED BY <1>1, <1>6, <1>7, <1>9, <1>11, StudioTables, PointBegins DEF v, set, Sound

\* The version that is stated is the one that was read.
LEMMA StatedRead ==
    ASSUME NEW id, NEW v \in S!Stated(id)
    PROVE  row[id] # None /\ (v = row[id].version \/ v = None)
BY DomainAssumption DEF S!Stated, S!Present

\* What a request sets of an episode, whether it states a version or leaves it out.
LEMMA AskedSets ==
    ASSUME NEW e \in Episodes, NEW v \in S!Stated(e), NEW set, Fits("studio", e, set),
           "version" \notin DOMAIN set, "current" \notin DOMAIN set, "asked" \notin DOMAIN set,
           MayWrite(set, row[e]), NEW base, base = S!Asked(set, v)
    PROVE  /\ Fits("studio", e, base) /\ "version" \notin DOMAIN base
           /\ "current" \notin DOMAIN base /\ Careful(e, base, v)
<1>1. /\ "asked" \in Settable("studio", e)
      /\ Columns("studio", e)["asked"] = {"stated", "omitted"}
  BY StudioTables
<1>2. v = row[e].version \/ v = None
  BY StatedRead
<1>3. CASE v = None
  <2>1. /\ DOMAIN base = DOMAIN set \union {"asked"} /\ base["asked"] = "omitted"
        /\ \A f \in DOMAIN set : base[f] = set[f]
    BY <1>3 DEF S!Asked, S!Over
  <2>2. Fits("studio", e, base)
    BY <1>1, <2>1 DEF Fits
  <2> QED BY <1>3, <2>1, <2>2 DEF Careful
<1>4. CASE v # None
  BY <1>2, <1>4 DEF S!Asked, Careful
<1> QED BY <1>3, <1>4

LEMMA UpdateEpisodeBegins ==
    ASSUME LinkedInv("studio"), NEW c, NEW e \in Episodes, NEW title \in Texts, NEW v \in S!Stated(e),
           S!UpdateEpisode(c, e, title, v)
    PROVE  Begins("studio", c)
<1> DEFINE edit == [title |-> title]
           base == S!Asked(edit, v)
           set == T!Given(T!Bumped(e, base))
           w == T!Update(e, set, v)
<1>1. row[e] # None
  BY StatedRead
<1>2. T!Begin(c, {w}, <<>>)
  BY StudioBegin, StudioStatements DEF S!UpdateEpisode, S!SetEpisode
<1>3. DOMAIN edit = {"title"} /\ edit.title = title
  OBVIOUS
<1> HIDE DEF edit
<1>4. Fits("studio", e, edit) /\ MayWrite(edit, row[e])
  BY <1>3, StudioTables DEF Fits, MayWrite
<1>5. base = S!Asked(edit, v)
  OBVIOUS
<1> HIDE DEF base
<1>6. /\ Fits("studio", e, base) /\ "version" \notin DOMAIN base
      /\ "current" \notin DOMAIN base /\ Careful(e, base, v)
  BY <1>3, <1>4, <1>5, AskedSets
<1>7. Sound("studio", e, base, v)
  BY <1>6, StudioTables DEF Sound
<1> HIDE DEF w
<1> QED BY <1>1, <1>2, <1>6, <1>7, StudioTables, UpdateBegins DEF w

LEMMA TransitionEpisodeBegins ==
    ASSUME LinkedInv("studio"), NEW c, NEW e \in Episodes, NEW target \in Targets,
           NEW v \in S!Stated(e), S!TransitionEpisode(c, e, target, v)
    PROVE  Begins("studio", c)
<1> DEFINE move == [state |-> target, awaiting |-> S!Awaited(target)]
           base == S!Asked(move, v)
           set == T!Given(T!Bumped(e, base))
           w == T!Update(e, set, v)
<1>1. row[e] # None
  BY StatedRead
<1>2. T!Begin(c, {w}, S!Says(e, target))
  BY StudioBegin, StudioStatements DEF S!TransitionEpisode, S!SetEpisode
<1>3. DOMAIN move = {"state", "awaiting"} /\ move.state = target /\ move.awaiting = S!Awaited(target)
  OBVIOUS
<1>4. target \in S!EpisodeState /\ S!Awaited(target) \in S!Reviews \union {None}
      /\ target \in S!Transitions[row[e].state]
  BY DomainAssumption DEF S!Awaited, S!TransitionEpisode, S!MayMove
<1> HIDE DEF move
<1>5. Fits("studio", e, move) /\ MayWrite(move, row[e])
  BY <1>3, <1>4, StudioTables DEF Fits, MayWrite
<1>6. base = S!Asked(move, v)
  OBVIOUS
<1> HIDE DEF base
<1>7. /\ Fits("studio", e, base) /\ "version" \notin DOMAIN base
      /\ "current" \notin DOMAIN base /\ Careful(e, base, v)
  BY <1>3, <1>5, <1>6, AskedSets
<1>8. Sound("studio", e, base, v)
  BY <1>7, StudioTables DEF Sound
<1> HIDE DEF w
<1> QED BY <1>1, <1>2, <1>7, <1>8, StudioTables, UpdateBegins DEF w

\* A revision of an episode that is there, made from one that is there, which may become
\* the current one.
LEMMA PutRevisionBegins ==
    ASSUME LinkedInv("studio"), NEW c, NEW r \in S!Revisions, NEW e \in Episodes,
           NEW parent \in S!Revisions \union {None}, parent # None => row[parent] # None,
           NEW hash \in Hashes, NEW intent \in {"NONE", "DOWNSTREAM", None}, NEW says,
           NEW pointed \in BOOLEAN, pointed => row[e] # None,
           S!Begin(c, {S!PutRevision(r, e, parent, hash, intent)}
                      \union (IF pointed THEN {S!Points(e, r)} ELSE {}), says)
    PROVE  Begins("studio", c)
<1> DEFINE new == [episode |-> e, parent |-> parent, hash |-> hash, locked |-> FALSE,
                   intent |-> intent, version |-> 0]
           cols == [episode |-> Episodes, parent |-> S!Revisions \union {None}, hash |-> Hashes,
                    locked |-> BOOLEAN, intent |-> {"NONE", "DOWNSTREAM", None}, version |-> Nat]
           base == [current |-> r]
           set == T!Given(T!Bumped(e, base))
           v == T!Attempt(e, set, row[e].version)
<1>1. /\ ~pointed => T!Begin(c, {T!Insert(r, new)}, says)
      /\ pointed => T!Begin(c, {T!Insert(r, new), v}, says)
  <2>1. S!PutRevision(r, e, parent, hash, intent) = T!Insert(r, new) /\ S!Points(e, r) = v
    BY StudioStatements DEF S!PutRevision, S!Points, S!SetEpisode
  <2> HIDE DEF new, base, set, v
  <2>2. ~pointed => T!Begin(c, {T!Insert(r, new)}, says)
    <3>1. {T!Insert(r, new)} \union {} = {T!Insert(r, new)}
      OBVIOUS
    <3> QED BY <2>1, <3>1, StudioBegin
  <2>3. pointed => T!Begin(c, {T!Insert(r, new), v}, says)
    <3>1. {T!Insert(r, new)} \union {v} = {T!Insert(r, new), v}
      OBVIOUS
    <3> QED BY <2>1, <3>1, StudioBegin
  <2> QED BY <2>2, <2>3
<1>2. Columns("studio", r) = cols
  BY StudioTables
<1>3. new = [f \in DOMAIN cols |-> new[f]] /\ \A f \in DOMAIN cols : new[f] \in cols[f]
  <2>1. new = [f \in DOMAIN cols |-> new[f]]
    OBVIOUS
  <2>2. new.locked \in BOOLEAN
    OBVIOUS
  <2>3. /\ new.episode \in Episodes /\ new.parent \in S!Revisions \union {None}
        /\ new.hash \in Hashes /\ new.intent \in {"NONE", "DOWNSTREAM", None} /\ new.version \in Nat
    OBVIOUS
  <2> HIDE DEF new
  <2> QED BY <2>1, <2>2, <2>3
<1>4. new.parent = parent /\ new.episode = e
  OBVIOUS
<1>5. DOMAIN base = {"current"} /\ base.current = r
  OBVIOUS
<1>10. LockedOnce(new)
  <2>1. "locked" \in DOMAIN new /\ "version" \in DOMAIN new /\ new["version"] = 0
    OBVIOUS
  <2>2. new["locked"] = FALSE
    OBVIOUS
  <2> HIDE DEF new
  <2> QED BY <2>1, <2>2 DEF LockedOnce
<1> HIDE DEF new, cols, base
<1>6. Typed("studio", r, new)
  BY <1>2, <1>3, NewTyped
<1>7. LinksHold("studio", r, new)
  BY <1>4, StudioTables DEF LinksHold, NamedBy, Target, Owned, Backs
<1>8. CASE ~pointed
  BY <1>1, <1>6, <1>7, <1>8, <1>10, StudioTables, InsertBegins
<1>9. CASE pointed
  <2>1. row[e] # None
    BY <1>9
  <2>2. Fits("studio", e, base) /\ "version" \notin DOMAIN base
    BY <1>5, StudioTables DEF Fits
  <2>3. ASSUME NEW u \in NamedBy("current", base["current"])
        PROVE  u \in Target("studio", "current") /\ u = r /\ Owned("studio", e, "current", new)
    BY <1>4, <1>5, <2>3 DEF NamedBy, Target, Owned, Backs
  <2>4. \A f \in Links("studio", e) \intersect DOMAIN base : \A u \in NamedBy(f, base[f]) :
           /\ u \in Target("studio", f)
           /\ \/ u = r /\ Owned("studio", e, f, new)
              \/ row[u] # None /\ Owned("studio", e, f, row[u])
    BY <1>5, <2>3
  <2>5. MayWrite(base, row[e])
    BY <1>5, <2>1, StudioRows DEF MayWrite
  <2>6. Sound("studio", e, base, row[e].version)
    BY <1>5, <2>5, StudioTables DEF Sound, Careful
  <2> HIDE DEF v, set
  <2> QED BY <1>1, <1>6, <1>7, <1>9, <1>10, <2>1, <2>2, <2>4, <2>6, StudioTables, PointBegins
          DEF v, set
<1> QED BY <1>8, <1>9

LEMMA CreateRevisionBegins ==
    ASSUME LinkedInv("studio"), NEW c, NEW r \in Roots, NEW e \in Episodes,
           NEW parent \in S!Revisions \union {None}, NEW hash \in Hashes,
           S!CreateRevision(c, r, e, parent, hash)
    PROVE  Begins("studio", c)
<1> DEFINE pointed == row[e].current = None
<1>1. /\ row[e] # None /\ (parent # None => row[parent] # None)
      /\ S!Begin(c, {S!PutRevision(r, e, parent, hash, None)}
                    \union (IF pointed THEN {S!Points(e, r)} ELSE {}), S!Says(r, "created"))
  BY DEF S!CreateRevision, S!Present, S!ParentKnown
<1>2. r \in S!Revisions /\ pointed \in BOOLEAN
  BY DEF S!Revisions
<1> HIDE DEF pointed
<1> QED BY <1>1, <1>2, PutRevisionBegins

LEMMA DeriveRevisionBegins ==
    ASSUME LinkedInv("studio"), NEW c, NEW parent \in Roots, NEW hash \in Hashes,
           NEW intent \in {"NONE", "DOWNSTREAM", None}, NEW v \in S!Stated(parent),
           S!DeriveRevision(c, parent, hash, intent, v)
    PROVE  Begins("studio", c)
<1> DEFINE r == <<parent, hash>>
           e == row[parent].episode
           pointed == row[e] # None
<1>1. S!Begin(c, {S!PutRevision(r, e, parent, hash, intent)}
                 \union (IF pointed THEN {S!Points(e, r)} ELSE {}), S!Says(r, "created"))
  BY DEF S!DeriveRevision, S!Present
<1>2. r \in S!Revisions /\ parent \in S!Revisions /\ pointed \in BOOLEAN /\ (pointed => row[e] # None)
  BY DEF S!Revisions
<1>3. row[parent] # None
  BY StatedRead
<1>4. e \in Episodes
  BY <1>2, <1>3, StudioRows
<1> HIDE DEF r, e, pointed
<1> QED BY <1>1, <1>2, <1>3, <1>4, PutRevisionBegins

LEMMA LockRevisionBegins ==
    ASSUME LinkedInv("studio"), NEW c, NEW r \in S!Revisions, NEW v \in S!Stated(r),
           S!LockRevision(c, r, v)
    PROVE  Begins("studio", c)
<1> DEFINE e == row[r].episode
           goes == row[e] # None /\ "LOCKED" \in S!Transitions[row[e].state]
           lock == [locked |-> TRUE]
           move == [state |-> "LOCKED"]
           w == T!Update(r, T!Bumped(r, lock), v)
           u == T!Attempt(e, T!Given(T!Bumped(e, move)), row[e].version)
           writes == {w} \union (IF goes THEN {u} ELSE {})
<1>1. T!Begin(c, writes, S!Says(r, "locked")) /\ row[r].locked # TRUE
  BY StudioBegin, StudioStatements
  DEF S!LockRevision, S!Present, S!Locked, S!SetRevision, S!SetEpisode
<1>2. row[r] # None
  BY StatedRead
<1>3. e \in Episodes /\ row[r].locked = FALSE
  BY <1>1, <1>2, StudioRows
<1>4. /\ DOMAIN lock = {"locked"} /\ lock.locked = TRUE
      /\ DOMAIN move = {"state"} /\ move.state = "LOCKED" /\ "LOCKED" \in S!EpisodeState
  BY DEF S!EpisodeState
<1>5. w \in writes /\ (\A z \in writes : z = w \/ z = u) /\ (u \in writes /\ u # w => goes)
  OBVIOUS
<1> HIDE DEF lock, move, writes
<1>6. Fits("studio", r, lock) /\ "version" \notin DOMAIN lock /\ "parent" \notin DOMAIN lock
  <2>1. lock["locked"] \in BOOLEAN
    BY DEF lock
  <2>2. Settable("studio", r) = {"locked", "version"} /\ Columns("studio", r)["locked"] = BOOLEAN
    BY StudioTables
  <2>3. lock["locked"] \in Columns("studio", r)["locked"]
    BY <2>1, <2>2
  <2> QED BY <1>4, <2>2, <2>3 DEF Fits
<1>7. Sound("studio", r, lock, v)
  BY <1>3, <1>4, StudioTables DEF Sound, Locking
<1>8. w.on = r /\ ~w.fresh /\ ~w.gone /\ w.where = v /\ Bumps("studio", r, lock, w.set)
  <2> HIDE DEF w
  <2> QED BY <1>2, <1>6, StudioTables, UpdateStatement DEF w
<1>9. \A k : LinkedStatement("studio", k, w)
  <2> HIDE DEF w
  <2> QED BY <1>2, <1>6, <1>8, StudioTables, UpdateLinked
<1>10. StatementsSound("studio", w)
  <2> HIDE DEF w
  <2> QED BY <1>2, <1>7, <1>8, StudioTables, UpdateSounds
<1>11. Fits("studio", e, move) /\ "version" \notin DOMAIN move /\ "current" \notin DOMAIN move
  BY <1>3, <1>4, StudioTables DEF Fits
<1>12. goes => row[e] # None /\ Sound("studio", e, move, row[e].version)
  BY <1>3, <1>4, StudioTables DEF Sound, Careful, MayWrite
<1> HIDE DEF e, goes, w, u
<1>13. ASSUME goes
       PROVE  /\ u.on = e /\ ~u.fresh /\ ~u.gone /\ u.where = row[e].version
              /\ Bumps("studio", e, move, u.set)
  <2> DEFINE set == T!Given(T!Bumped(e, move))
  <2>1. u = T!Attempt(e, set, row[e].version)
    BY DEF u
  <2>2. set = T!Given(T!Bumped(e, move))
    OBVIOUS
  <2>3. "studio" \in Schemas /\ e \in Counted("studio") /\ row[e] # None
    BY <1>3, <1>12, <1>13, StudioTables
  <2> HIDE DEF set
  <2> QED BY <1>11, <2>1, <2>2, <2>3, UpdateStatement
<1>14. ASSUME goes PROVE \A k : LinkedStatement("studio", k, u)
  BY <1>3, <1>11, <1>12, <1>13, <1>14, StudioTables, UpdateLinked
<1>15. ASSUME goes PROVE StatementsSound("studio", u)
  BY <1>3, <1>12, <1>13, <1>15, StudioTables, UpdateSounds
<1>16. u \in writes => (\A k : LinkedStatement("studio", k, u)) /\ StatementsSound("studio", u)
  BY <1>5, <1>9, <1>10, <1>14, <1>15
<1> QED BY <1>1, <1>5, <1>9, <1>10, <1>16, StudioTables, TwoStatements

\* Commands on the other tables.
LEMMA StudioOthers ==
    ASSUME NEW c, NEW w, NEW says, S!Begin(c, {w}, says),
           NEW id \in UNION {Artifacts, Characters, Locations, Props, Storyboards}, w.on = id
    PROVE  Begins("studio", c)
<1>1. id \notin Core("studio")
  <2> DEFINE others == UNION {Artifacts, Characters, Locations, Props, Storyboards}
  <2> HIDE DEF others
  <2>1. others \intersect Projects = {} /\ others \intersect Series = {}
        /\ others \intersect Episodes = {} /\ others \intersect S!Revisions = {}
    BY IdsAssumption DEF Separate, others
  <2> QED BY <2>1 DEF Core, others
<1> QED BY <1>1, StudioBegin, StudioTables, OtherTables

\* Where the statements of the store go.
LEMMA StudioPlaces ==
    ASSUME NEW id, NEW set, NEW v
    PROVE  S!Insert(id, set).on = id /\ S!Update(id, set, v).on = id
BY DEF S!Insert, S!Update

LEMMA WorldBegins ==
    ASSUME LinkedInv("studio"), NEW c, S!WorldRequests(c)
    PROVE  Begins("studio", c)
<1>1. ASSUME NEW s \in Series, NEW text \in Texts, NEW k \in Characters, S!CreateCharacter(c, k, s, text)
      PROVE  Begins("studio", c)
  BY <1>1, StudioOthers, StudioPlaces DEF S!CreateCharacter, S!PutCharacter
<1>2. ASSUME NEW text \in Texts, NEW k \in Characters, NEW v, S!UpdateCharacter(c, k, text, v)
      PROVE  Begins("studio", c)
  BY <1>2, StudioOthers, StudioPlaces DEF S!UpdateCharacter, S!SetCharacter
<1>3. ASSUME NEW s \in Series, NEW text \in Texts, NEW x \in Locations, S!UpsertLocation(c, x, s, text)
      PROVE  Begins("studio", c)
  <2>1. S!PutLocation(x, s, text).on = x
    BY StudioPlaces DEF S!PutLocation
  <2> QED BY <1>3, <2>1, StudioOthers DEF S!UpsertLocation
<1>4. ASSUME NEW s \in Series, NEW text \in Texts, NEW x \in Props, S!UpsertProp(c, x, s, text)
      PROVE  Begins("studio", c)
  <2>1. S!PutProp(x, s, text).on = x
    BY StudioPlaces DEF S!PutProp
  <2> QED BY <1>4, <2>1, StudioOthers DEF S!UpsertProp
<1> QED BY <1>1, <1>2, <1>3, <1>4 DEF S!WorldRequests

LEMMA StoryboardsBegin ==
    ASSUME LinkedInv("studio"), NEW c, S!StoryboardRequests(c)
    PROVE  Begins("studio", c)
<1>1. ASSUME NEW e \in Episodes, NEW t \in Texts, NEW v \in S!Stated(e), S!UpdateEpisode(c, e, t, v)
      PROVE  Begins("studio", c)
  BY <1>1, UpdateEpisodeBegins
<1>2. ASSUME NEW a \in Artifacts, NEW e \in Episodes, NEW hash \in Hashes, S!CreateArtifact(c, a, e, hash)
      PROVE  Begins("studio", c)
  BY <1>2, StudioOthers, StudioPlaces DEF S!CreateArtifact, S!PutArtifact
<1>3. ASSUME NEW b \in Storyboards, NEW e, NEW panels, S!CreateStoryboard(c, b, e, panels)
      PROVE  Begins("studio", c)
  BY <1>3, StudioOthers, StudioPlaces DEF S!CreateStoryboard, S!PutStoryboard
<1>4. ASSUME NEW b \in Storyboards, NEW panels, NEW v,
             S!UpdateStoryboard(c, b, panels, v) \/ S!ReorderStoryboard(c, b, panels, v)
      PROVE  Begins("studio", c)
  BY <1>4, StudioOthers, StudioPlaces DEF S!UpdateStoryboard, S!ReorderStoryboard, S!SetStoryboard
<1> QED BY <1>1, <1>2, <1>3, <1>4 DEF S!StoryboardRequests

LEMMA CatalogBegins ==
    ASSUME LinkedInv("studio"), NEW c, S!CatalogRequests(c)
    PROVE  Begins("studio", c)
BY CreateProjectBegins, UpdateProjectBegins, CreateSeriesBegins, UpdateSeriesBegins
DEF S!CatalogRequests, S!Maybe

LEMMA EpisodesBegin ==
    ASSUME LinkedInv("studio"), NEW c, S!EpisodeRequests(c) \/ S!RevisionRequests(c)
    PROVE  Begins("studio", c)
BY CreateEpisodeBegins, TransitionEpisodeBegins, CreateRevisionBegins, DeriveRevisionBegins,
   LockRevisionBegins
DEF S!EpisodeRequests, S!RevisionRequests, S!Maybe

\* The steps of the parts of studio.
StudioNext ==
    S!StudioCatalogNext \/ S!StudioWorldNext \/ S!StudioEpisodesNext \/ S!StudioBoardsNext

LEMMA StudioStep ==
    ASSUME LinkedInv("studio"), StudioNext
    PROVE  LinkedStep("studio")
<1>1. CASE S!Finish
  BY <1>1, StudioFinish, StudioTables, FinishStep
<1>2. ASSUME NEW c \in Calls, Begins("studio", c) PROVE LinkedStep("studio")
  BY <1>2, StudioTables, BeginsStep
<1>3. ASSUME NEW c \in Calls, NEW s \in Series, NEW text \in Texts, S!CreateSeries(c, s, None, text)
      PROVE  LinkedStep("studio")
  BY <1>2, <1>3, CreateSeriesBegins
<1>4. CASE S!StudioCatalogNext
  BY <1>1, <1>2, <1>4, CatalogBegins DEF S!StudioCatalogNext
<1>5. CASE S!StudioWorldNext
  BY <1>1, <1>2, <1>3, <1>5, WorldBegins DEF S!StudioWorldNext
<1>6. CASE S!StudioEpisodesNext
  BY <1>1, <1>2, <1>3, <1>6, EpisodesBegin DEF S!StudioEpisodesNext
<1>7. CASE S!StudioBoardsNext
  BY <1>1, <1>2, <1>3, <1>7, CreateEpisodeBegins, StoryboardsBegin DEF S!StudioBoardsNext
<1> QED BY <1>4, <1>5, <1>6, <1>7 DEF StudioNext

-----------------------------------------------------------------------------
(* Production *)

LEMMA ProductionFinish == ASSUME P!Finish PROVE \E c \in Calls : T!Commit(c) \/ T!Rollback(c)
BY DEF P!Finish, P!Commit, T!Commit, P!Rollback, T!Rollback, P!Finds, T!Finds, P!Clashes, T!Clashes,
       P!Written, T!Written, P!Over, T!Over

LEMMA ProductionBegin ==
    ASSUME NEW c, NEW writes, NEW says, P!Begin(c, writes, says)
    PROVE  T!Begin(c, writes, says)
BY DEF P!Begin, T!Begin

LEMMA ProductionStatements ==
    ASSUME NEW id, NEW set, NEW v
    PROVE  /\ P!Insert(id, set) = T!Insert(id, set)
           /\ P!Update(id, set, v) = T!Update(id, set, v)
           /\ P!Bumped(id, set) = T!Bumped(id, set) /\ P!Given(set) = T!Given(set)
BY DEF P!Insert, T!Insert, P!Update, T!Update, P!Bumped, T!Bumped, P!Over, T!Over, P!Given, T!Given

LEMMA ProductionPlaces ==
    ASSUME NEW id, NEW set, NEW v
    PROVE  P!Insert(id, set).on = id /\ P!Update(id, set, v).on = id
BY DEF P!Insert, P!Update

LEMMA ProductionStated ==
    ASSUME NEW id, NEW v \in P!Stated(id)
    PROVE  row[id] # None
BY DEF P!Stated, P!Present

\* The tables.
LEMMA ProductionTables ==
    /\ "production" \in Schemas
    /\ \A p \in Projects :
          /\ p \in Core("production") /\ p \in Counted("production")
          /\ p \notin Versioned("production") /\ p \notin Lockable("production")
          /\ Settable("production", p) = {"title", "status", "meta", "current", "version"}
          /\ Links("production", p) = {"current"}
          /\ Columns("production", p) =
                [title |-> Texts, status |-> P!ProjectStatus, meta |-> Texts,
                 current |-> P!Revisions \union {None}, version |-> Nat]
    /\ \A r \in P!Revisions :
          /\ r \in Core("production") /\ r \in Counted("production")
          /\ r \notin Versioned("production") /\ r \in Lockable("production")
          /\ Settable("production", r) = {"locked", "version"}
          /\ Links("production", r) = {"project", "parent"}
          /\ Columns("production", r) =
                [project |-> Projects, parent |-> P!Revisions \union {None}, hash |-> Hashes,
                 locked |-> BOOLEAN, intent |-> {"NONE", "ALL", None}, version |-> Nat]
    /\ \A a \in Assets :
          /\ a \in Core("production") /\ a \in Counted("production")
          /\ a \notin Versioned("production") /\ a \notin Lockable("production")
          /\ Settable("production", a) = {"state", "active", "version"}
          /\ Links("production", a) = {"active"}
          /\ Columns("production", a) =
                [project |-> Projects \union {None}, state |-> DOMAIN P!AssetTransitions,
                 active |-> AssetRevisions \union {None}, version |-> Nat]
    /\ \A n \in AssetRevisions :
          /\ n \in Core("production") /\ n \notin Versioned("production") /\ n \notin Lockable("production")
          /\ Links("production", n) = {}
          /\ Columns("production", n) = [asset |-> Assets, hash |-> Hashes, version |-> {0}]
    /\ \A d \in Edls :
          /\ d \in Core("production") /\ d \notin Versioned("production") /\ d \notin Lockable("production")
          /\ Settable("production", d) = {"status"}
          /\ Links("production", d) = {"project", "revision"}
          /\ Columns("production", d) =
                [project |-> Projects, revision |-> P!Revisions, status |-> {"DRAFT", "PUBLISHED"},
                 version |-> {0}]
<1>1. /\ Projects \intersect P!Revisions = {} /\ Projects \intersect Assets = {}
      /\ Projects \intersect AssetRevisions = {} /\ Projects \intersect Edls = {}
      /\ P!Revisions \intersect Assets = {} /\ P!Revisions \intersect AssetRevisions = {}
      /\ P!Revisions \intersect Edls = {} /\ Assets \intersect AssetRevisions = {}
      /\ Assets \intersect Edls = {} /\ AssetRevisions \intersect Edls = {}
  BY IdsAssumption DEF Separate
<1>2. "production" \in Schemas
  BY DEF Schemas
<1>3. ASSUME NEW p \in Projects
      PROVE  /\ p \in Core("production") /\ p \in Counted("production")
          /\ p \notin Versioned("production") /\ p \notin Lockable("production")
             /\ Settable("production", p) = {"title", "status", "meta", "current", "version"}
             /\ Links("production", p) = {"current"}
             /\ Columns("production", p) =
                   [title |-> Texts, status |-> P!ProjectStatus, meta |-> Texts,
                    current |-> P!Revisions \union {None}, version |-> Nat]
  BY <1>1 DEF Core, Counted, Versioned, Lockable, Settable, Links, Columns, ProductionColumns
<1>4. ASSUME NEW r \in P!Revisions
      PROVE  /\ r \in Core("production") /\ r \in Counted("production")
          /\ r \notin Versioned("production") /\ r \in Lockable("production")
             /\ Settable("production", r) = {"locked", "version"}
             /\ Links("production", r) = {"project", "parent"}
             /\ Columns("production", r) =
                   [project |-> Projects, parent |-> P!Revisions \union {None}, hash |-> Hashes,
                    locked |-> BOOLEAN, intent |-> {"NONE", "ALL", None}, version |-> Nat]
  BY <1>1 DEF Core, Counted, Versioned, Lockable, Settable, Links, Columns, ProductionColumns
<1>5. ASSUME NEW a \in Assets
      PROVE  /\ a \in Core("production") /\ a \in Counted("production")
          /\ a \notin Versioned("production") /\ a \notin Lockable("production")
             /\ Settable("production", a) = {"state", "active", "version"}
             /\ Links("production", a) = {"active"}
             /\ Columns("production", a) =
                   [project |-> Projects \union {None}, state |-> DOMAIN P!AssetTransitions,
                    active |-> AssetRevisions \union {None}, version |-> Nat]
  BY <1>1 DEF Core, Counted, Versioned, Lockable, Settable, Links, Columns, ProductionColumns
<1>6. ASSUME NEW n \in AssetRevisions
      PROVE  /\ n \in Core("production") /\ n \notin Versioned("production") /\ n \notin Lockable("production")
             /\ Links("production", n) = {}
             /\ Columns("production", n) = [asset |-> Assets, hash |-> Hashes, version |-> {0}]
  BY <1>1 DEF Core, Versioned, Lockable, Links, Columns, ProductionColumns
<1>7. ASSUME NEW d \in Edls
      PROVE  /\ d \in Core("production") /\ d \notin Versioned("production") /\ d \notin Lockable("production")
             /\ Settable("production", d) = {"status"}
             /\ Links("production", d) = {"project", "revision"}
             /\ Columns("production", d) =
                   [project |-> Projects, revision |-> P!Revisions, status |-> {"DRAFT", "PUBLISHED"},
                    version |-> {0}]
  BY <1>1 DEF Core, Versioned, Lockable, Settable, Links, Columns, ProductionColumns
<1> QED BY <1>2, <1>3, <1>4, <1>5, <1>6, <1>7

\* What a row names by a column of a single row.
LEMMA NamesOne ==
    ASSUME LinkedInv("production"), NEW id \in Core("production"), row[id] # None,
           NEW f \in Links("production", id), f \notin {"series", "episodes"}, row[id][f] # None
    PROVE  row[row[id][f]] # None /\ Owned("production", id, f, row[row[id][f]])
<1>1. row[id][f] \in NamedBy(f, row[id][f])
  BY DEF NamedBy
<1> QED BY <1>1, ProductionTables, RowLinked

\* The rows.
LEMMA ProductionRows ==
    ASSUME LinkedInv("production")
    PROVE  /\ \A p \in Projects : row[p] # None =>
                 /\ row[p].current # None =>
                       row[row[p].current] # None /\ row[row[p].current].project = p
           /\ \A r \in P!Revisions : row[r] # None =>
                 /\ "locked" \in DOMAIN row[r] /\ row[r].locked \in BOOLEAN
                 /\ row[r].project \in Projects /\ row[row[r].project] # None
                 /\ row[r].parent # None => row[row[r].parent] # None
           /\ \A a \in Assets : row[a] # None =>
                 /\ row[a].active # None =>
                       row[row[a].active] # None /\ row[row[a].active].asset = a
           /\ \A d \in Edls : row[d] # None =>
                 row[row[d].project] # None /\ row[row[d].revision] # None
<1>1. "production" \in Schemas
  BY DEF Schemas
<1>2. ASSUME NEW p \in Projects, row[p] # None, row[p].current # None
      PROVE  row[row[p].current] # None /\ row[row[p].current].project = p
  <2>1. p \in Core("production") /\ "current" \in Links("production", p)
    BY ProductionTables
  <2>2. row[row[p].current] # None /\ Owned("production", p, "current", row[row[p].current])
    BY <1>2, <2>1, NamesOne
  <2> QED BY <2>2 DEF Owned, Backs
<1>3. ASSUME NEW r \in P!Revisions, row[r] # None
      PROVE  /\ "locked" \in DOMAIN row[r] /\ row[r].locked \in BOOLEAN
             /\ row[r].project \in Projects /\ row[row[r].project] # None
             /\ row[r].parent # None => row[row[r].parent] # None
  <2> DEFINE cols == [project |-> Projects, parent |-> P!Revisions \union {None}, hash |-> Hashes,
                      locked |-> BOOLEAN, intent |-> {"NONE", "ALL", None}, version |-> Nat]
  <2>1. /\ r \in Core("production") /\ Columns("production", r) = cols
        /\ "project" \in Links("production", r) /\ "parent" \in Links("production", r)
    BY ProductionTables
  <2>2. DOMAIN row[r] = DOMAIN cols /\ \A f \in DOMAIN cols : row[r][f] \in cols[f]
    BY <1>1, <1>3, <2>1, RowTyped
  <2>3. "locked" \in DOMAIN row[r] /\ row[r].locked \in BOOLEAN /\ row[r].project \in Projects
    BY <2>2
  <2>4. row[row[r].project] # None
    BY <1>3, <2>1, <2>3, NamesOne, NoneAssumption
  <2>5. row[r].parent # None => row[row[r].parent] # None
    BY <1>3, <2>1, NamesOne
  <2> QED BY <2>3, <2>4, <2>5
<1>4. ASSUME NEW a \in Assets, row[a] # None, row[a].active # None
      PROVE  row[row[a].active] # None /\ row[row[a].active].asset = a
  <2>1. a \in Core("production") /\ "active" \in Links("production", a)
    BY ProductionTables
  <2>2. row[row[a].active] # None /\ Owned("production", a, "active", row[row[a].active])
    BY <1>4, <2>1, NamesOne
  <2> QED BY <2>2 DEF Owned, Backs
<1>5. ASSUME NEW d \in Edls, row[d] # None
      PROVE  row[row[d].project] # None /\ row[row[d].revision] # None
  <2> DEFINE cols == [project |-> Projects, revision |-> P!Revisions,
                      status |-> {"DRAFT", "PUBLISHED"}, version |-> {0}]
  <2>1. /\ d \in Core("production") /\ Columns("production", d) = cols
        /\ "project" \in Links("production", d) /\ "revision" \in Links("production", d)
    BY ProductionTables
  <2>2. DOMAIN row[d] = DOMAIN cols /\ \A f \in DOMAIN cols : row[d][f] \in cols[f]
    BY <1>1, <1>5, <2>1, RowTyped
  <2>3. row[d].project \in Projects /\ row[d].revision \in P!Revisions
    BY <2>2
  <2> QED BY <1>5, <2>1, <2>3, NamesOne, NoneAssumption
<1> QED BY <1>2, <1>3, <1>4, <1>5

LEMMA CreateVideoProjectBegins ==
    ASSUME LinkedInv("production"), NEW c, NEW p \in Projects, NEW text \in Texts,
           P!CreateProject(c, p, text)
    PROVE  Begins("production", c)
<1> DEFINE new == [title |-> text, status |-> "DRAFT", meta |-> text, current |-> None, version |-> 0]
           cols == [title |-> Texts, status |-> P!ProjectStatus, meta |-> Texts,
                    current |-> P!Revisions \union {None}, version |-> Nat]
<1>1. T!Begin(c, {T!Insert(p, new)}, P!Says(p, "created"))
  BY ProductionBegin, ProductionStatements DEF P!CreateProject, P!InsertProject
<1>2. Columns("production", p) = cols
  BY ProductionTables
<1>3. new = [f \in DOMAIN cols |-> new[f]]
  OBVIOUS
<1>4. \A f \in DOMAIN cols : new[f] \in cols[f]
  BY DEF P!ProjectStatus
<1>5. new.current = None
  OBVIOUS
<1> HIDE DEF new, cols
<1>6. Typed("production", p, new)
  BY <1>2, <1>3, <1>4, NewTyped
<1>7. LinksHold("production", p, new)
  BY <1>5, ProductionTables DEF LinksHold, NamedBy
<1> QED BY <1>1, <1>6, <1>7, ProductionTables, InsertBegins

LEMMA EditProjectBegins ==
    ASSUME LinkedInv("production"), NEW c, NEW p \in Projects, NEW title \in Texts \union {None},
           NEW meta \in Texts \union {None}, NEW status \in {"ARCHIVED", None}, NEW v \in P!Stated(p),
           P!EditProject(c, p, [title |-> title, meta |-> meta, status |-> status], v)
    PROVE  Begins("production", c)
<1> DEFINE patch == [title |-> title, meta |-> meta, status |-> status]
           base == P!Changed(p, patch)
           set == T!Given(T!Bumped(p, base))
           w == T!Update(p, set, v)
<1>1. row[p] # None
  BY ProductionStated
<1>2. T!Begin(c, {w}, P!Says(p, "updated"))
  BY ProductionBegin, ProductionStatements DEF P!EditProject, P!UpdateProject
<1>3. /\ DOMAIN patch = {"title", "meta", "status"}
      /\ patch.title = title /\ patch.meta = meta /\ patch.status = status
  OBVIOUS
<1> HIDE DEF patch
<1>4. DOMAIN base \subseteq DOMAIN patch /\ \A f \in DOMAIN base : base[f] = patch[f] /\ patch[f] # None
  BY DEF P!Changed, P!Given
<1> HIDE DEF base
<1>5. Fits("production", p, base) /\ "version" \notin DOMAIN base /\ "current" \notin DOMAIN base
  <2>1. /\ Settable("production", p) = {"title", "status", "meta", "current", "version"}
        /\ Columns("production", p)["title"] = Texts /\ Columns("production", p)["meta"] = Texts
        /\ Columns("production", p)["status"] = P!ProjectStatus
    BY ProductionTables
  <2>2. "ARCHIVED" \in P!ProjectStatus
    BY DEF P!ProjectStatus
  <2> QED BY <1>3, <1>4, <2>1, <2>2 DEF Fits
<1> HIDE DEF w
<1> QED BY <1>1, <1>2, <1>5, ProductionTables, UpdateBegins DEF w, Sound

LEMMA InsertRevisionBegins ==
    ASSUME LinkedInv("production"), NEW c, NEW r \in P!Revisions, NEW p \in Projects, row[p] # None,
           NEW parent \in P!Revisions \union {None}, parent # None => row[parent] # None,
           NEW hash \in Hashes, NEW intent \in {"NONE", "ALL", None}, NEW says, NEW pointed \in BOOLEAN,
           P!Begin(c, {P!InsertRevision(r, p, parent, hash, intent)}
                      \union (IF pointed THEN {P!Points(p, r)} ELSE {}), says)
    PROVE  Begins("production", c)
<1> DEFINE new == [project |-> p, parent |-> parent, hash |-> hash, locked |-> FALSE,
                   intent |-> intent, version |-> 0]
           cols == [project |-> Projects, parent |-> P!Revisions \union {None}, hash |-> Hashes,
                    locked |-> BOOLEAN, intent |-> {"NONE", "ALL", None}, version |-> Nat]
           base == [current |-> r]
           set == T!Given(T!Bumped(p, base))
           v == T!Attempt(p, set, row[p].version)
<1>1. /\ ~pointed => T!Begin(c, {T!Insert(r, new)}, says)
      /\ pointed => T!Begin(c, {T!Insert(r, new), v}, says)
  <2>1. P!InsertRevision(r, p, parent, hash, intent) = T!Insert(r, new) /\ P!Points(p, r) = v
    <3>1. P!InsertRevision(r, p, parent, hash, intent) = T!Insert(r, new)
      BY ProductionStatements DEF P!InsertRevision
    <3>2. P!UpdateProject(p, P!Bumped(p, base), row[p].version) = T!Update(p, set, row[p].version)
      BY ProductionStatements DEF P!UpdateProject
    <3> HIDE DEF set
    <3>3. P!Points(p, r) = v
      BY <3>2 DEF P!Points, T!Attempt
    <3> QED BY <3>1, <3>3
  <2> HIDE DEF new, base, set, v
  <2>2. ~pointed => T!Begin(c, {T!Insert(r, new)}, says)
    <3>1. {T!Insert(r, new)} \union {} = {T!Insert(r, new)}
      OBVIOUS
    <3> QED BY <2>1, <3>1, ProductionBegin
  <2>3. pointed => T!Begin(c, {T!Insert(r, new), v}, says)
    <3>1. {T!Insert(r, new)} \union {v} = {T!Insert(r, new), v}
      OBVIOUS
    <3> QED BY <2>1, <3>1, ProductionBegin
  <2> QED BY <2>2, <2>3
<1>2. Columns("production", r) = cols
  BY ProductionTables
<1>3. new = [f \in DOMAIN cols |-> new[f]] /\ \A f \in DOMAIN cols : new[f] \in cols[f]
  <2>1. new = [f \in DOMAIN cols |-> new[f]]
    OBVIOUS
  <2>2. new.locked \in BOOLEAN
    OBVIOUS
  <2>3. /\ new.project \in Projects /\ new.parent \in P!Revisions \union {None}
        /\ new.hash \in Hashes /\ new.intent \in {"NONE", "ALL", None} /\ new.version \in Nat
    OBVIOUS
  <2> HIDE DEF new
  <2> QED BY <2>1, <2>2, <2>3
<1>4. new.parent = parent /\ new.project = p
  OBVIOUS
<1>5. DOMAIN base = {"current"} /\ base.current = r
  OBVIOUS
<1>10. LockedOnce(new)
  <2>1. "locked" \in DOMAIN new /\ "version" \in DOMAIN new /\ new["version"] = 0
    OBVIOUS
  <2>2. new["locked"] = FALSE
    OBVIOUS
  <2> HIDE DEF new
  <2> QED BY <2>1, <2>2 DEF LockedOnce
<1> HIDE DEF new, cols, base
<1>6. Typed("production", r, new)
  BY <1>2, <1>3, NewTyped
<1>7. LinksHold("production", r, new)
  BY <1>4, ProductionTables DEF LinksHold, NamedBy, Target, Owned, Backs
<1>8. CASE ~pointed
  BY <1>1, <1>6, <1>7, <1>8, <1>10, ProductionTables, InsertBegins
<1>9. CASE pointed
  <2>1. Fits("production", p, base) /\ "version" \notin DOMAIN base
    BY <1>5, ProductionTables DEF Fits
  <2>2. ASSUME NEW u \in NamedBy("current", base["current"])
        PROVE  u \in Target("production", "current") /\ u = r /\ Owned("production", p, "current", new)
    BY <1>4, <1>5, <2>2 DEF NamedBy, Target, Owned, Backs
  <2>3. \A f \in Links("production", p) \intersect DOMAIN base : \A u \in NamedBy(f, base[f]) :
           /\ u \in Target("production", f)
           /\ \/ u = r /\ Owned("production", p, f, new)
              \/ row[u] # None /\ Owned("production", p, f, row[u])
    BY <1>5, <2>2
  <2> HIDE DEF v, set
  <2> QED BY <1>1, <1>6, <1>7, <1>9, <1>10, <2>1, <2>3, ProductionTables, PointBegins
          DEF v, set, Sound
<1> QED BY <1>8, <1>9

LEMMA CreateVideoRevisionBegins ==
    ASSUME LinkedInv("production"), NEW c, NEW r \in Roots, NEW p \in Projects,
           NEW parent \in P!Revisions \union {None}, NEW hash \in Hashes,
           P!CreateRevision(c, r, p, parent, hash)
    PROVE  Begins("production", c)
<1> DEFINE pointed == row[p].current = None
<1>1. /\ row[p] # None /\ (parent # None => row[parent] # None)
      /\ P!Begin(c, {P!InsertRevision(r, p, parent, hash, None)}
                    \union (IF pointed THEN {P!Points(p, r)} ELSE {}), P!Says(r, "created"))
  BY DEF P!CreateRevision, P!Present
<1>2. r \in P!Revisions /\ pointed \in BOOLEAN
  BY DEF P!Revisions
<1> HIDE DEF pointed
<1> QED BY <1>1, <1>2, InsertRevisionBegins

LEMMA DeriveVideoRevisionBegins ==
    ASSUME LinkedInv("production"), NEW c, NEW parent \in Roots, NEW hash \in Hashes,
           NEW intent \in {"NONE", "ALL", None}, NEW v \in P!Stated(parent),
           P!DeriveRevision(c, parent, hash, intent, v)
    PROVE  Begins("production", c)
<1> DEFINE r == <<parent, hash>>
           p == row[parent].project
           pointed == row[p] # None
<1>1. P!Begin(c, {P!InsertRevision(r, p, parent, hash, intent)}
                 \union (IF pointed THEN {P!Points(p, r)} ELSE {}), P!Says(r, "created"))
  BY DEF P!DeriveRevision, P!Present
<1>2. r \in P!Revisions /\ parent \in P!Revisions /\ pointed \in BOOLEAN
  BY DEF P!Revisions
<1>3. row[parent] # None
  BY ProductionStated
<1>4. p \in Projects /\ row[p] # None
  BY <1>2, <1>3, ProductionRows
<1> HIDE DEF r, p, pointed
<1> QED BY <1>1, <1>2, <1>3, <1>4, InsertRevisionBegins

LEMMA LockVideoRevisionBegins ==
    ASSUME LinkedInv("production"), NEW c, NEW r \in P!Revisions, NEW hash, NEW v \in P!Stated(r),
           P!LockRevision(c, r, hash, v)
    PROVE  Begins("production", c)
<1> DEFINE base == [locked |-> TRUE]
           set == T!Bumped(r, base)
           w == T!Update(r, set, v)
<1>1. row[r] # None
  BY ProductionStated
<1>2. T!Begin(c, {w}, P!Says(r, "locked")) /\ ~row[r].locked
  BY ProductionBegin, ProductionStatements DEF P!LockRevision, P!UpdateRevision, P!MayLock
<1>3. DOMAIN base = {"locked"}
  OBVIOUS
<1>4. base["locked"] \in BOOLEAN /\ base["locked"] = TRUE
  OBVIOUS
<1> HIDE DEF base
<1>5. Fits("production", r, base) /\ "version" \notin DOMAIN base
      /\ "project" \notin DOMAIN base /\ "parent" \notin DOMAIN base
  <2>1. Settable("production", r) = {"locked", "version"} /\ Columns("production", r)["locked"] = BOOLEAN
    BY ProductionTables
  <2>2. base["locked"] \in Columns("production", r)["locked"]
    BY <1>4, <2>1
  <2> QED BY <1>3, <2>1, <2>2 DEF Fits
<1>9. row[r].locked = FALSE
  BY <1>1, <1>2, ProductionRows
<1>6. Sound("production", r, base, v)
  BY <1>3, <1>4, <1>9, ProductionTables DEF Sound, Locking
<1>7. \A f \in Links("production", r) : f \notin DOMAIN base
  BY <1>5, ProductionTables
<1>8. "production" \in Schemas /\ r \in Counted("production")
  BY ProductionTables
<1> HIDE DEF w
<1> QED BY <1>1, <1>2, <1>5, <1>6, <1>7, <1>8, UpdateBegins DEF w

LEMMA CreateAssetBegins ==
    ASSUME LinkedInv("production"), NEW c, NEW a \in Assets, NEW p \in Projects \union {None},
           P!CreateAsset(c, a, p)
    PROVE  Begins("production", c)
<1> DEFINE new == [project |-> p, state |-> "DISCOVERED", active |-> None, version |-> 0]
           cols == [project |-> Projects \union {None}, state |-> DOMAIN P!AssetTransitions,
                    active |-> AssetRevisions \union {None}, version |-> Nat]
<1>1. T!Begin(c, {T!Insert(a, new)}, P!Says(a, "DISCOVERED"))
  BY ProductionBegin, ProductionStatements DEF P!CreateAsset, P!InsertAsset
<1>2. Columns("production", a) = cols
  BY ProductionTables
<1>3. new = [f \in DOMAIN cols |-> new[f]]
  OBVIOUS
<1>4. "DISCOVERED" \in DOMAIN P!AssetTransitions
  BY DEF P!AssetTransitions
<1>5. \A f \in DOMAIN cols : new[f] \in cols[f]
  BY <1>4
<1>6. new.active = None
  OBVIOUS
<1> HIDE DEF new, cols
<1>7. Typed("production", a, new)
  BY <1>2, <1>3, <1>5, NewTyped
<1>8. LinksHold("production", a, new)
  BY <1>6, ProductionTables DEF LinksHold, NamedBy
<1> QED BY <1>1, <1>7, <1>8, ProductionTables, InsertBegins

LEMMA TransitionAssetBegins ==
    ASSUME LinkedInv("production"), NEW c, NEW a \in Assets, NEW target \in DOMAIN P!AssetTransitions,
           NEW reviewed, NEW v \in P!Stated(a), P!TransitionAsset(c, a, target, reviewed, v)
    PROVE  Begins("production", c)
<1> DEFINE base == [state |-> target]
           set == T!Bumped(a, base)
           w == T!Update(a, set, None)
<1>1. row[a] # None
  BY ProductionStated
<1>2. T!Begin(c, {w}, P!Says(a, target))
  BY ProductionBegin, ProductionStatements DEF P!TransitionAsset, P!UpdateAsset
<1>3. DOMAIN base = {"state"} /\ base.state = target
  OBVIOUS
<1> HIDE DEF base
<1>4. Fits("production", a, base) /\ "version" \notin DOMAIN base /\ "active" \notin DOMAIN base
  BY <1>3, ProductionTables DEF Fits
<1> HIDE DEF w
<1> QED BY <1>1, <1>2, <1>4, ProductionTables, UpdateBegins DEF w, Sound

LEMMA CreateAssetRevisionBegins ==
    ASSUME LinkedInv("production"), NEW c, NEW n \in AssetRevisions, NEW a \in Assets,
           NEW hash \in Hashes, P!CreateAssetRevision(c, n, a, hash)
    PROVE  Begins("production", c)
<1> DEFINE new == [asset |-> a, hash |-> hash, version |-> 0]
           cols == [asset |-> Assets, hash |-> Hashes, version |-> {0}]
           base == [active |-> n]
           set == T!Bumped(a, base)
           v == T!Update(a, set, None)
<1>1. row[a] # None /\ T!Begin(c, {T!Insert(n, new), v}, P!Says(n, "created"))
  BY ProductionBegin, ProductionStatements
  DEF P!CreateAssetRevision, P!InsertAssetRevision, P!UpdateAsset, P!Present
<1>2. Columns("production", n) = cols
  BY ProductionTables
<1>3. new = [f \in DOMAIN cols |-> new[f]] /\ \A f \in DOMAIN cols : new[f] \in cols[f]
  OBVIOUS
<1>4. new.asset = a
  OBVIOUS
<1>5. DOMAIN base = {"active"} /\ base.active = n
  OBVIOUS
<1> HIDE DEF new, cols, base
<1>6. Typed("production", n, new) /\ LinksHold("production", n, new)
  BY <1>2, <1>3, NewTyped, ProductionTables DEF LinksHold
<1>7. Fits("production", a, base) /\ "version" \notin DOMAIN base
  BY <1>5, ProductionTables DEF Fits
<1>8. ASSUME NEW u \in NamedBy("active", base["active"])
      PROVE  u \in Target("production", "active") /\ u = n /\ Owned("production", a, "active", new)
  BY <1>4, <1>5, <1>8 DEF NamedBy, Target, Owned, Backs
<1>9. \A f \in Links("production", a) \intersect DOMAIN base : \A u \in NamedBy(f, base[f]) :
         /\ u \in Target("production", f)
         /\ \/ u = n /\ Owned("production", a, f, new)
            \/ row[u] # None /\ Owned("production", a, f, row[u])
  BY <1>5, <1>8
<1> HIDE DEF v, set
<1> QED BY <1>1, <1>6, <1>7, <1>9, ProductionTables, PointBegins DEF v, set, Sound

LEMMA CreateEdlBegins ==
    ASSUME LinkedInv("production"), NEW c, NEW d \in Edls, NEW p \in Projects, NEW r \in P!Revisions,
           P!CreateEdl(c, d, p, r)
    PROVE  Begins("production", c)
<1> DEFINE new == [project |-> p, revision |-> r, status |-> "DRAFT", version |-> 0]
           cols == [project |-> Projects, revision |-> P!Revisions, status |-> {"DRAFT", "PUBLISHED"},
                    version |-> {0}]
<1>1. row[p] # None /\ row[r] # None /\ T!Begin(c, {T!Insert(d, new)}, P!Says(d, "DRAFT"))
  BY ProductionBegin, ProductionStatements DEF P!CreateEdl, P!InsertEdl, P!Present
<1>2. Columns("production", d) = cols
  BY ProductionTables
<1>3. new = [f \in DOMAIN cols |-> new[f]] /\ \A f \in DOMAIN cols : new[f] \in cols[f]
  OBVIOUS
<1>4. new.project = p /\ new.revision = r
  OBVIOUS
<1> HIDE DEF new, cols
<1>5. Typed("production", d, new)
  BY <1>2, <1>3, NewTyped
<1>6. LinksHold("production", d, new)
  BY <1>1, <1>4, ProductionTables DEF LinksHold, NamedBy, Target, Owned, Backs
<1> QED BY <1>1, <1>5, <1>6, ProductionTables, InsertBegins

LEMMA EditEdlBegins ==
    ASSUME LinkedInv("production"), NEW c, NEW d \in Edls, P!EditEdl(c, d, "PUBLISHED")
    PROVE  Begins("production", c)
<1> DEFINE set == [status |-> "PUBLISHED"]
           w == T!Update(d, set, None)
<1>1. row[d] # None /\ T!Begin(c, {w}, P!Says(d, "updated"))
  BY ProductionBegin, ProductionStatements DEF P!EditEdl, P!UpdateEdl, P!Present
<1>2. DOMAIN set = {"status"} /\ set.status = "PUBLISHED"
  OBVIOUS
<1>3. w.on = d /\ w.set = set /\ ~w.fresh /\ ~w.gone
  BY DEF T!Update, T!Insert
<1> HIDE DEF set, w
<1>4. Fits("production", d, set)
  BY <1>2, ProductionTables DEF Fits
<1>5. \A k : LinkedStatement("production", k, w)
  BY <1>1, <1>2, <1>3, <1>4, ProductionTables DEF LinkedStatement
<1>6. StatementsSound("production", w)
  BY <1>3, ProductionTables DEF StatementsSound
<1> QED BY <1>1, <1>3, <1>5, <1>6, ProductionTables, OneStatement

LEMMA ProductionOthers ==
    ASSUME NEW c, NEW w, NEW says, P!Begin(c, {w}, says),
           NEW id \in UNION {Tracks, MixPlans, CodeVideos, RenderJobs}, w.on = id
    PROVE  Begins("production", c)
<1>1. id \notin Core("production")
  <2> DEFINE others == UNION {Tracks, MixPlans, CodeVideos, RenderJobs}
  <2> HIDE DEF others
  <2>1. others \intersect Projects = {} /\ others \intersect P!Revisions = {}
        /\ others \intersect Assets = {} /\ others \intersect AssetRevisions = {}
        /\ others \intersect Edls = {}
    BY IdsAssumption DEF Separate, others
  <2> QED BY <2>1 DEF Core, others
<1> QED BY <1>1, ProductionBegin, ProductionTables, OtherTables

LEMMA MediaBegins ==
    ASSUME LinkedInv("production"), NEW c,
           P!AudioRequests(c) \/ P!CodeVideoRequests(c) \/ P!RenderRequests(c)
    PROVE  Begins("production", c)
<1>1. ASSUME NEW p, NEW t \in Tracks, P!CreateAudioTrack(c, t, p) PROVE Begins("production", c)
  BY <1>1, ProductionOthers, ProductionPlaces DEF P!CreateAudioTrack, P!InsertAudioTrack
<1>2. ASSUME NEW p, NEW x \in MixPlans, NEW tracks, P!CreateMixPlan(c, x, p, tracks)
      PROVE  Begins("production", c)
  BY <1>2, ProductionOthers, ProductionPlaces DEF P!CreateMixPlan, P!InsertMixPlan
<1>3. ASSUME NEW v \in CodeVideos, P!CreateCodeVideo(c, v) PROVE Begins("production", c)
  BY <1>3, ProductionOthers, ProductionPlaces DEF P!CreateCodeVideo, P!InsertCodeVideo
<1>4. ASSUME NEW v \in CodeVideos, NEW target, NEW n, P!TransitionCodeVideo(c, v, target, n)
      PROVE  Begins("production", c)
  BY <1>4, ProductionOthers, ProductionPlaces DEF P!TransitionCodeVideo, P!UpdateCodeVideo
<1>5. ASSUME NEW j \in RenderJobs, NEW p, P!CreateRenderJob(c, j, p) PROVE Begins("production", c)
  BY <1>5, ProductionOthers, ProductionPlaces DEF P!CreateRenderJob, P!InsertRenderJob
<1>6. ASSUME NEW j \in RenderJobs, NEW target, NEW output, NEW n,
             P!TransitionRenderJob(c, j, target, output, n)
      PROVE  Begins("production", c)
  BY <1>6, ProductionOthers, ProductionPlaces DEF P!TransitionRenderJob, P!UpdateRenderJob
<1> QED BY <1>1, <1>2, <1>3, <1>4, <1>5, <1>6
        DEF P!AudioRequests, P!CodeVideoRequests, P!RenderRequests

\* The steps of the parts of production.
ProductionNext ==
    \/ P!ProductionProjectsNext \/ P!ProductionAssetsNext
    \/ P!ProductionMediaNext \/ P!ProductionEdlsNext

LEMMA ProductionStep ==
    ASSUME LinkedInv("production"), ProductionNext
    PROVE  LinkedStep("production")
<1>1. CASE P!Finish
  BY <1>1, ProductionFinish, ProductionTables, FinishStep
<1>2. ASSUME NEW c \in Calls, Begins("production", c) PROVE LinkedStep("production")
  BY <1>2, ProductionTables, BeginsStep
<1>3. ASSUME NEW c \in Calls, P!ProjectRequests(c) \/ P!SomeProject(c) PROVE LinkedStep("production")
  <2>1. Begins("production", c)
    BY <1>3, CreateVideoProjectBegins, EditProjectBegins DEF P!ProjectRequests, P!SomeProject, P!Maybe
  <2> QED BY <1>2, <2>1
<1>4. ASSUME NEW c \in Calls,
             \/ P!RevisionRequests(c)
             \/ \E p \in Projects, hash \in Hashes, r \in Roots : P!CreateRevision(c, r, p, None, hash)
      PROVE  LinkedStep("production")
  <2>1. Begins("production", c)
    BY <1>4, CreateVideoRevisionBegins, DeriveVideoRevisionBegins, LockVideoRevisionBegins
    DEF P!RevisionRequests, P!Maybe
  <2> QED BY <1>2, <2>1
<1>5. ASSUME NEW c \in Calls, P!AssetRequests(c) PROVE LinkedStep("production")
  <2>1. Begins("production", c)
    BY <1>5, CreateAssetBegins, TransitionAssetBegins, CreateAssetRevisionBegins
    DEF P!AssetRequests, P!Maybe
  <2> QED BY <1>2, <2>1
<1>6. ASSUME NEW c \in Calls, P!EdlRequests(c) PROVE LinkedStep("production")
  <2>1. Begins("production", c)
    BY <1>6, CreateEdlBegins, EditEdlBegins DEF P!EdlRequests
  <2> QED BY <1>2, <2>1
<1>7. CASE P!ProductionProjectsNext
  BY <1>1, <1>3, <1>4, <1>7 DEF P!ProductionProjectsNext
<1>8. CASE P!ProductionAssetsNext
  BY <1>1, <1>3, <1>5, <1>8 DEF P!ProductionAssetsNext
<1>9. CASE P!ProductionMediaNext
  BY <1>1, <1>2, <1>3, <1>9, MediaBegins DEF P!ProductionMediaNext
<1>10. CASE P!ProductionEdlsNext
  BY <1>1, <1>2, <1>3, <1>4, <1>6, <1>10, MediaBegins DEF P!ProductionEdlsNext
<1> QED BY <1>7, <1>8, <1>9, <1>10 DEF ProductionNext

-----------------------------------------------------------------------------
(* Live record *)

LEMMA LiveFinish == ASSUME L!Finish PROVE \E c \in Calls : T!Commit(c) \/ T!Rollback(c)
BY DEF L!Finish, L!Commit, T!Commit, L!Rollback, T!Rollback, L!Finds, T!Finds, L!Clashes, T!Clashes,
       L!Written, T!Written, L!Over, T!Over

LEMMA LiveBegin ==
    ASSUME NEW c, NEW writes, NEW says, L!Begin(c, writes, says)
    PROVE  T!Begin(c, writes, says)
BY DEF L!Begin, T!Begin

LEMMA LiveStatements ==
    ASSUME NEW id, NEW set, NEW v
    PROVE  /\ L!Insert(id, set) = T!Insert(id, set)
           /\ L!Update(id, set, v) = T!Update(id, set, v)
           /\ L!Bumped(id, set) = T!Bumped(id, set) /\ L!Given(set) = T!Given(set)
BY DEF L!Insert, T!Insert, L!Update, T!Update, L!Bumped, T!Bumped, L!Over, T!Over, L!Given, T!Given

\* The tables.
LEMMA LiveTables ==
    /\ "live" \in Schemas
    /\ \A p \in L!Plans :
          /\ p \in Core("live") /\ p \in Counted("live") /\ Links("live", p) = {}
          /\ Settable("live", p) = {"scenes", "actions", "status", "hash", "version"}
          /\ Columns("live", p) =
                [scenes |-> SUBSET Scenes, actions |-> L!ActionLists,
                 status |-> DOMAIN L!PlanTransitions, hash |-> PlanHashes \union {None}, version |-> Nat]
    /\ \A t \in L!Takes :
          /\ t \in Core("live") /\ t \in Counted("live") /\ Links("live", t) = {"plan"}
          /\ Settable("live", t) = {"status", "version"}
          /\ Columns("live", t) =
                [plan |-> L!Plans, hash |-> PlanHashes, status |-> DOMAIN L!TakeTransitions,
                 version |-> Nat]
    /\ \A s \in L!Segments :
          /\ s \in Core("live") /\ Links("live", s) = {} /\ Settable("live", s) = {"playable"}
          /\ Columns("live", s) = [playable |-> BOOLEAN, version |-> {0}]
    /\ \A n \in L!Events :
          /\ n \in Core("live") /\ Links("live", n) = {} /\ Settable("live", n) = {}
          /\ Columns("live", n) =
                [type |-> {"MARKER", "ACTION_SUCCESS", "ACTION_FAILURE", "ACTION_TAMPERED"},
                 version |-> {0}]
    /\ \A d \in Sessions :
          /\ d \in Core("live") /\ Links("live", d) = {"plan"} /\ Settable("live", d) = {"connected"}
          /\ Columns("live", d) =
                [plan |-> L!Plans, hash |-> PlanHashes, connected |-> BOOLEAN, version |-> {0}]
<1>1. /\ L!Plans \intersect L!Takes = {} /\ L!Plans \intersect L!Segments = {}
      /\ L!Plans \intersect L!Events = {} /\ L!Plans \intersect Sessions = {}
      /\ L!Takes \intersect L!Segments = {} /\ L!Takes \intersect L!Events = {}
      /\ L!Takes \intersect Sessions = {} /\ L!Segments \intersect L!Events = {}
      /\ L!Segments \intersect Sessions = {} /\ L!Events \intersect Sessions = {}
  BY IdsAssumption DEF Separate
<1>2. "live" \in Schemas
  BY DEF Schemas
<1>3. ASSUME NEW p \in L!Plans
      PROVE  /\ p \in Core("live") /\ p \in Counted("live") /\ Links("live", p) = {}
             /\ Settable("live", p) = {"scenes", "actions", "status", "hash", "version"}
             /\ Columns("live", p) =
                   [scenes |-> SUBSET Scenes, actions |-> L!ActionLists,
                    status |-> DOMAIN L!PlanTransitions, hash |-> PlanHashes \union {None},
                    version |-> Nat]
  BY <1>1 DEF Core, Counted, Settable, Links, Columns, LiveColumns
<1>4. ASSUME NEW t \in L!Takes
      PROVE  /\ t \in Core("live") /\ t \in Counted("live") /\ Links("live", t) = {"plan"}
             /\ Settable("live", t) = {"status", "version"}
             /\ Columns("live", t) =
                   [plan |-> L!Plans, hash |-> PlanHashes, status |-> DOMAIN L!TakeTransitions,
                    version |-> Nat]
  BY <1>1 DEF Core, Counted, Settable, Links, Columns, LiveColumns
<1>5. ASSUME NEW s \in L!Segments
      PROVE  /\ s \in Core("live") /\ Links("live", s) = {} /\ Settable("live", s) = {"playable"}
             /\ Columns("live", s) = [playable |-> BOOLEAN, version |-> {0}]
  BY <1>1 DEF Core, Settable, Links, Columns, LiveColumns
<1>6. ASSUME NEW n \in L!Events
      PROVE  /\ n \in Core("live") /\ Links("live", n) = {} /\ Settable("live", n) = {}
             /\ Columns("live", n) =
                   [type |-> {"MARKER", "ACTION_SUCCESS", "ACTION_FAILURE", "ACTION_TAMPERED"},
                    version |-> {0}]
  BY <1>1 DEF Core, Settable, Links, Columns, LiveColumns
<1>7. ASSUME NEW d \in Sessions
      PROVE  /\ d \in Core("live") /\ Links("live", d) = {"plan"} /\ Settable("live", d) = {"connected"}
             /\ Columns("live", d) =
                   [plan |-> L!Plans, hash |-> PlanHashes, connected |-> BOOLEAN, version |-> {0}]
  BY <1>1 DEF Core, Settable, Links, Columns, LiveColumns
<1> QED BY <1>2, <1>3, <1>4, <1>5, <1>6, <1>7

\* The rows.
LEMMA LiveRows ==
    ASSUME LinkedInv("live")
    PROVE  /\ \A p \in L!Plans : row[p] # None =>
                 /\ row[p].scenes \in SUBSET Scenes /\ row[p].actions \in L!ActionLists
                 /\ row[p].status \in DOMAIN L!PlanTransitions
                 /\ row[p].hash \in PlanHashes \union {None}
           /\ \A t \in L!Takes \union Sessions : row[t] # None =>
                 /\ row[t].plan \in L!Plans /\ row[row[t].plan] # None
                 /\ row[t].hash \in PlanHashes /\ row[t].hash # None
<1>1. "live" \in Schemas
  BY DEF Schemas
<1>2. ASSUME NEW p \in L!Plans, row[p] # None
      PROVE  /\ row[p].scenes \in SUBSET Scenes /\ row[p].actions \in L!ActionLists
             /\ row[p].status \in DOMAIN L!PlanTransitions
             /\ row[p].hash \in PlanHashes \union {None}
  <2> DEFINE cols == [scenes |-> SUBSET Scenes, actions |-> L!ActionLists,
                      status |-> DOMAIN L!PlanTransitions, hash |-> PlanHashes \union {None},
                      version |-> Nat]
  <2>1. p \in Core("live") /\ Columns("live", p) = cols
    BY LiveTables
  <2>2. \A f \in DOMAIN cols : row[p][f] \in cols[f]
    BY <1>1, <1>2, <2>1, RowTyped
  <2> QED BY <2>2
<1>3. ASSUME NEW t \in L!Takes \union Sessions, row[t] # None
      PROVE  /\ row[t].plan \in L!Plans /\ row[row[t].plan] # None
             /\ row[t].hash \in PlanHashes /\ row[t].hash # None
  <2>1. /\ t \in Core("live") /\ "plan" \in Links("live", t)
        /\ "plan" \in DOMAIN Columns("live", t) /\ Columns("live", t)["plan"] = L!Plans
        /\ "hash" \in DOMAIN Columns("live", t) /\ Columns("live", t)["hash"] = PlanHashes
    BY LiveTables
  <2>2. row[t]["plan"] \in L!Plans /\ row[t]["hash"] \in PlanHashes
    BY <1>1, <1>3, <2>1, RowTyped
  <2>3. row[t]["plan"] \in NamedBy("plan", row[t]["plan"])
    BY <2>2, NoneAssumption DEF NamedBy
  <2>4. row[row[t]["plan"]] # None
    BY <1>1, <1>3, <2>1, <2>3, RowLinked
  <2> QED BY <2>2, <2>4, NoneAssumption DEF PlanHashes
<1> QED BY <1>2, <1>3

\* What is set of a row, the columns given as None being dropped.
LEMMA GivenSets ==
    ASSUME NEW x \in Schemas, LinkedInv(x), NEW id \in Counted(x), row[id] # None,
           NEW base, DOMAIN base \subseteq Settable(x, id), "version" \notin DOMAIN base,
           \A f \in DOMAIN base : base[f] # None => base[f] \in Columns(x, id)[f]
    PROVE  LET set == T!Given(T!Bumped(id, base))
           IN  /\ Fits(x, id, set)
               /\ \A f \in DOMAIN base : f \in DOMAIN set <=> base[f] # None
               /\ \A f \in DOMAIN set : f # "version" => f \in DOMAIN base /\ set[f] = base[f]
<1> DEFINE v == row[id].version
           bumped == T!Bumped(id, base)
           set == T!Given(bumped)
<1>1. /\ id \in Core(x) /\ "version" \in Settable(x, id)
      /\ "version" \in DOMAIN Columns(x, id) /\ Columns(x, id)["version"] = Nat
  BY CountedFacts
<1>2. Typed(x, id, row[id])
  BY <1>1 DEF LinkedInv
<1>3. v + 1 \in Nat
  BY <1>1, <1>2 DEF Typed
<1>4. DOMAIN bumped = DOMAIN base \union {"version"} /\ bumped["version"] = v + 1
      /\ \A f \in DOMAIN base : bumped[f] = base[f]
  BY DEF T!Bumped, T!Over
<1> HIDE DEF bumped
<1>5. DOMAIN set = {f \in DOMAIN bumped : bumped[f] # None} /\ \A f \in DOMAIN set : set[f] = bumped[f]
  BY DEF T!Given
<1> HIDE DEF set, v
<1>6. Fits(x, id, set)
  BY <1>1, <1>3, <1>4, <1>5 DEF Fits
<1> QED BY <1>4, <1>5, <1>6 DEF set, bumped

\* A plan is frozen with a hash, and its hash is never taken away; segments and events
\* are of takes that are there.
LiveStatement(w) ==
    /\ w.tells = None
    /\ w.on \in L!Plans =>
          /\ ~w.fresh /\ "hash" \in DOMAIN w.set => w.set.hash # None
          /\ "status" \in DOMAIN w.set /\ w.set.status = "FROZEN" =>
                "hash" \in DOMAIN w.set /\ w.set.hash # None
    /\ w.on \in L!Segments \union L!Events => row[w.on[1]] # None

\* A command that appends an event to a take tells its number, and there are events with
\* the numbers before it.
EventStatement(k, w) ==
    w.on \in L!Events =>
        /\ part # "sessions" /\ w.fresh /\ w.must
        /\ w.on[1] \in DOMAIN k.says /\ k.says[w.on[1]] = w.on[2]
        /\ \A m \in 0..(w.on[2] - 1) : row[<<w.on[1], m>>] # None

\* What a command tells of a take: the number of the event it appends, or that the take
\* is made; of a take that moves only where no events are appended.
TakeTold(k) ==
    \A t \in L!Takes : t \in DOMAIN k.says =>
        \/ \E w \in k.writes : w.on \in L!Events /\ w.on[1] = t
        \/ \E w \in k.writes : w.on = t /\ w.fresh /\ w.must
        \/ part = "sessions"

LiveCall(k) == TakeTold(k) /\ \A w \in k.writes : LiveStatement(w) /\ EventStatement(k, w)

\* The events of a take that has any are those up to the one that was told last.
Gapless(t) ==
    (\E m \in 0..MaxEvents - 1 : row[<<t, m>>] # None) =>
        /\ told[t] \in 0..MaxEvents - 1
        /\ \A i \in 0..MaxEvents - 1 : row[<<t, i>>] # None <=> i <= told[t]

LiveInv ==
    /\ LinkedInv("live") /\ L!Takes \subseteq DOMAIN told
    /\ \A p \in L!Plans : row[p] # None /\ row[p].status = "FROZEN" => row[p].hash # None
    /\ \A s \in L!Segments \union L!Events : row[s] # None => row[s[1]] # None
    /\ \A t \in L!Takes : Gapless(t)
    /\ part = "sessions" => \A n \in L!Events : row[n] = None
    /\ \A c \in Calls : call[c] # None => LiveCall(call[c])

LEMMA EventIds ==
    /\ \A n \in L!Events : n[1] \in L!Takes /\ n[2] \in 0..MaxEvents - 1 /\ n = <<n[1], n[2]>>
    /\ \A t \in L!Takes, m \in 0..MaxEvents - 1 :
          <<t, m>> \in L!Events /\ <<t, m>>[1] = t /\ <<t, m>>[2] = m
    /\ \A s \in L!Segments : s[1] \in L!Takes
    /\ \A t \in L!Takes, i \in 0..MaxEvents - 1 :
          <<t, "segment", i>> \in L!Segments /\ <<t, "segment", i>>[1] = t
<1> DEFINE numbers == 0..MaxEvents - 1
           all == L!Takes
<1>1. L!Events = all \X numbers /\ L!Segments = all \X {"segment"} \X numbers
  BY DEF L!Events, L!Segments
<1> HIDE DEF numbers, all
<1>2. \A n \in L!Events : n[1] \in all /\ n[2] \in numbers /\ n = <<n[1], n[2]>>
  BY <1>1
<1>3. \A t \in all, m \in numbers : <<t, m>> \in L!Events /\ <<t, m>>[1] = t /\ <<t, m>>[2] = m
  BY <1>1
<1>4. \A s \in L!Segments : s[1] \in all
  BY <1>1
<1>5. \A t \in all, i \in numbers :
         <<t, "segment", i>> \in L!Segments /\ <<t, "segment", i>>[1] = t
  BY <1>1
<1> QED BY <1>2, <1>3, <1>4, <1>5 DEF numbers, all

\* The statement that changed a row.
LEMMA LiveWrites ==
    ASSUME LiveInv, NEW c \in Calls, call[c] # None, Applied(call[c]),
           NEW id \in Core("live"), row'[id] # row[id]
    PROVE  \E w \in call[c].writes :
              /\ w.on = id /\ T!Finds(w) /\ row'[id] = T!Written(w)
              /\ LinkedStatement("live", call[c], w) /\ LiveStatement(w) /\ EventStatement(call[c], w)
<1>1. PICK w \in call[c].writes : w.on = id /\ T!Finds(w) /\ row'[id] = T!Written(w)
  BY DEF Applied, LiveInv, LinkedInv
<1> QED BY <1>1 DEF LiveInv, LiveCall, LinkedInv, LinkedCall

LEMMA LiveFrozen ==
    ASSUME LiveInv, NEW c \in Calls, call[c] # None, Applied(call[c]),
           NEW p \in L!Plans, row'[p] # None, row'[p].status = "FROZEN"
    PROVE  row'[p].hash # None
<1>1. CASE row'[p] = row[p]
  BY <1>1 DEF LiveInv
<1>2. CASE row'[p] # row[p]
  <2>1. p \in Core("live") /\ "live" \in Schemas
    BY LiveTables
  <2>2. PICK w \in call[c].writes :
           /\ w.on = p /\ T!Finds(w) /\ row'[p] = T!Written(w)
           /\ LinkedStatement("live", call[c], w) /\ LiveStatement(w)
    BY <1>2, <2>1, LiveWrites
  <2>3. LinkedInv("live")
    BY DEF LiveInv
  <2>4. /\ row[p] = None => w.fresh /\ row'[p] = w.set
        /\ row[p] # None => ~w.fresh /\ row'[p] = T!Over(w.set, row[p]) /\ Fits("live", p, w.set)
        /\ Typed("live", p, row'[p])
    BY <2>1, <2>2, <2>3, LinkedWritten
  <2>5. "status" \in DOMAIN Columns("live", p) /\ "hash" \in DOMAIN Columns("live", p)
    BY LiveTables
  <2>6. CASE row[p] = None
    <3>1. "status" \in DOMAIN w.set
      BY <2>4, <2>5, <2>6 DEF Typed
    <3> QED BY <2>2, <2>4, <2>6, <3>1 DEF LiveStatement
  <2>7. CASE row[p] # None
    <3>1. Typed("live", p, row[p])
      BY <2>1, <2>3, <2>7 DEF LinkedInv
    <3>2. /\ row'[p]["status"] = IF "status" \in DOMAIN w.set THEN w.set["status"] ELSE row[p]["status"]
          /\ row'[p]["hash"] = IF "hash" \in DOMAIN w.set THEN w.set["hash"] ELSE row[p]["hash"]
      BY <2>1, <2>4, <2>5, <2>7, <3>1, OverTyped
    <3>3. row[p].status = "FROZEN" => row[p].hash # None
      BY <2>7 DEF LiveInv
    <3>4. CASE "hash" \in DOMAIN w.set
      BY <2>2, <2>4, <2>7, <3>2, <3>4 DEF LiveStatement
    <3>5. CASE "hash" \notin DOMAIN w.set
      BY <2>2, <3>2, <3>3, <3>5 DEF LiveStatement
    <3> QED BY <3>4, <3>5
  <2> QED BY <2>6, <2>7
<1> QED BY <1>1, <1>2

LEMMA LiveGrowth ==
    ASSUME LiveInv, NEW c \in Calls, call[c] # None, Applied(call[c]),
           NEW id \in Core("live"), row[id] # None
    PROVE  row'[id] # None
BY LinkedGrowth, LiveTables DEF LiveInv

\* Appends that race: the one that commits finds no event with its number, and all the
\* events before it.
LEMMA LiveGapless ==
    ASSUME LiveInv, NEW c \in Calls, call[c] # None, Applied(call[c]), NEW t \in L!Takes
    PROVE  Gapless(t)'
<1> DEFINE k == call[c]
           numbers == 0..MaxEvents - 1
<1>a. LiveCall(k)
  BY DEF LiveInv
<1>b. /\ \A m \in numbers : <<t, m>> \in L!Events /\ <<t, m>>[1] = t /\ <<t, m>>[2] = m
      /\ \A m \in numbers : <<t, m>> \in Core("live")
  BY EventIds, LiveTables
<1>c. \A m \in numbers : m \in Nat /\ m < MaxEvents
  BY BoundsAssumption
<1>1. ASSUME NEW m \in numbers, row'[<<t, m>>] # row[<<t, m>>]
      PROVE  /\ row[<<t, m>>] = None /\ row'[<<t, m>>] # None
             /\ t \in DOMAIN k.says /\ k.says[t] = m /\ part # "sessions"
             /\ \A i \in 0..(m - 1) : row[<<t, i>>] # None
  <2>1. PICK w \in k.writes :
           /\ w.on = <<t, m>> /\ T!Finds(w) /\ row'[<<t, m>>] = T!Written(w)
           /\ LinkedStatement("live", k, w) /\ EventStatement(k, w)
    BY <1>b, <1>1, LiveWrites
  <2>2. w.on[1] = t /\ w.on[2] = m /\ w.on \in L!Events
    BY <1>b, <2>1
  <2>3. /\ part # "sessions" /\ w.fresh /\ t \in DOMAIN k.says /\ k.says[t] = m
        /\ \A i \in 0..(m - 1) : row[<<t, i>>] # None
    BY <2>1, <2>2 DEF EventStatement
  <2>4. row[<<t, m>>] = None
    BY <2>1, <2>3 DEF T!Finds
  <2> QED BY <1>1, <2>3, <2>4
<1>2. Gapless(t) /\ t \in DOMAIN told
  BY DEF LiveInv
<1>3. told'[t] = IF t \in DOMAIN k.says THEN k.says[t] ELSE told[t]
  <2>1. \A w \in k.writes : w.tells = None
    BY <1>a DEF LiveCall, LiveStatement
  <2> QED BY <1>2, <2>1 DEF Applied
<1>4. CASE \A m \in numbers : row'[<<t, m>>] = row[<<t, m>>]
  <2>1. CASE \A m \in numbers : row[<<t, m>>] = None
    BY <1>4, <2>1 DEF Gapless
  <2>2. CASE \E m \in numbers : row[<<t, m>>] # None
    <3>1. PICK m \in numbers : row[<<t, m>>] # None
      BY <2>2
    <3>2. t \notin DOMAIN k.says
      <4>1. SUFFICES ASSUME t \in DOMAIN k.says PROVE FALSE
        OBVIOUS
      <4>2. CASE part = "sessions"
        BY <1>b, <3>1, <4>2 DEF LiveInv
      <4>3. CASE \E w \in k.writes : w.on = t /\ w.fresh /\ w.must
        <5>1. row[t] = None
          BY <4>3 DEF Applied, T!Finds
        <5>2. row[<<t, m>>[1]] # None
          BY <1>b, <3>1 DEF LiveInv
        <5> QED BY <1>b, <5>1, <5>2
      <4>4. CASE \E w \in k.writes : w.on \in L!Events /\ w.on[1] = t
        <5>1. PICK w \in k.writes : w.on \in L!Events /\ w.on[1] = t
          BY <4>4
        <5>2. w.fresh /\ w.must
          BY <1>a, <5>1 DEF LiveCall, EventStatement
        <5>3. row[w.on] = None /\ T!Finds(w)
          BY <5>2, <5>1 DEF Applied, T!Finds
        <5>4. PICK n \in numbers : w.on = <<t, n>>
          BY <5>1, EventIds
        <5>5. w.on \in DOMAIN row /\ w.on \in Core("live")
          BY <1>b, <5>4 DEF LiveInv, LinkedInv
        <5>6. PICK z \in k.writes : z.on = w.on /\ T!Finds(z) /\ row'[w.on] = T!Written(z)
          BY <5>1, <5>3, <5>5 DEF Applied
        <5>7. LinkedStatement("live", k, z) /\ LinkedInv("live")
          BY <5>5, <5>6 DEF LiveInv, LinkedInv, LinkedCall
        <5>8. Typed("live", w.on, row'[w.on])
          BY <5>5, <5>6, <5>7, LinkedWritten, LiveTables
        <5>9. row'[w.on] # None
          BY <5>8, TypedPresent, LiveTables
        <5> QED BY <1>4, <5>3, <5>4, <5>9
      <4> QED BY <1>a, <4>1, <4>2, <4>3, <4>4 DEF LiveCall, TakeTold
    <3>3. told'[t] = told[t]
      BY <1>3, <3>2
    <3> QED BY <1>2, <1>4, <2>2, <3>3 DEF Gapless
  <2> QED BY <2>1, <2>2
<1>5. CASE \E m \in numbers : row'[<<t, m>>] # row[<<t, m>>]
  <2>1. PICK m \in numbers : row'[<<t, m>>] # row[<<t, m>>]
    BY <1>5
  <2>2. /\ row[<<t, m>>] = None /\ row'[<<t, m>>] # None
        /\ t \in DOMAIN k.says /\ k.says[t] = m
        /\ \A i \in 0..(m - 1) : row[<<t, i>>] # None
    BY <1>1, <2>1
  <2>3. told'[t] = m
    BY <1>3, <2>2
  <2>4. \A i \in numbers : i # m => row'[<<t, i>>] = row[<<t, i>>]
    BY <1>1, <2>2
  <2>5. \A i \in numbers : row[<<t, i>>] # None => i < m
    <3>1. SUFFICES ASSUME NEW i \in numbers, row[<<t, i>>] # None PROVE i < m
      OBVIOUS
    <3>2. told[t] \in numbers /\ i <= told[t] /\ ~(m <= told[t])
      BY <1>2, <2>2, <3>1 DEF Gapless
    <3> QED BY <1>c, <3>2
  <2>6. \A i \in numbers : i < m => row[<<t, i>>] # None
    BY <1>c, <2>2
  <2>7. \A i \in numbers : row'[<<t, i>>] # None <=> i <= m
    <3>1. SUFFICES ASSUME NEW i \in numbers PROVE row'[<<t, i>>] # None <=> i <= m
      OBVIOUS
    <3>2. CASE i = m
      BY <1>c, <2>2, <3>2
    <3>3. CASE i # m
      BY <1>c, <2>4, <2>5, <2>6, <3>3
    <3> QED BY <3>2, <3>3
  <2> QED BY <2>3, <2>7 DEF Gapless
<1> QED BY <1>4, <1>5

\* The rows stay as they are.
LEMMA LiveStays ==
    ASSUME LiveInv, part' = part, UNCHANGED <<row, told>>, LinkedInv("live")',
           \A d \in Calls : call'[d] # None => LiveCall(call'[d])
    PROVE  LiveInv'
BY DEF LiveInv, LiveCall, TakeTold, LiveStatement, EventStatement, Gapless

LEMMA LiveCommit ==
    ASSUME LiveInv, part' = part, NEW c \in Calls, T!Commit(c)
    PROVE  LiveInv'
<1>1. call[c] # None /\ call' = [call EXCEPT ![c] = None] /\ DOMAIN told' = DOMAIN told
  BY CommitApplies
<1>2. \A d \in Calls : call'[d] # None => call'[d] = call[d] /\ call[d] # None
  BY <1>1 DEF LiveInv, LinkedInv
<1>3. LinkedInv("live")'
  BY LinkedCommit, LiveTables DEF LiveInv
<1>4. CASE UNCHANGED <<row, told>>
  <2>1. \A d \in Calls : call'[d] # None => LiveCall(call'[d])
    BY <1>2 DEF LiveInv
  <2> QED BY <1>3, <1>4, <2>1, LiveStays
<1>5. CASE Applied(call[c])
  <2>1. \A id \in Core("live") : row[id] # None => row'[id] # None
    BY <1>1, <1>5, LiveGrowth
  <2>2. \A p \in L!Plans : row'[p] # None /\ row'[p].status = "FROZEN" => row'[p].hash # None
    BY <1>1, <1>5, LiveFrozen
  <2>3. \A s \in L!Segments \union L!Events : s \in Core("live") /\ s[1] \in Core("live")
    BY EventIds, LiveTables
  <2>4. ASSUME NEW s \in L!Segments \union L!Events, row'[s] # None PROVE row'[s[1]] # None
    <3>1. CASE row'[s] = row[s]
      BY <2>1, <2>3, <2>4, <3>1 DEF LiveInv
    <3>2. CASE row'[s] # row[s]
      <4>1. PICK w \in call[c].writes : w.on = s /\ LiveStatement(w)
        BY <1>1, <1>5, <2>3, <3>2, LiveWrites
      <4> QED BY <2>1, <2>3, <4>1 DEF LiveStatement
    <3> QED BY <3>1, <3>2
  <2>5. \A t \in L!Takes : Gapless(t)'
    BY <1>1, <1>5, LiveGapless
  <2>6. ASSUME part = "sessions", NEW n \in L!Events PROVE row'[n] = None
    <3>1. row[n] = None
      BY <2>6 DEF LiveInv
    <3>2. CASE row'[n] # row[n]
      <4>1. PICK w \in call[c].writes : w.on = n /\ EventStatement(call[c], w)
        BY <1>1, <1>5, <2>3, <3>2, LiveWrites
      <4> QED BY <2>6, <4>1 DEF EventStatement
    <3> QED BY <3>1, <3>2
  <2>7. ASSUME NEW d \in Calls, call[d] # None PROVE (LiveCall(call[d]))'
        \/ call'[d] = None
    <3>1. CASE call'[d] = None
      BY <3>1
    <3>2. CASE call'[d] # None
      <4>1. call'[d] = call[d] /\ LiveCall(call[d])
        BY <1>2, <3>2, <2>7 DEF LiveInv
      <4>2. ASSUME NEW w \in call[d].writes PROVE (LiveStatement(w))'
        <5>1. LiveStatement(w)
          BY <4>1, <4>2 DEF LiveCall
        <5> QED BY <2>1, <2>3, <5>1 DEF LiveStatement
      <4>3. ASSUME NEW w \in call'[d].writes PROVE (EventStatement(call[d], w))'
        <5>1. EventStatement(call[d], w)
          BY <4>1, <4>3 DEF LiveCall
        <5>2. CASE w.on \in L!Events
          <6>1. \A m \in 0..(w.on[2] - 1) : row[<<w.on[1], m>>] # None
            BY <5>1, <5>2 DEF EventStatement
          <6>2. \A m \in 0..(w.on[2] - 1) : <<w.on[1], m>> \in Core("live")
            <7>1. w.on[1] \in L!Takes /\ w.on[2] \in 0..MaxEvents - 1
              BY <5>2, EventIds
            <7>2. 0..(w.on[2] - 1) \subseteq 0..MaxEvents - 1
              BY <7>1, BoundsAssumption
            <7> QED BY <7>1, <7>2, EventIds, LiveTables
          <6>3. \A m \in 0..(w.on[2] - 1) : row'[<<w.on[1], m>>] # None
            BY <2>1, <6>1, <6>2
          <6> QED BY <4>1, <5>1, <5>2, <6>3 DEF EventStatement
        <5>3. CASE w.on \notin L!Events
          BY <5>3 DEF EventStatement
        <5> QED BY <5>2, <5>3
      <4>4. (TakeTold(call[d]))'
        BY <4>1 DEF LiveCall, TakeTold
      <4> QED BY <4>1, <4>2, <4>3, <4>4 DEF LiveCall
    <3> QED BY <3>1, <3>2
  <2>8. L!Takes \subseteq DOMAIN told'
    BY <1>1 DEF LiveInv
  <2>9. \A d \in Calls : (call[d] # None => LiveCall(call[d]))'
    BY <1>2, <2>7
  <2> QED BY <1>3, <2>2, <2>4, <2>5, <2>6, <2>8, <2>9 DEF LiveInv
<1> QED BY <1>4, <1>5, CommitApplies

LEMMA LiveStarts ==
    ASSUME LiveInv, part' = part, NEW c \in Calls, NEW writes, NEW says, T!Begin(c, writes, says),
           LinkedCall("live", [writes |-> writes, says |-> says]),
           LiveCall([writes |-> writes, says |-> says])
    PROVE  LiveInv'
<1> DEFINE k == [writes |-> writes, says |-> says]
<1>1. call' = [call EXCEPT ![c] = k] /\ UNCHANGED <<row, told>>
  BY DEF T!Begin
<1>2. LinkedInv("live")'
  BY LinkedBegin, LiveTables DEF LiveInv
<1>3. LiveCall(k)
  OBVIOUS
<1> HIDE DEF k
<1>4. \A d \in Calls : call'[d] # None => LiveCall(call'[d])
  BY <1>1, <1>3 DEF LiveInv, LinkedInv
<1> QED BY <1>1, <1>2, <1>4, LiveStays

LEMMA LiveRollback ==
    ASSUME LiveInv, part' = part, NEW c \in Calls, T!Rollback(c)
    PROVE  LiveInv'
<1>1. call' = [call EXCEPT ![c] = None] /\ UNCHANGED <<row, told>>
  BY DEF T!Rollback
<1>2. LinkedInv("live")'
  BY LinkedRollback, LiveTables DEF LiveInv
<1>3. \A d \in Calls : call'[d] # None => LiveCall(call'[d])
  BY <1>1 DEF LiveInv, LinkedInv
<1> QED BY <1>1, <1>2, <1>3, LiveStays

\* A command of one statement that appends no event.
LEMMA LiveOne ==
    ASSUME LiveInv, part' = part, NEW c \in Calls, NEW w, NEW says, T!Begin(c, {w}, says),
           \A k : LinkedStatement("live", k, w), LiveStatement(w), w.on \notin L!Events,
           \A t \in L!Takes :
              t \in DOMAIN says => (w.on = t /\ w.fresh /\ w.must) \/ part = "sessions"
    PROVE  LiveInv'
<1> DEFINE k == [writes |-> {w}, says |-> says]
<1>1. k.writes = {w} /\ k.says = says
  OBVIOUS
<1> HIDE DEF k
<1>2. LinkedCall("live", k)
  BY <1>1 DEF LinkedCall
<1>3. LiveCall(k)
  BY <1>1 DEF LiveCall, TakeTold, EventStatement
<1> QED BY <1>2, <1>3, LiveStarts DEF k

LEMMA LiveApart ==
    /\ \A p \in L!Plans : p \notin L!Takes /\ p \notin L!Segments /\ p \notin L!Events
    /\ \A t \in L!Takes : t \notin L!Plans /\ t \notin L!Segments /\ t \notin L!Events
    /\ \A s \in L!Segments : s \notin L!Plans /\ s \notin L!Takes /\ s \notin L!Events
    /\ \A n \in L!Events : n \notin L!Plans /\ n \notin L!Takes /\ n \notin L!Segments
    /\ \A d \in Sessions :
          d \notin L!Plans /\ d \notin L!Takes /\ d \notin L!Segments /\ d \notin L!Events
<1>1. /\ L!Plans \intersect L!Takes = {} /\ L!Plans \intersect L!Segments = {}
      /\ L!Plans \intersect L!Events = {} /\ L!Plans \intersect Sessions = {}
      /\ L!Takes \intersect L!Segments = {} /\ L!Takes \intersect L!Events = {}
      /\ L!Takes \intersect Sessions = {} /\ L!Segments \intersect L!Events = {}
      /\ L!Segments \intersect Sessions = {} /\ L!Events \intersect Sessions = {}
  BY IdsAssumption DEF Separate
<1> QED BY <1>1

\* The statements of the store.
LEMMA LiveInsert ==
    ASSUME NEW id \in Core("live"), NEW new, Typed("live", id, new), LinksHold("live", id, new),
           NEW w, w = T!Insert(id, new)
    PROVE  /\ w.on = id /\ w.set = new /\ w.fresh /\ w.must /\ w.tells = None
           /\ \A k : LinkedStatement("live", k, w)
<1>1. w.on = id /\ w.set = new /\ w.fresh /\ w.must /\ ~w.gone /\ w.tells = None
  BY DEF T!Insert
<1>2. \A k : LinkedStatement("live", k, w)
  BY <1>1, LiveTables, InsertLinked DEF LinksHold, Promised
<1> QED BY <1>1, <1>2

LEMMA LiveUpdate ==
    ASSUME NEW id \in Core("live"), row[id] # None, NEW set, Fits("live", id, set),
           "plan" \notin DOMAIN set, NEW v, NEW w, w = T!Update(id, set, v)
    PROVE  /\ w.on = id /\ w.set = set /\ ~w.fresh /\ w.tells = None
           /\ \A k : LinkedStatement("live", k, w)
<1>1. w.on = id /\ w.set = set /\ ~w.fresh /\ ~w.gone /\ w.tells = None
  BY DEF T!Update, T!Insert
<1>2. Links("live", id) \subseteq {"plan"}
  BY DEF Links
<1> QED BY <1>1, <1>2 DEF LinkedStatement

LEMMA SaysOne ==
    ASSUME NEW id, NEW what
    PROVE  DOMAIN L!Says(id, what) = {id} /\ L!Says(id, what)[id] = what
BY DEF L!Says

LEMMA CreatePlanStep ==
    ASSUME LiveInv, part' = part, NEW c \in Calls, NEW e, NEW n, NEW scenes \in SUBSET Scenes,
           NEW actions \in L!ActionLists, L!CreatePlan(c, e, n, scenes, actions)
    PROVE  LiveInv'
<1> DEFINE p == <<e, IF n = None THEN L!NextRevision(e) ELSE n>>
           new == [scenes |-> scenes, actions |-> actions, status |-> "DRAFT", hash |-> None,
                   version |-> 0]
           cols == [scenes |-> SUBSET Scenes, actions |-> L!ActionLists,
                    status |-> DOMAIN L!PlanTransitions, hash |-> PlanHashes \union {None},
                    version |-> Nat]
           w == T!Insert(p, new)
<1>1. p \in L!Plans /\ L!Begin(c, {L!InsertPlan(p, scenes, actions)}, L!Says(p, "DRAFT"))
  BY DEF L!CreatePlan
<1>2. L!InsertPlan(p, scenes, actions) = w
  BY LiveStatements DEF L!InsertPlan
<1>3. "DRAFT" \in DOMAIN L!PlanTransitions
  BY DEF L!PlanTransitions
<1>4. new = [f \in DOMAIN cols |-> new[f]]
  OBVIOUS
<1>5. \A f \in DOMAIN cols : new[f] \in cols[f]
  BY <1>3
<1>6. new.status = "DRAFT"
  OBVIOUS
<1> HIDE DEF p, new, cols, w
<1>7. Columns("live", p) = cols /\ Links("live", p) = {} /\ p \in Core("live")
  BY <1>1, LiveTables DEF cols
<1>8. Typed("live", p, new) /\ LinksHold("live", p, new)
  BY <1>4, <1>5, <1>7, NewTyped DEF LinksHold
<1>9. /\ w.on = p /\ w.set = new /\ w.fresh /\ w.must /\ w.tells = None
      /\ \A k : LinkedStatement("live", k, w)
  BY <1>7, <1>8, LiveInsert DEF w
<1>10. LiveStatement(w)
  BY <1>1, <1>6, <1>9, LiveApart DEF LiveStatement
<1>11. T!Begin(c, {w}, L!Says(p, "DRAFT"))
  BY <1>1, <1>2, LiveBegin
<1>12. DOMAIN L!Says(p, "DRAFT") = {p}
  BY SaysOne
<1>13. w.on \notin L!Events /\ \A t \in L!Takes : t \notin DOMAIN L!Says(p, "DRAFT")
  BY <1>1, <1>9, <1>12, LiveApart
<1> QED BY <1>9, <1>10, <1>11, <1>13, LiveOne

LEMMA PlanUpdateStep ==
    ASSUME LiveInv, part' = part, NEW c \in Calls, NEW p \in L!Plans, row[p] # None, NEW what, NEW v,
           NEW base, DOMAIN base \subseteq {"scenes", "actions", "status", "hash"},
           \A f \in DOMAIN base : base[f] # None => base[f] \in Columns("live", p)[f],
           "status" \in DOMAIN base /\ base.status # None /\ base.status = "FROZEN" =>
              "hash" \in DOMAIN base /\ base.hash # None,
           L!Begin(c, {L!UpdatePlan(p, L!Bumped(p, base), v)}, L!Says(p, what))
    PROVE  LiveInv'
<1> DEFINE set == T!Given(T!Bumped(p, base))
           w == T!Update(p, set, v)
<1>1. L!UpdatePlan(p, L!Bumped(p, base), v) = w
  BY LiveStatements DEF L!UpdatePlan
<1>2. LinkedInv("live") /\ p \in Counted("live") /\ p \in Core("live") /\ "live" \in Schemas
      /\ Settable("live", p) = {"scenes", "actions", "status", "hash", "version"}
  BY LiveTables DEF LiveInv
<1>3. DOMAIN base \subseteq Settable("live", p) /\ "version" \notin DOMAIN base
  BY <1>2
<1>4. /\ Fits("live", p, set)
      /\ \A f \in DOMAIN base : f \in DOMAIN set <=> base[f] # None
      /\ \A f \in DOMAIN set : f # "version" => f \in DOMAIN base /\ set[f] = base[f]
  BY <1>2, <1>3, GivenSets
<1> HIDE DEF set, w
<1>5. "plan" \notin DOMAIN set
  BY <1>2, <1>4 DEF Fits
<1>6. /\ w.on = p /\ w.set = set /\ ~w.fresh /\ w.tells = None
      /\ \A k : LinkedStatement("live", k, w)
  BY <1>2, <1>4, <1>5, LiveUpdate DEF w
<1>7. "hash" \in DOMAIN set => set["hash"] # None
  BY <1>4
<1>8. "status" \in DOMAIN set /\ set["status"] = "FROZEN" => "hash" \in DOMAIN set
  BY <1>4
<1>9. LiveStatement(w)
  BY <1>6, <1>7, <1>8, LiveApart DEF LiveStatement
<1>10. T!Begin(c, {w}, L!Says(p, what))
  BY <1>1, LiveBegin
<1>11. DOMAIN L!Says(p, what) = {p}
  BY SaysOne
<1>12. w.on \notin L!Events /\ \A t \in L!Takes : t \notin DOMAIN L!Says(p, what)
  BY <1>6, <1>11, LiveApart
<1> QED BY <1>6, <1>9, <1>10, <1>12, LiveOne

LEMMA UpdatePlanContentStep ==
    ASSUME LiveInv, part' = part, NEW c \in Calls, NEW p \in L!Plans, NEW v \in L!Stated(p),
           NEW scenes \in (SUBSET Scenes) \union {None}, NEW actions \in L!ActionLists \union {None},
           L!UpdatePlanContent(c, p, scenes, actions, v)
    PROVE  LiveInv'
<1> DEFINE base == L!EditContent(p, scenes, actions)
<1>1. row[p] # None
  BY DEF L!Stated, L!Present
<1>2. L!Begin(c, {L!UpdatePlan(p, L!Bumped(p, base), v)}, L!Says(p, "updated"))
  BY DEF L!UpdatePlanContent
<1>3. /\ DOMAIN base = {"scenes", "actions", "status"} /\ base.scenes = scenes /\ base.actions = actions
      /\ base.status \in {"PREPARED", None}
  <2> DEFINE status == IF row[p].status = "VALIDATED" THEN "PREPARED" ELSE None
  <2>1. status \in {"PREPARED", None}
    OBVIOUS
  <2>2. base = [scenes |-> scenes, actions |-> actions, status |-> status]
    BY DEF L!EditContent
  <2> HIDE DEF status, base
  <2> QED BY <2>1, <2>2
<1> HIDE DEF base
<1>4. /\ Columns("live", p)["scenes"] = SUBSET Scenes /\ Columns("live", p)["actions"] = L!ActionLists
      /\ Columns("live", p)["status"] = DOMAIN L!PlanTransitions
  BY LiveTables
<1>5. "PREPARED" \in DOMAIN L!PlanTransitions
  BY DEF L!PlanTransitions
<1>6. \A f \in DOMAIN base : base[f] # None => base[f] \in Columns("live", p)[f]
  BY <1>3, <1>4, <1>5
<1>7. base.status = None \/ base.status # "FROZEN"
  BY <1>3
<1> QED BY <1>1, <1>2, <1>3, <1>6, <1>7, PlanUpdateStep

LEMMA TransitionPlanStep ==
    ASSUME LiveInv, part' = part, NEW c \in Calls, NEW p \in L!Plans, NEW target \in PlanTargets,
           NEW v, L!TransitionPlan(c, p, target, v)
    PROVE  LiveInv'
<1> DEFINE base == [status |-> target, hash |-> L!HashAt(p, target)]
<1>1. row[p] # None /\ L!Begin(c, {L!UpdatePlan(p, L!Bumped(p, base), v)}, L!Says(p, target))
  BY DEF L!TransitionPlan, L!Present
<1>2. DOMAIN base = {"status", "hash"} /\ base.status = target /\ base.hash = L!HashAt(p, target)
  OBVIOUS
<1> HIDE DEF base
<1>3. /\ row[p].scenes \in SUBSET Scenes /\ row[p].actions \in L!ActionLists
      /\ row[p].hash \in PlanHashes \union {None}
  BY <1>1, LiveRows DEF LiveInv
<1>4. L!PlanHash(row[p]) \in PlanHashes
  BY <1>3 DEF L!PlanHash, PlanHashes
<1>5. PlanHashes = (SUBSET Scenes) \X L!ActionLists
  BY DEF PlanHashes
<1>6. L!HashAt(p, target) \in PlanHashes \union {None} /\ (target = "FROZEN" => L!HashAt(p, target) # None)
  BY <1>3, <1>4, <1>5, NoneAssumption DEF L!HashAt
<1>7. /\ Columns("live", p)["status"] = DOMAIN L!PlanTransitions
      /\ Columns("live", p)["hash"] = PlanHashes \union {None}
  BY LiveTables
<1>8. target \in DOMAIN L!PlanTransitions
  BY DomainAssumption
<1>9. \A f \in DOMAIN base : base[f] # None => base[f] \in Columns("live", p)[f]
  BY <1>2, <1>6, <1>7, <1>8
<1> QED BY <1>1, <1>2, <1>6, <1>9, PlanUpdateStep

LEMMA CreateTakeStep ==
    ASSUME LiveInv, part' = part, NEW c \in Calls, NEW p \in L!Plans, L!CreateTake(c, p)
    PROVE  LiveInv'
<1> DEFINE t == <<p[1], "take", L!Cardinality(L!TakesOf(p)) + 1>>
           hash == row[p].hash
           new == [plan |-> p, hash |-> hash, status |-> "IDLE", version |-> 0]
           cols == [plan |-> L!Plans, hash |-> PlanHashes, status |-> DOMAIN L!TakeTransitions,
                    version |-> Nat]
           w == T!Insert(t, new)
<1>1. /\ t \in L!Takes /\ row[p] # None /\ row[p].status = "FROZEN"
      /\ L!Begin(c, {L!InsertTake(t, p)}, L!Says(t, "IDLE"))
  BY DEF L!CreateTake, L!Recordable, L!Present
<1>2. L!InsertTake(t, p) = w
  BY LiveStatements DEF L!InsertTake
<1>3. hash \in PlanHashes
  BY <1>1, LiveRows DEF LiveInv
<1> HIDE DEF t, hash
<1>4. "IDLE" \in DOMAIN L!TakeTransitions
  BY DEF L!TakeTransitions
<1>5. new = [f \in DOMAIN cols |-> new[f]]
  OBVIOUS
<1>6. \A f \in DOMAIN cols : new[f] \in cols[f]
  BY <1>3, <1>4
<1>7. new.plan = p
  OBVIOUS
<1> HIDE DEF new, cols, w
<1>8. Columns("live", t) = cols /\ Links("live", t) = {"plan"} /\ t \in Core("live")
  BY <1>1, LiveTables DEF cols
<1>9. Typed("live", t, new)
  BY <1>5, <1>6, <1>8, NewTyped
<1>10. LinksHold("live", t, new)
  BY <1>1, <1>7, <1>8 DEF LinksHold, NamedBy, Target, Owned, Backs
<1>11. /\ w.on = t /\ w.set = new /\ w.fresh /\ w.must /\ w.tells = None
       /\ \A k : LinkedStatement("live", k, w)
  BY <1>8, <1>9, <1>10, LiveInsert DEF w
<1>12. LiveStatement(w)
  BY <1>1, <1>11, LiveApart DEF LiveStatement
<1>13. T!Begin(c, {w}, L!Says(t, "IDLE"))
  BY <1>1, <1>2, LiveBegin
<1>14. DOMAIN L!Says(t, "IDLE") = {t}
  BY SaysOne
<1>15. w.on \notin L!Events /\ \A u \in L!Takes : u \in DOMAIN L!Says(t, "IDLE") => w.on = u
  BY <1>1, <1>11, <1>14, LiveApart
<1> QED BY <1>11, <1>12, <1>13, <1>15, LiveOne

LEMMA TransitionTakeStep ==
    ASSUME LiveInv, part' = part, part = "sessions", NEW c \in Calls, NEW t \in L!Takes,
           NEW target \in DOMAIN L!TakeTransitions, NEW v \in L!Stated(t),
           L!TransitionTake(c, t, target, v)
    PROVE  LiveInv'
<1> DEFINE base == [status |-> target]
           set == T!Bumped(t, base)
           w == T!Update(t, set, v)
<1>1. row[t] # None
  BY DEF L!Stated, L!Present
<1>2. T!Begin(c, {w}, L!Says(t, target))
  BY LiveBegin, LiveStatements DEF L!TransitionTake, L!UpdateTake
<1>3. DOMAIN base = {"status"} /\ base.status = target
  OBVIOUS
<1> HIDE DEF base
<1>4. Fits("live", t, base) /\ "version" \notin DOMAIN base
  BY <1>3, LiveTables DEF Fits
<1>5. Bumps("live", t, base, set)
  BY <1>1, <1>4, BumpedSets, LiveTables DEF LiveInv
<1> HIDE DEF set, w
<1>6. Fits("live", t, set) /\ "plan" \notin DOMAIN set
  BY <1>3, <1>5 DEF Bumps
<1>7. /\ w.on = t /\ w.tells = None
      /\ \A k : LinkedStatement("live", k, w)
  BY <1>1, <1>6, LiveUpdate, LiveTables DEF w
<1>8. LiveStatement(w) /\ w.on \notin L!Events
  BY <1>7, LiveApart DEF LiveStatement
<1> QED BY <1>2, <1>7, <1>8, LiveOne

LEMMA CreateSegmentStep ==
    ASSUME LiveInv, part' = part, NEW c \in Calls, NEW t \in L!Takes, NEW i \in 0..MaxEvents - 1,
           NEW playable \in BOOLEAN, L!CreateSegment(c, t, i, playable)
    PROVE  LiveInv'
<1> DEFINE s == <<t, "segment", i>>
           w == L!UpsertSegment(s, playable)
           says == IF row[s] # None THEN <<>> ELSE L!Says(s, "created")
<1>1. row[t] # None /\ T!Begin(c, {w}, says)
  BY LiveBegin DEF L!CreateSegment, L!Present
<1>2. s \in L!Segments /\ s[1] = t
  BY EventIds
<1> HIDE DEF s
<1>3. Columns("live", s) = [playable |-> BOOLEAN, version |-> {0}] /\ Settable("live", s) = {"playable"}
      /\ Links("live", s) = {} /\ s \in Core("live")
  BY <1>2, LiveTables
<1>4. ASSUME row[s] # None
      PROVE  w.on = s /\ w.tells = None /\ \A k : LinkedStatement("live", k, w)
  <2> DEFINE set == [playable |-> playable]
  <2>1. w = T!Update(s, set, None)
    BY <1>4, LiveStatements DEF L!UpsertSegment, L!Present
  <2>2. DOMAIN set = {"playable"}
    OBVIOUS
  <2>3. set["playable"] \in BOOLEAN
    OBVIOUS
  <2> HIDE DEF set, w
  <2>4. Fits("live", s, set)
    <3>1. Columns("live", s)["playable"] = BOOLEAN
      BY <1>3
    <3>2. set["playable"] \in Columns("live", s)["playable"]
      BY <2>3, <3>1
    <3> QED BY <1>3, <2>2, <3>2 DEF Fits
  <2> QED BY <1>3, <1>4, <2>1, <2>2, <2>4, LiveUpdate
<1>5. ASSUME row[s] = None
      PROVE  w.on = s /\ w.tells = None /\ \A k : LinkedStatement("live", k, w)
  <2> DEFINE new == [playable |-> playable, version |-> 0]
             cols == [playable |-> BOOLEAN, version |-> {0}]
  <2>1. w = T!Insert(s, new)
    BY <1>5, LiveStatements DEF L!UpsertSegment, L!Present
  <2>2. new = [f \in DOMAIN cols |-> new[f]]
    OBVIOUS
  <2>3. new["playable"] \in BOOLEAN
    OBVIOUS
  <2>4. new["version"] \in {0}
    OBVIOUS
  <2>5. \A f \in DOMAIN cols : new[f] \in cols[f]
    <3> HIDE DEF new
    <3>1. DOMAIN cols = {"playable", "version"} /\ cols["playable"] = BOOLEAN /\ cols["version"] = {0}
      OBVIOUS
    <3> HIDE DEF cols
    <3>2. new["playable"] \in cols["playable"]
      BY <2>3, <3>1
    <3>3. new["version"] \in cols["version"]
      BY <2>4, <3>1
    <3> QED BY <3>1, <3>2, <3>3
  <2>6. Columns("live", s) = cols
    BY <1>3
  <2> HIDE DEF new, cols, w
  <2>7. Typed("live", s, new) /\ LinksHold("live", s, new)
    BY <1>3, <2>2, <2>5, <2>6, NewTyped DEF LinksHold
  <2> QED BY <1>3, <2>1, <2>7, LiveInsert
<1> HIDE DEF w
<1>6. w.on = s /\ w.tells = None /\ \A k : LinkedStatement("live", k, w)
  BY <1>4, <1>5
<1>7. LiveStatement(w) /\ w.on \notin L!Events
  BY <1>1, <1>2, <1>6, LiveApart DEF LiveStatement
<1>8. DOMAIN says \subseteq {s}
  <2>1. DOMAIN L!Says(s, "created") = {s}
    BY SaysOne
  <2> QED BY <2>1
<1> HIDE DEF says
<1>9. \A u \in L!Takes : u \notin DOMAIN says
  BY <1>2, <1>8, LiveApart
<1> QED BY <1>1, <1>6, <1>7, <1>9, LiveOne

LEMMA LiveCardinality == ASSUME NEW some PROVE L!Cardinality(some) = Cardinality(some)
BY DEF L!Cardinality, Cardinality

\* The number of the next event is that of the events there are.
LEMMA NextSeqFollows ==
    ASSUME LiveInv, NEW t \in L!Takes
    PROVE  L!NextSeq(t) \in Nat /\ \A m \in 0..(L!NextSeq(t) - 1) : row[<<t, m>>] # None
<1> DEFINE numbers == 0..MaxEvents - 1
           some == L!EventsOf(t)
<1>1. some = {n \in numbers : row[<<t, n>>] # None}
  BY DEF L!EventsOf, L!Present
<1>2. L!NextSeq(t) = Cardinality(some)
  BY LiveCardinality DEF L!NextSeq
<1> HIDE DEF some
<1>3. CASE some = {}
  <2>1. Cardinality(some) = 0
    BY <1>3, FS_EmptySet
  <2> QED BY <1>2, <2>1
<1>4. CASE some # {}
  <2>1. Gapless(t)
    BY DEF LiveInv
  <2>2. told[t] \in numbers /\ \A i \in numbers : row[<<t, i>>] # None <=> i <= told[t]
    BY <1>1, <1>4, <2>1 DEF Gapless
  <2>3. told[t] \in Nat /\ told[t] < MaxEvents
    BY <2>2, BoundsAssumption
  <2>4. some = 0..told[t]
    BY <1>1, <2>2, <2>3, BoundsAssumption
  <2>5. Cardinality(some) = told[t] + 1
    BY <2>3, <2>4, FS_Interval
  <2>6. L!NextSeq(t) \in Nat /\ 0..(L!NextSeq(t) - 1) = some
    BY <1>2, <2>3, <2>4, <2>5
  <2> QED BY <1>1, <2>6
<1> QED BY <1>3, <1>4

LEMMA RecordStep ==
    ASSUME LiveInv, part' = part, part # "sessions", NEW c \in Calls, NEW t \in L!Takes,
           NEW type \in {"MARKER", "ACTION_SUCCESS", "ACTION_FAILURE", "ACTION_TAMPERED"},
           L!Record(c, t, type)
    PROVE  LiveInv'
<1> DEFINE m == L!NextSeq(t)
           n == <<t, m>>
           new == [type |-> type, version |-> 0]
           cols == [type |-> {"MARKER", "ACTION_SUCCESS", "ACTION_FAILURE", "ACTION_TAMPERED"},
                    version |-> {0}]
           w == T!Insert(n, new)
           says == L!Says(t, m)
<1>1. row[t] # None /\ m < MaxEvents /\ L!Begin(c, {L!AppendEvent(t, type)}, says)
  BY DEF L!Record, L!Present
<1>2. L!AppendEvent(t, type) = w
  BY LiveStatements DEF L!AppendEvent
<1>3. m \in Nat /\ \A i \in 0..(m - 1) : row[<<t, i>>] # None
  BY NextSeqFollows
<1> HIDE DEF m
<1>4. m \in 0..MaxEvents - 1
  BY <1>1, <1>3, BoundsAssumption
<1>5. n \in L!Events /\ n[1] = t /\ n[2] = m
  BY <1>4, EventIds
<1>6. DOMAIN says = {t} /\ says[t] = m
  BY SaysOne
<1> HIDE DEF n, says
<1>7. new = [f \in DOMAIN cols |-> new[f]] /\ \A f \in DOMAIN cols : new[f] \in cols[f]
  OBVIOUS
<1> HIDE DEF new, cols, w
<1>8. Columns("live", n) = cols /\ Links("live", n) = {} /\ n \in Core("live")
  BY <1>5, LiveTables DEF cols
<1>9. Typed("live", n, new) /\ LinksHold("live", n, new)
  BY <1>7, <1>8, NewTyped DEF LinksHold
<1>10. /\ w.on = n /\ w.set = new /\ w.fresh /\ w.must /\ w.tells = None
       /\ \A k : LinkedStatement("live", k, w)
  BY <1>8, <1>9, LiveInsert DEF w
<1>11. LiveStatement(w)
  BY <1>1, <1>5, <1>10, LiveApart DEF LiveStatement
<1>12. T!Begin(c, {w}, says)
  BY <1>1, <1>2, LiveBegin
<1> DEFINE k == [writes |-> {w}, says |-> says]
<1>13. k.writes = {w} /\ k.says = says
  OBVIOUS
<1> HIDE DEF k
<1>14. LinkedCall("live", k)
  BY <1>10, <1>13 DEF LinkedCall
<1>15. EventStatement(k, w)
  BY <1>3, <1>5, <1>6, <1>10, <1>13 DEF EventStatement
<1>16. TakeTold(k)
  BY <1>5, <1>6, <1>10, <1>13 DEF TakeTold
<1>17. LiveCall(k)
  BY <1>11, <1>13, <1>15, <1>16 DEF LiveCall
<1> QED BY <1>12, <1>14, <1>17, LiveStarts DEF k

LEMMA BootstrapStep ==
    ASSUME LiveInv, part' = part, NEW c \in Calls, NEW d \in Sessions, NEW p \in L!Plans,
           L!BootstrapDirectorSession(c, d, p)
    PROVE  LiveInv'
<1> DEFINE hash == row[p].hash
           new == [plan |-> p, hash |-> hash, connected |-> FALSE, version |-> 0]
           cols == [plan |-> L!Plans, hash |-> PlanHashes, connected |-> BOOLEAN, version |-> {0}]
           w == T!Insert(d, new)
<1>1. /\ row[p] # None /\ row[p].status = "FROZEN"
      /\ L!Begin(c, {L!InsertDirectorSession(d, p)}, L!Says(d, "created"))
  BY DEF L!BootstrapDirectorSession, L!Recordable, L!Present
<1>2. L!InsertDirectorSession(d, p) = w
  BY LiveStatements DEF L!InsertDirectorSession
<1>3. hash \in PlanHashes
  BY <1>1, LiveRows DEF LiveInv
<1> HIDE DEF hash
<1>4. new = [f \in DOMAIN cols |-> new[f]]
  OBVIOUS
<1>5. \A f \in DOMAIN cols : new[f] \in cols[f]
  <2>1. new["connected"] \in BOOLEAN
    OBVIOUS
  <2>2. new["plan"] \in L!Plans /\ new["hash"] \in PlanHashes /\ new["version"] \in {0}
    BY <1>3
  <2> HIDE DEF new
  <2> QED BY <2>1, <2>2
<1>6. new.plan = p
  OBVIOUS
<1> HIDE DEF new, cols, w
<1>7. Columns("live", d) = cols /\ Links("live", d) = {"plan"} /\ d \in Core("live")
  BY LiveTables DEF cols
<1>8. Typed("live", d, new)
  BY <1>4, <1>5, <1>7, NewTyped
<1>9. LinksHold("live", d, new)
  BY <1>1, <1>6, <1>7 DEF LinksHold, NamedBy, Target, Owned, Backs
<1>10. /\ w.on = d /\ w.tells = None
       /\ \A k : LinkedStatement("live", k, w)
  BY <1>7, <1>8, <1>9, LiveInsert DEF w
<1>11. LiveStatement(w)
  BY <1>10, LiveApart DEF LiveStatement
<1>12. T!Begin(c, {w}, L!Says(d, "created"))
  BY <1>1, <1>2, LiveBegin
<1>13. DOMAIN L!Says(d, "created") = {d}
  BY SaysOne
<1>14. w.on \notin L!Events /\ \A u \in L!Takes : u \notin DOMAIN L!Says(d, "created")
  BY <1>10, <1>13, LiveApart
<1> QED BY <1>10, <1>11, <1>12, <1>14, LiveOne

LEMMA RefreshStep ==
    ASSUME LiveInv, part' = part, NEW c \in Calls, NEW d \in Sessions, L!RefreshDirectorSession(c, d)
    PROVE  LiveInv'
<1> DEFINE set == [connected |-> TRUE]
           w == T!Update(d, set, None)
<1>1. row[d] # None /\ T!Begin(c, {w}, L!Says(d, "refreshed"))
  BY LiveBegin, LiveStatements DEF L!RefreshDirectorSession, L!UpdateDirectorSession, L!Present
<1>2. DOMAIN set = {"connected"}
  OBVIOUS
<1>3. set["connected"] \in BOOLEAN
  OBVIOUS
<1> HIDE DEF set, w
<1>4. Fits("live", d, set)
  <2>1. Settable("live", d) = {"connected"} /\ Columns("live", d)["connected"] = BOOLEAN
    BY LiveTables
  <2>2. set["connected"] \in Columns("live", d)["connected"]
    BY <1>3, <2>1
  <2> QED BY <1>2, <2>1, <2>2 DEF Fits
<1>5. w.on = d /\ w.tells = None /\ \A k : LinkedStatement("live", k, w)
  BY <1>1, <1>2, <1>4, LiveUpdate, LiveTables DEF w
<1>6. LiveStatement(w)
  BY <1>5, LiveApart DEF LiveStatement
<1>7. DOMAIN L!Says(d, "refreshed") = {d}
  BY SaysOne
<1>8. w.on \notin L!Events /\ \A u \in L!Takes : u \notin DOMAIN L!Says(d, "refreshed")
  BY <1>5, <1>7, LiveApart
<1> QED BY <1>1, <1>5, <1>6, <1>8, LiveOne

LEMMA ScanStep ==
    ASSUME LiveInv, part' = part, NEW c \in Calls, NEW p \in L!Plans, L!ScanPrivacy(c, p)
    PROVE  LiveInv'
<1> DEFINE says == L!Says(p, L!PrivacyStatus(row[p]))
           k == [writes |-> {}, says |-> says]
<1>1. T!Begin(c, {}, says)
  BY LiveBegin DEF L!ScanPrivacy
<1>2. DOMAIN says = {p}
  BY SaysOne
<1> HIDE DEF says
<1>3. k.writes = {} /\ k.says = says
  OBVIOUS
<1> HIDE DEF k
<1>4. LinkedCall("live", k) /\ LiveCall(k)
  BY <1>2, <1>3, LiveApart DEF LinkedCall, LiveCall, TakeTold
<1> QED BY <1>1, <1>4, LiveStarts DEF k

\* Packages of prepared actions.
LEMMA PreparePackageStep ==
    ASSUME LiveInv, part' = part, NEW c \in Calls, NEW e, NEW actions \in L!ActionLists,
           L!PreparePackage(c, e, actions)
    PROVE  LiveInv'
<1>1. L!Range(actions) \in SUBSET Scenes
  BY DEF L!ActionLists, L!Range
<1>2. L!BuildPlan(actions).scenes = L!Range(actions) /\ L!BuildPlan(actions).actions = actions
  BY DEF L!BuildPlan
<1>3. L!CreatePlan(c, e, None, L!Range(actions), actions)
  BY <1>2 DEF L!PreparePackage
<1> QED BY <1>1, <1>3, CreatePlanStep

\* The steps of the parts of live_record.
LiveNext ==
    \/ part = "plans" /\ L!LiveRecordPlansNext
    \/ part = "takes" /\ L!LiveRecordTakesNext
    \/ part = "sessions" /\ L!LiveRecordSessionsNext

LEMMA LiveStep ==
    ASSUME LiveInv, part' = part, LiveNext
    PROVE  LiveInv'
<1>1. CASE L!Finish
  BY <1>1, LiveFinish, LiveCommit, LiveRollback
<1>2. ASSUME NEW c \in Calls, L!PlanRequests(c) PROVE LiveInv'
  BY <1>2, CreatePlanStep, PreparePackageStep, UpdatePlanContentStep, TransitionPlanStep
  DEF L!PlanRequests, L!Maybe
<1>3. ASSUME NEW c \in Calls, L!SomePlans(c) PROVE LiveInv'
  <2>1. [Actions -> Scenes] \subseteq L!ActionLists
    BY DEF L!ActionLists
  <2> QED BY <1>3, <2>1, PreparePackageStep, TransitionPlanStep DEF L!SomePlans
<1>4. ASSUME NEW c \in Calls, L!TakeRequests(c), part # "sessions" PROVE LiveInv'
  <2>1. ASSUME NEW t \in L!Takes, L!AppendTakeEvent(c, t) PROVE LiveInv'
    BY <1>4, <2>1, RecordStep DEF L!AppendTakeEvent
  <2>2. ASSUME NEW p \in L!Plans, NEW t \in L!Takes, NEW a, NEW status, NEW ok,
               L!RecordActionResult(c, p, t, a, status, ok)
        PROVE  LiveInv'
    <3>1. L!ResultType(status, ok) \in {"MARKER", "ACTION_SUCCESS", "ACTION_FAILURE", "ACTION_TAMPERED"}
      BY DEF L!ResultType
    <3>2. L!Record(c, t, L!ResultType(status, ok))
      BY <2>2 DEF L!RecordActionResult
    <3> QED BY <1>4, <3>1, <3>2, RecordStep
  <2> QED BY <1>4, <2>1, <2>2, CreateTakeStep, CreateSegmentStep DEF L!TakeRequests
<1>5. ASSUME NEW c \in Calls, L!SessionRequests(c) PROVE LiveInv'
  BY <1>5, BootstrapStep, RefreshStep, ScanStep DEF L!SessionRequests
<1>6. CASE part = "plans" /\ L!LiveRecordPlansNext
  BY <1>1, <1>2, <1>6 DEF L!LiveRecordPlansNext
<1>7. CASE part = "takes" /\ L!LiveRecordTakesNext
  BY <1>1, <1>3, <1>4, <1>7 DEF L!LiveRecordTakesNext
<1>8. CASE part = "sessions" /\ L!LiveRecordSessionsNext
  BY <1>1, <1>3, <1>5, <1>8, CreateTakeStep, TransitionTakeStep DEF L!LiveRecordSessionsNext
<1> QED BY <1>6, <1>7, <1>8 DEF LiveNext

-----------------------------------------------------------------------------
(* All of the linked rows *)

LEMMA LinkedInitial ==
    ASSUME NEW x \in Schemas, NEW ids, Core(x) \subseteq ids,
           row = [id \in ids |-> None], call = [c \in Calls |-> None]
    PROVE  LinkedInv(x) /\ VersionedInv(x) /\ LockInv(x)
BY LockableFacts DEF LinkedInv, VersionedInv, LockInv, LockRows

LEMMA StudioInitial ==
    ASSUME S!StudioInit
    PROVE  LinkedInv("studio") /\ VersionedInv("studio") /\ LockInv("studio")
<1>1. Core("studio") \subseteq S!StudioIds
  BY DEF Core, S!StudioIds
<1> QED BY <1>1, LinkedInitial DEF S!StudioInit, Schemas

LEMMA ProductionInitial ==
    ASSUME P!ProductionInit
    PROVE  LinkedInv("production") /\ LockInv("production")
<1>1. Core("production") \subseteq P!ProductionIds
  BY DEF Core, P!ProductionIds
<1> QED BY <1>1, LinkedInitial DEF P!ProductionInit, Schemas

LEMMA LiveInitial == ASSUME L!LiveRecordInit PROVE LiveInv
<1>1. Core("live") \subseteq L!LiveRecordIds
  BY DEF Core, L!LiveRecordIds
<1>2. LinkedInv("live")
  BY <1>1, LinkedInitial DEF L!LiveRecordInit, Schemas
<1>3. \A id \in Core("live") : row[id] = None
  BY <1>1 DEF L!LiveRecordInit
<1>4. \A id \in L!Plans \union L!Takes \union L!Segments \union L!Events : id \in Core("live")
  BY DEF Core
<1>5. \A t \in L!Takes : Gapless(t)
  BY <1>3, <1>4, EventIds DEF Gapless
<1>6. L!Takes \subseteq DOMAIN told /\ \A c \in Calls : call[c] = None
  BY <1>1, <1>4 DEF L!LiveRecordInit
<1> QED BY <1>2, <1>3, <1>4, <1>5, <1>6 DEF LiveInv

\* Nothing changes where nothing is done.
LEMMA LinkedStutter ==
    ASSUME NEW x, LinkedInv(x), UNCHANGED <<row, call>>
    PROVE  /\ LinkedInv(x)' /\ (VersionedInv(x) => VersionedInv(x)')
           /\ LockInv(x) => LockInv(x)'
<1>1. LinkedInv(x)'
  BY DEF LinkedInv, LinksHold, LinkedCall, LinkedStatement, Promised
<1>2. VersionedInv(x) => VersionedInv(x)'
  BY DEF VersionedInv, VersionedCall, VersionedStatement, Conditional
<1>3. LockInv(x) => LockInv(x)'
  BY DEF LockInv, LockRows, LockCall
<1> QED BY <1>1, <1>2, <1>3

LEMMA LiveStutter ==
    ASSUME LiveInv, UNCHANGED <<part, row, call, told>>
    PROVE  LiveInv'
<1>1. LinkedInv("live")'
  BY LinkedStutter DEF LiveInv
<1>2. ASSUME NEW t \in L!Takes PROVE Gapless(t)'
  BY DEF LiveInv, Gapless
<1>3. ASSUME NEW c \in Calls, call'[c] # None PROVE LiveCall(call[c])'
  <2>1. LiveCall(call[c])
    BY <1>3 DEF LiveInv
  <2> QED BY <2>1 DEF LiveCall, TakeTold, LiveStatement, EventStatement
<1> QED BY <1>1, <1>2, <1>3 DEF LiveInv

\* What the invariants say of the rows.
LEMMA StudioConsequences == ASSUME LinkedInv("studio") PROVE S!StudioLinked
BY StudioRows DEF S!StudioLinked, S!Present

LEMMA ProductionConsequences == ASSUME LinkedInv("production") PROVE P!ProductionLinked
BY ProductionRows DEF P!ProductionLinked, P!Present

LEMMA LiveConsequences == ASSUME LiveInv PROVE L!LiveRecordLinked /\ L!EventsGapless
<1>1. L!LiveRecordLinked
  BY LiveRows DEF LiveInv, L!LiveRecordLinked, L!Present
<1>2. ASSUME NEW t \in L!Takes, L!EventsOf(t) # {}
      PROVE  \E n \in 0..MaxEvents : L!EventsOf(t) = 0..n /\ told[t] = n
  <2>1. L!EventsOf(t) = {m \in 0..MaxEvents - 1 : row[<<t, m>>] # None}
    BY DEF L!EventsOf, L!Present
  <2>2. /\ told[t] \in 0..MaxEvents - 1
        /\ \A i \in 0..MaxEvents - 1 : row[<<t, i>>] # None <=> i <= told[t]
    BY <1>2, <2>1 DEF LiveInv, Gapless
  <2>3. L!EventsOf(t) = 0..told[t] /\ told[t] \in 0..MaxEvents
    BY <2>1, <2>2, BoundsAssumption
  <2> QED BY <2>3
<1> QED BY <1>1, <1>2 DEF L!EventsGapless

\* What they say of a step.
LEMMA StudioMoves ==
    ASSUME LinkedInv("studio"), VersionedStep("studio"), LockStep("studio")
    PROVE  S!EpisodeMoves /\ S!LockedKept
<1>1. ASSUME NEW e \in Episodes, row[e] # None, row'[e].state # row[e].state, row'[e].asked = "stated"
      PROVE  row'[e].state \in S!Transitions[row[e].state]
  <2>1. e \in Versioned("studio")
    BY StudioTables
  <2>2. PICK set : MayWrite(set, row[e]) /\ row'[e] = T!Over(set, row[e])
    BY <1>1, <2>1 DEF VersionedStep
  <2>3. "state" \in DOMAIN row[e]
    BY <1>1, StudioRows
  <2>4. row'[e].state = IF "state" \in DOMAIN set THEN set.state ELSE row[e].state
    BY <2>2, <2>3 DEF T!Over
  <2> QED BY <1>1, <2>2, <2>4 DEF MayWrite
<1>2. ASSUME NEW r \in S!Revisions, row[r] # None, row[r].locked PROVE row'[r] = row[r]
  <2>1. r \in Lockable("studio")
    BY StudioTables
  <2>2. row[r].locked = TRUE
    BY <1>2, StudioRows
  <2> QED BY <1>2, <2>1, <2>2 DEF LockStep
<1> QED BY <1>1, <1>2 DEF S!EpisodeMoves, S!LockedKept, S!Present

LEMMA ProductionMoves ==
    ASSUME LinkedInv("production"), LockStep("production")
    PROVE  P!LockedKept
<1>1. ASSUME NEW r \in P!Revisions, row[r] # None, row[r].locked PROVE row'[r] = row[r]
  <2>1. r \in Lockable("production")
    BY ProductionTables
  <2>2. row[r].locked = TRUE
    BY <1>1, ProductionRows
  <2> QED BY <1>1, <2>1, <2>2 DEF LockStep
<1> QED BY <1>1 DEF P!LockedKept, P!Present

\* The parts.
LEMMA PartsApart ==
    /\ part \in StudioParts => part \notin ProductionParts /\ part \notin LiveRecordParts
    /\ part \in ProductionParts => part \notin LiveRecordParts
    /\ part \in QualityParts \union WorkspaceParts \union {"memory", "automation"} =>
          part \notin StudioParts /\ part \notin ProductionParts /\ part \notin LiveRecordParts
BY DEF StudioParts, ProductionParts, LiveRecordParts, QualityParts, WorkspaceParts

\* A step of a part is one of its module, and of nothing else.
LEMMA PartSteps ==
    ASSUME Next
    PROVE  /\ part' = part
           /\ part \in StudioParts => StudioNext
           /\ part \in ProductionParts => ProductionNext
           /\ part \in LiveRecordParts => LiveNext
<1>1. part' = part
  BY DEF Next
<1>2. part \in StudioParts => StudioNext
  BY DEF Next, Tables, StudioParts, StudioNext
<1>3. part \in ProductionParts => ProductionNext
  BY DEF Next, Tables, ProductionParts, ProductionNext
<1>4. part \in LiveRecordParts => LiveNext
  BY DEF Next, Tables, LiveRecordParts, LiveNext
<1> QED BY <1>1, <1>2, <1>3, <1>4

LEMMA PartsInitial ==
    ASSUME Init
    PROVE  /\ part \in StudioParts => S!StudioInit
           /\ part \in ProductionParts => P!ProductionInit
           /\ part \in LiveRecordParts => L!LiveRecordInit
BY PartsApart DEF Init

\* However the commands of studio, production and live_record race, a row that a row
\* names is there and belongs to it, and the events of a take have no gaps.
\* The invariant adds what the commands under way have decided: that each row a
\* statement names is there, or is made by the same command, and that no statement takes
\* a row away or sets the column by which a named row names its owner.
THEOREM RowsStayLinked == Spec => []RowsLinked
<1> DEFINE Inv == /\ part \in StudioParts => LinkedInv("studio")
                  /\ part \in ProductionParts => LinkedInv("production")
                  /\ part \in LiveRecordParts => LiveInv
<1>1. Init => Inv
  BY PartsInitial, StudioInitial, ProductionInitial, LiveInitial
<1>2. Inv /\ [Next]_vars => Inv'
  <2> SUFFICES ASSUME Inv, [Next]_vars PROVE Inv'
    OBVIOUS
  <2>1. CASE UNCHANGED vars
    <3>1. UNCHANGED <<part, row, call, told>>
      BY <2>1 DEF vars
    <3> QED BY <3>1, LinkedStutter, LiveStutter
  <2>2. CASE Next
    <3>1. part' = part
      BY <2>2, PartSteps
    <3>2. part \in StudioParts => LinkedInv("studio")'
      BY <2>2, PartSteps, StudioStep DEF LinkedStep
    <3>3. part \in ProductionParts => LinkedInv("production")'
      BY <2>2, PartSteps, ProductionStep DEF LinkedStep
    <3>4. part \in LiveRecordParts => LiveInv'
      BY <2>2, <3>1, PartSteps, LiveStep
    <3> QED BY <3>1, <3>2, <3>3, <3>4
  <2> QED BY <2>1, <2>2
<1>3. Inv => RowsLinked
  BY StudioConsequences, ProductionConsequences, LiveConsequences DEF RowsLinked
<1> QED BY <1>1, <1>2, <1>3, PTL DEF Spec

\* An episode moves along its table from the state it really is in, until a request for it
\* leaves the version out, and a locked revision stays as it is, whatever requests state
\* and however commands race.
\* The invariant adds that an UPDATE of an episode is for a version, and finds a later one
\* or may be done, unless it or one before it was for a request without; and that a
\* revision has one version until it is locked and one after, which every UPDATE of it
\* leaves it with.
THEOREM LifecyclesStayKept == Spec => LifecyclesKept
<1> DEFINE Inv == /\ part \in StudioParts =>
                        LinkedInv("studio") /\ VersionedInv("studio") /\ LockInv("studio")
                  /\ part \in ProductionParts => LinkedInv("production") /\ LockInv("production")
           Kept == /\ part \in StudioParts => S!EpisodeMoves /\ S!LockedKept
                   /\ part \in ProductionParts => P!LockedKept
<1>1. Init => Inv
  BY PartsInitial, StudioInitial, ProductionInitial
<1>2. Inv /\ [Next]_vars => Inv' /\ [Kept]_vars
  <2> SUFFICES ASSUME Inv, [Next]_vars PROVE Inv' /\ [Kept]_vars
    OBVIOUS
  <2>1. CASE UNCHANGED vars
    <3>1. UNCHANGED <<part, row, call, told>>
      BY <2>1 DEF vars
    <3>2. Inv'
      BY <3>1, LinkedStutter
    <3> QED BY <2>1, <3>2
  <2>2. CASE Next
    <3>1. part' = part
      BY <2>2, PartSteps
    <3>2. ASSUME part \in StudioParts
          PROVE  /\ LinkedInv("studio")' /\ VersionedInv("studio")' /\ LockInv("studio")'
                 /\ VersionedStep("studio") /\ LockStep("studio")
      BY <2>2, <3>2, PartSteps, StudioStep DEF LinkedStep
    <3>3. ASSUME part \in ProductionParts
          PROVE  LinkedInv("production")' /\ LockInv("production")' /\ LockStep("production")
      BY <2>2, <3>3, PartSteps, ProductionStep DEF LinkedStep
    <3>4. Inv'
      BY <3>1, <3>2, <3>3
    <3>5. Kept
      BY <3>2, <3>3, StudioMoves, ProductionMoves
    <3> QED BY <3>4, <3>5
  <2> QED BY <2>1, <2>2
<1> QED BY <1>1, <1>2, PTL DEF Spec, LifecyclesKept
=============================================================================
