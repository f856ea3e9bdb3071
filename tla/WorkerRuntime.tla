---------------------------- MODULE WorkerRuntime ----------------------------
(***************************************************************************)
(* The worker processes of apps/worker/src/windagent_worker/runtime.py as  *)
(* clients of the durable queue: the poll cycle (recover, claim, execute), *)
(* the heartbeat loop beside a running handler, and the finalization of    *)
(* its outcome.  A worker may be asked to stop, and may crash between any  *)
(* two steps, in the middle of a transaction too.                          *)
(*                                                                         *)
(* A worker's wait for its handler ends when the handler does or after     *)
(* heartbeat_interval_s; nothing in the code bounds how late the event     *)
(* loop then gets to run, so a heartbeat comes at any time or too late.    *)
(***************************************************************************)
EXTENDS JobQueue

CONSTANTS
    Handled,     \* pairs of a worker and a job its registry has a handler for
    HasTimeout,  \* jobs submitted with a timeout_s
    BaseDelay,   \* RetryPolicy.base_delay_s
    MaxDelay,    \* RetryPolicy.max_delay_s
    MaxFaults,   \* bound on the crashes and stops of workers
    MaxCancels   \* bound on the calls of request_cancel

ASSUME RuntimeAssumption ==
    /\ Handled \subseteq Workers \X Jobs /\ HasTimeout \subseteq Jobs
    /\ BaseDelay \in Nat /\ MaxDelay \in Nat /\ BaseDelay <= MaxDelay
    /\ MaxFaults \in Nat /\ MaxCancels \in Nat

ASSUME NullAssumption == None \notin Row

VARIABLES
    wk,      \* the state of each worker process
    report,  \* the WorkerTickReport of each worker's last finished cycle
    faults,  \* crashes and stops so far
    cancels, \* calls of request_cancel so far
    orphans  \* the claims that processes held when they crashed

runtimeVars == <<job, tx, caller, wk, report, faults, cancels, orphans>>

\* at: where the worker is in run_once.  on, attempt, token: the row its open
\* transaction locks, then the envelope it holds.  outcome: what the handler did.
\* call: the finalization it has decided to make.
Worker ==
    [at : {"recover", "recovering", "claim", "claiming", "claimed", "running",
           "returned", "finalize", "committing", "down"},
     on : Jobs \union {None},
     attempt : Nat, token : Nat,
     outcome : {"none", "value", "invalid", "error"},
     call : {"none", "complete", "retryable", "fatal", "cancel"},
     stop : BOOLEAN]

Polling == [at |-> "recover", on |-> None, attempt |-> 0, token |-> 0,
            outcome |-> "none", call |-> "none", stop |-> FALSE]

Report == [status : {"none", "idle", "stale", "retry_wait"} \union Terminal,
           on : Jobs \union {None}, attempt : Nat]

RuntimeInit ==
    /\ Init
    /\ wk = [w \in Workers |-> Polling]
    /\ report = [w \in Workers |-> [status |-> "none", on |-> None, attempt |-> 0]]
    /\ faults = 0
    /\ cancels = 0
    /\ orphans = {}

-----------------------------------------------------------------------------
(* Steps of one worker *)

At(w, place) == wk[w].at = place

Become(w, record) == wk' = [wk EXCEPT ![w] = record]

Goto(w, place) == Become(w, [wk[w] EXCEPT !.at = place])

Decide(w, call) == Become(w, [wk[w] EXCEPT !.at = "finalize", !.call = call])

Environment == <<faults, cancels, orphans>>
QueueUnchanged == UNCHANGED <<job, tx, caller>>

\* The cycle ends with a report; run begins the next one unless asked to stop.
EndCycle(w, status) ==
    /\ Become(w, [Polling EXCEPT !.at = IF wk[w].stop THEN "down" ELSE "recover",
                                 !.stop = wk[w].stop])
    /\ report' = [report EXCEPT ![w] = [status |-> status, on |-> wk[w].on,
                                        attempt |-> wk[w].attempt]]

\* recover_expired: round after round until no unlocked row qualifies.
Recover(w, d) ==
    /\ At(w, "recover")
    /\ \/ \E j \in Jobs : /\ RecoverExpired(j, d)
                          /\ Become(w, [wk[w] EXCEPT !.at = "recovering", !.on = j])
       \/ /\ \A j \in Jobs : Unlocked(j) => ~Unrecoverable(j, d)
          /\ Goto(w, "claim")
          /\ QueueUnchanged
    /\ UNCHANGED <<report, Environment>>

RecoverCommit(w) ==
    /\ At(w, "recovering")
    /\ Commit(wk[w].on)
    /\ Become(w, [wk[w] EXCEPT !.at = "recover", !.on = None])
    /\ UNCHANGED <<report, Environment>>

\* claim_next, or an idle cycle when nothing can be claimed.
ClaimNext(w, d) ==
    /\ At(w, "claim")
    /\ \/ \E j \in Jobs : /\ Claim(w, j, d)
                          /\ Become(w, [wk[w] EXCEPT !.at = "claiming", !.on = j])
                          /\ UNCHANGED report
       \/ /\ \A j \in Jobs : Unlocked(j) => ~Claimable(j, d)
          /\ EndCycle(w, "idle")
          /\ QueueUnchanged
    /\ UNCHANGED Environment

\* Mutant of ClaimCommit: the envelope of a retry carries the attempt count of the
\* scanned row, read before the claim.
ClaimCommitStale(w) ==
    /\ At(w, "claiming")
    /\ Become(w, [wk[w] EXCEPT !.at = "claimed",
                               !.attempt = IF job[wk[w].on].attempt_count = 0 THEN 1
                                           ELSE job[wk[w].on].attempt_count,
                               !.token = tx[wk[w].on].fencing_token])
    /\ Commit(wk[w].on)
    /\ UNCHANGED <<report, Environment>>

\* The envelope carries the attempt and the token the claim has just written.
ClaimCommit(w) ==
    /\ At(w, "claiming")
    /\ LET row == tx[wk[w].on]
       IN  Become(w, [wk[w] EXCEPT !.at = "claimed",
                                   !.attempt = row.attempt_count,
                                   !.token = row.fencing_token])
    /\ Commit(wk[w].on)
    /\ UNCHANGED <<report, Environment>>

Deadlined(w, d) ==
    LET timer == job[wk[w].on].deadline IN timer # None /\ timer <= -d

\* The lease probes of LeaseGuard: authority lost ends the cycle without a write,
\* a requested cancellation gives the claim up, otherwise the worker goes on.
Probe(w, d, GoOn(_)) ==
    LET j == wk[w].on
        lives == OwnsLiveClaim(job[j], w, wk[w].token, d)
    IN  /\ Unlocked(j)
        /\ \/ /\ ~lives
              /\ EndCycle(w, "stale")
              /\ QueueUnchanged
           \/ /\ Heartbeat(w, j, wk[w].token, d)
              /\ IF job[j].cancellation_requested THEN Decide(w, "cancel")
                 ELSE GoOn(w)
              /\ UNCHANGED report
        /\ UNCHANGED Environment

\* After the first probe: the deadline, the handler's registration, the start.
Start(w) ==
    \/ \E d \in Drift : Deadlined(w, d) /\ Decide(w, "retryable")
    \/ \E d \in Drift :
          /\ ~Deadlined(w, d)
          /\ IF <<w, wk[w].on>> \in Handled THEN Goto(w, "running") ELSE Decide(w, "fatal")

CheckClaim(w, d) == At(w, "claimed") /\ Probe(w, d, Start)

\* The handler returns a value, valid or not, or raises.
HandlerEnds(w, outcome) ==
    /\ At(w, "running")
    /\ Become(w, [wk[w] EXCEPT !.at = "returned", !.outcome = outcome])
    /\ QueueUnchanged
    /\ UNCHANGED <<report, Environment>>

\* Mutant of GiveUp: a stopped worker drops its job without failing it.
GiveUpSilently(w) ==
    /\ At(w, "running")
    /\ wk[w].stop
    /\ EndCycle(w, "stale")
    /\ QueueUnchanged
    /\ UNCHANGED Environment

\* A wake-up of the heartbeat loop while the handler runs: the stop event, the
\* timeout and the deadline are looked at first, and each cancels the handler.
GiveUp(w) ==
    /\ At(w, "running")
    /\ \/ wk[w].stop
       \/ wk[w].on \in HasTimeout
       \/ \E d \in Drift : Deadlined(w, d)
    /\ Decide(w, "retryable")
    /\ QueueUnchanged
    /\ UNCHANGED <<report, Environment>>

Resume(w) == Goto(w, "running")

Beat(w, d) ==
    /\ At(w, "running")
    /\ ~wk[w].stop
    /\ \E d0 \in Drift : ~Deadlined(w, d0)
    /\ Probe(w, d, Resume)

Settle(w) ==
    Decide(w, IF wk[w].outcome = "value" THEN "complete" ELSE "fatal")

\* An exception is a failure at once; a value is probed for before it is
\* validated.
Return(w, d) ==
    /\ At(w, "returned")
    /\ \/ /\ wk[w].outcome = "error"
          /\ Decide(w, "retryable")
          /\ QueueUnchanged
          /\ UNCHANGED <<report, Environment>>
       \/ /\ wk[w].outcome # "error"
          /\ Probe(w, d, Settle)

-----------------------------------------------------------------------------
(* Finalization *)

\* RetryPolicy.delay_for
DelayFor(n) ==
    LET delay == BaseDelay * 2^(n - 1) IN IF delay < MaxDelay THEN delay ELSE MaxDelay

\* The retry policy is one of the callers of fail.
ASSUME DelayAssumption == \A j \in Jobs : \A n \in 1..MaxAttempts[j] : DelayFor(n) \in Delays

\* A finalization that is sent whatever the answer, and the mutant of Finalize: a
\* refused completion is reported as a success.
FinalizeAccepted(w, d0, d) ==
    LET j == wk[w].on
    IN  /\ At(w, "finalize")
        /\ FinalizeClaim(w, j, wk[w].attempt, wk[w].token,
              IF wk[w].call = "complete" THEN "succeeded" ELSE "failed", None, 0, d)
        /\ Goto(w, "committing")
        /\ UNCHANGED <<report, Environment>>

FinalizeOptimistic(w, d0, d) ==
    LET j == wk[w].on
    IN  /\ At(w, "finalize")
        /\ Unlocked(j)
        /\ \/ /\ FinalizeAccepted(w, d0, d)
           \/ /\ ~OwnsLiveClaim(job[j], w, wk[w].token, d)
              /\ EndCycle(w, IF wk[w].call = "complete" THEN "succeeded" ELSE "stale")
              /\ QueueUnchanged
              /\ UNCHANGED Environment

\* complete, fail or cancel_claim: the row is locked and its new version written,
\* or the claim turns out to be lost and nothing is.
Finalize(w, d0, d) ==
    LET j == wk[w].on
        n == wk[w].attempt
        token == wk[w].token
        call == wk[w].call
    IN  /\ At(w, "finalize")
        /\ Unlocked(j)
        /\ \/ /\ \/ call = "complete" /\ \E value \in {n, None} : Complete(w, j, n, token, value, d)
                 \/ call = "cancel" /\ CancelClaim(w, j, n, token, d)
                 \/ /\ call \in {"retryable", "fatal"}
                    /\ Fail(w, j, n, token, call = "retryable", DelayFor(n), d0, d)
              /\ Goto(w, "committing")
              /\ UNCHANGED report
           \/ /\ ~OwnsLiveClaim(job[j], w, token, d)
              /\ EndCycle(w, "stale")
              /\ QueueUnchanged
        /\ UNCHANGED Environment

FinalizeCommit(w) ==
    /\ At(w, "committing")
    /\ Commit(wk[w].on)
    /\ EndCycle(w, tx[wk[w].on].status)
    /\ UNCHANGED Environment

-----------------------------------------------------------------------------
(* Faults, and the other processes *)

HoldsTx(w) == wk[w].at \in {"recovering", "claiming", "committing"}

\* The worker has the envelope of a claim.
HoldsClaim(w) == wk[w].at \in {"claimed", "running", "returned", "finalize", "committing"}

\* The process dies, or an exception of the queue ends run: its open transaction
\* is rolled back and its memory lost; the row keeps the claim.
Crash(w) ==
    /\ faults < MaxFaults
    /\ ~At(w, "down")
    /\ IF HoldsTx(w) THEN Rollback(wk[w].on) ELSE QueueUnchanged
    /\ Become(w, [Polling EXCEPT !.at = "down"])
    /\ faults' = faults + 1
    /\ orphans' = orphans \union (IF HoldsClaim(w) THEN {<<wk[w].on, wk[w].token>>} ELSE {})
    /\ UNCHANGED <<report, cancels>>

Stop(w) ==
    /\ faults < MaxFaults
    /\ ~At(w, "down") /\ ~wk[w].stop
    /\ Become(w, [wk[w] EXCEPT !.stop = TRUE])
    /\ faults' = faults + 1
    /\ QueueUnchanged
    /\ UNCHANGED <<report, cancels, orphans>>

\* run leaves its loop between two cycles.
Exit(w) ==
    /\ At(w, "recover") /\ wk[w].stop
    /\ Goto(w, "down")
    /\ QueueUnchanged
    /\ UNCHANGED <<report, Environment>>

Boot(w) ==
    /\ At(w, "down")
    /\ Become(w, Polling)
    /\ QueueUnchanged
    /\ UNCHANGED <<report, Environment>>

WorkerStep(w) ==
    \/ \E d \in Drift : Recover(w, d) \/ ClaimNext(w, d) \/ CheckClaim(w, d)
                        \/ Beat(w, d) \/ Return(w, d)
    \/ \E d0, d \in Drift : Finalize(w, d0, d)
    \/ RecoverCommit(w) \/ ClaimCommit(w) \/ FinalizeCommit(w)
    \/ Exit(w)

\* What ends the wait for a handler.
HandlerStep(w) ==
    \/ \E outcome \in {"value", "invalid", "error"} : HandlerEnds(w, outcome)
    \/ GiveUp(w)

\* Submitters and cancellers are other processes, each in one call.
SubmitterStep(j) ==
    /\ FindIdempotent(j) \/ \E delay \in Delays : Insert(j, delay)
    /\ UNCHANGED <<wk, report, Environment>>

CancellerBegins(j) ==
    /\ cancels < MaxCancels
    /\ RequestCancel(j)
    /\ cancels' = cancels + 1
    /\ UNCHANGED <<wk, report, faults, orphans>>

CancellerEnds(j) ==
    /\ \A w \in Workers : ~(HoldsTx(w) /\ wk[w].on = j)
    /\ Commit(j) \/ Rollback(j)
    /\ UNCHANGED <<wk, report, Environment>>

RuntimeTick == Tick /\ UNCHANGED <<wk, report, Environment>>

RuntimeNext ==
    \/ RuntimeTick
    \/ \E w \in Workers : WorkerStep(w) \/ HandlerStep(w) \/ Crash(w) \/ Stop(w)
                          \/ Boot(w)
    \/ \E j \in Jobs : SubmitterStep(j) \/ CancellerBegins(j) \/ CancellerEnds(j)

\* Time passes; the loop of a live worker keeps running; a handler returns or is
\* given up; an open transaction of the API ends.  Nothing makes anybody submit,
\* cancel, crash, stop or restart.
Fairness ==
    /\ WF_runtimeVars(RuntimeTick)
    /\ \A w \in Workers : WF_runtimeVars(WorkerStep(w)) /\ WF_runtimeVars(HandlerStep(w))
    /\ \A j \in Jobs : WF_runtimeVars(CancellerEnds(j))

RuntimeSpec == RuntimeInit /\ [][RuntimeNext]_runtimeVars

FairSpec == RuntimeSpec /\ Fairness

-----------------------------------------------------------------------------
(* Properties *)

\* Type correctness of the worker processes and their reports.
RuntimeTypeOK ==
    /\ wk \in [Workers -> Worker]
    /\ report \in [Workers -> Report]
    /\ faults \in 0..MaxFaults
    /\ cancels \in 0..MaxCancels
    /\ orphans \subseteq Jobs \X Nat

\* The workers use the queue as its clients may: every step of the runtime is a
\* step of JobQueue, which accepts only calls that carry an envelope a claim has
\* issued to that worker.  What holds of JobQueue therefore holds here.
UsesQueue == Spec

\* What a worker reports of an attempt is what the database holds of it: the
\* attempt is closed with that outcome and its event is in the outbox.
ReportTruthful ==
    \A w \in Workers :
        LET r == report[w]
            row == job[r.on]
        IN  r.status \in {"retry_wait"} \union Terminal =>
              /\ r.attempt \in DOMAIN row.ledger
              /\ row.ledger[r.attempt].worker_id = w
              /\ row.ledger[r.attempt].status =
                    (IF r.status = "retry_wait" THEN "failed" ELSE r.status)
              /\ \E i \in DOMAIN row.events :
                    row.events[i] = [type |-> r.status, attempt |-> r.attempt]

\* A worker that stops on request leaves no claim behind that others would have
\* to wait for: it gave its job up, or the lease had run out on some clock.  (The
\* claims of a process of that worker_id that crashed before are not its own.)
GracefulStopReleases ==
    \A w \in Workers, j \in Jobs :
        /\ At(w, "down") /\ wk[w].stop
        /\ job[j].status = "running" /\ job[j].claimed_by = w
        /\ <<j, job[j].fencing_token>> \notin orphans
        => job[j].lease_expires_at < Skew

\* Every job that is in the queue ends, in spite of crashes, stops, expired
\* leases, refused results and cancellations, while one worker stays up.
EveryJobEnds ==
    <>[](\E w \in Workers : ~At(w, "down")) =>
        \A j \in Jobs : (j \in Inserted) ~> (job[j].status \in Terminal)
=============================================================================
