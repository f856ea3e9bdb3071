---------------------------- MODULE JobLifecycle ----------------------------
(***************************************************************************)
(* What the durable queue promises to those who submit jobs, without its   *)
(* tables, leases, tokens, clocks and transactions: a job is started at    *)
(* most max_attempts times, ends once, ends cancelled if its cancellation  *)
(* was accepted while it was alive, and every retry and every end is       *)
(* announced by exactly one event.                                         *)
(***************************************************************************)
EXTENDS Naturals

CONSTANTS Jobs, Budget

VARIABLES
    phase,      \* "new", "waiting", "active" or "done"
    starts,     \* attempts started so far
    outcome,    \* how a job that is done ended
    asked,      \* its cancellation has been accepted
    announced   \* events written for it

lifecycle == <<phase, starts, outcome, asked, announced>>

LInit ==
    /\ phase = [j \in Jobs |-> "new"]
    /\ starts = [j \in Jobs |-> 0]
    /\ outcome = [j \in Jobs |-> "none"]
    /\ asked = [j \in Jobs |-> FALSE]
    /\ announced = [j \in Jobs |-> 0]

Enter(j, from, to) == phase[j] \in from /\ phase' = [phase EXCEPT ![j] = to]

Submit(j) ==
    /\ Enter(j, {"new"}, "waiting")
    /\ UNCHANGED <<starts, outcome, asked, announced>>

\* A first start, a retry, or a restart of an attempt whose worker is gone.
Start(j) ==
    /\ Enter(j, {"waiting", "active"}, "active")
    /\ starts[j] < Budget[j]
    /\ starts' = [starts EXCEPT ![j] = @ + 1]
    /\ UNCHANGED <<outcome, asked, announced>>

Announce(j) == announced' = [announced EXCEPT ![j] = @ + 1]

RetryLater(j) ==
    /\ Enter(j, {"active"}, "waiting")
    /\ starts[j] < Budget[j]
    /\ ~asked[j]
    /\ Announce(j)
    /\ UNCHANGED <<starts, outcome, asked>>

Finish(j, how) ==
    /\ Enter(j, {"active"}, "done")
    /\ asked[j] => how = "cancelled"
    /\ outcome' = [outcome EXCEPT ![j] = how]
    /\ Announce(j)
    /\ UNCHANGED <<starts, asked>>

AskCancel(j) ==
    /\ phase[j] = "active"
    /\ asked' = [asked EXCEPT ![j] = TRUE]
    /\ UNCHANGED <<phase, starts, outcome, announced>>

CancelWaiting(j) ==
    /\ Enter(j, {"waiting"}, "done")
    /\ asked' = [asked EXCEPT ![j] = TRUE]
    /\ outcome' = [outcome EXCEPT ![j] = "cancelled"]
    /\ Announce(j)
    /\ UNCHANGED starts

LNext ==
    \E j \in Jobs :
        \/ Submit(j) \/ Start(j) \/ RetryLater(j) \/ AskCancel(j) \/ CancelWaiting(j)
        \/ \E how \in {"succeeded", "failed", "cancelled"} : Finish(j, how)

LSpec == LInit /\ [][LNext]_lifecycle
=============================================================================
