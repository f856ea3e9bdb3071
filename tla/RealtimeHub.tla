---------------------------- MODULE RealtimeHub ----------------------------
(***************************************************************************)
(* The in-process fan-out of platform/realtime/hub.py: publish numbers an  *)
(* event, keeps it for replay and puts it into the bounded queue of every  *)
(* subscriber; subscribe replays what a reconnecting client asks for.      *)
(*                                                                         *)
(* Everything runs on one asyncio loop, and a task gives way only where it *)
(* really waits.  The hub's lock is never held across a wait, so nobody    *)
(* ever finds it taken; the one wait is Queue.put on a full queue.  A call *)
(* of publish is therefore one step up to the first full queue.  The queue *)
(* wakes one waiting putter for every message taken from it, in the order  *)
(* they came, but keeps no slot for it: a call that finds the slot first   *)
(* takes it, and the woken putter queues up again, at the end.             *)
(*                                                                         *)
(* An event is represented by the position the hub gives it.               *)
(***************************************************************************)
EXTENDS Integers, Sequences, FiniteSets, Filters

CONSTANTS
    Calls,           \* calls of publish
    Subscribers,     \* subscriptions
    MayLeave,        \* those that may be unsubscribed
    ReplayCapacity,  \* replay_capacity
    Capacity         \* subscriber_capacity

ASSUME HubAssumption ==
    /\ ReplayCapacity \in Nat \ {0} /\ Capacity \in Nat \ {0}
    /\ MayLeave \subseteq Subscribers

VARIABLES
    position,  \* the last position given
    replay,    \* the positions kept for replay
    order,     \* the subscribers, in the order the set of queues lists them
    call,      \* each call of publish: its position, the queues still to serve
    sub        \* each subscription

vars == <<position, replay, order, call, sub>>

\* A call waits for the first of its remaining queues.
Call == [at : {"new", "waiting", "done"}, position : Nat, rest : Seq(Subscribers)]

\* putters: the calls that wait for room; woken: those that have been told of
\* some.  got: what the consumer has received.  from: the position it asked for,
\* as far back as the hub could go.  crowded: some call had to wait.
Sub == [state : {"new", "live", "closed"}, queue : Seq(Nat),
        putters : Seq(Calls), woken : Seq(Calls),
        got : Seq(Nat), from : Nat, crowded : BOOLEAN]

Init ==
    /\ position = 0
    /\ replay = <<>>
    /\ order = <<>>
    /\ call = [m \in Calls |-> [at |-> "new", position |-> 0, rest |-> <<>>]]
    /\ sub = [s \in Subscribers |->
                [state |-> "new", queue |-> <<>>, putters |-> <<>>, woken |-> <<>>,
                 got |-> <<>>, from |-> 0, crowded |-> FALSE]]

Live == {s \in Subscribers : sub[s].state = "live"}

Smaller(a, b) == IF a < b THEN a ELSE b
Larger(a, b) == IF a < b THEN b ELSE a

\* The last n messages of a sequence (deque(maxlen=n), replay[-n:]).
LastOf(s, n) == SubSeq(s, Larger(1, Len(s) - n + 1), Len(s))

-----------------------------------------------------------------------------
(* asyncio.Queue *)

Full(s) == Len(sub[s].queue) >= Capacity

Received(record, p) == [record EXCEPT !.queue = Append(@, p)]

Crowded(record, m) == [record EXCEPT !.putters = Append(@, m), !.crowded = TRUE]

\* The loop over the remaining queues of a call: it serves those in front of the
\* first full one, and waits there or ends.  before is the state of the
\* subscriptions the loop starts from.
FanOut(m, p, rest, before) ==
    LET roomy == {s \in Subscribers : ~Full(s)}
        served == {rest[i] : i \in 1..Leading(rest, roomy)}
        left == Behind(rest, roomy)
        after == [s \in Subscribers |->
                    IF s \in served THEN Received(before[s], p) ELSE before[s]]
    IN  IF left = <<>>
        THEN /\ call' = [call EXCEPT ![m] = [at |-> "done", position |-> p, rest |-> left]]
             /\ sub' = after
        ELSE /\ call' = [call EXCEPT ![m] = [at |-> "waiting", position |-> p, rest |-> left]]
             /\ sub' = [after EXCEPT ![Head(left)] = Crowded(@, m)]

-----------------------------------------------------------------------------
(* RealtimeHub *)

\* Mutant of Kept: the deque is filled from the left.
KeptLeft(p) == SubSeq(<<p>> \o replay, 1, Smaller(Len(replay) + 1, ReplayCapacity))

Kept(p) == LastOf(Append(replay, p), ReplayCapacity)

Publish(m) ==
    /\ call[m].at = "new"
    /\ position' = position + 1
    /\ replay' = Kept(position + 1)
    /\ FanOut(m, position + 1, order, sub)
    /\ UNCHANGED order

\* A woken putter looks again: it goes on if there is room, else it waits again.
Resume(m) ==
    LET s == Head(call[m].rest)
        awake == [sub EXCEPT ![s].woken = Tail(@)]
    IN  /\ call[m].at = "waiting"
        /\ sub[s].woken # <<>> /\ Head(sub[s].woken) = m
        /\ IF Full(s)
           THEN sub' = [awake EXCEPT ![s] = Crowded(@, m)] /\ UNCHANGED call
           ELSE FanOut(m, call[m].position, Tail(call[m].rest),
                       [awake EXCEPT ![s] = Received(@, call[m].position)])
        /\ UNCHANGED <<position, replay, order>>

\* Mutant of Replayed: the position asked for is sent again.
ReplayedAgain(after) == LastOf(Only(replay, after..position), Capacity)

\* What subscribe puts into the new queue.
Replayed(after) == LastOf(Only(replay, (after + 1)..position), Capacity)

\* A set of queues is listed in no particular order; one more may change it.
Listings(S) == {f \in [1..Cardinality(S) -> S] : {f[i] : i \in DOMAIN f} = S}

Subscribe(s, after) ==
    /\ sub[s].state = "new"
    /\ sub' = [sub EXCEPT ![s].state = "live",
                          ![s].queue = Replayed(after),
                          ![s].from = Larger(after, position -
                                         Smaller(Len(replay), Capacity))]
    /\ order' \in Listings(Live \union {s})
    /\ UNCHANGED <<position, replay, call>>

\* The hub forgets the queue; calls that are to serve it still have it.
Unsubscribe(s) ==
    /\ s \in Live \intersect MayLeave
    /\ sub' = [sub EXCEPT ![s].state = "closed"]
    /\ order' = Only(order, Subscribers \ {s})
    /\ UNCHANGED <<position, replay, call>>

\* Mutant of Take: nobody is told that there is room.
TakeSilently(s) ==
    /\ s \in Live
    /\ sub[s].queue # <<>>
    /\ sub' = [sub EXCEPT ![s].got = Append(@, Head(sub[s].queue)),
                          ![s].queue = Tail(@)]
    /\ UNCHANGED <<position, replay, order, call>>

\* RealtimeSubscription.next; get wakes the first waiting putter.
Take(s) ==
    /\ s \in Live
    /\ sub[s].queue # <<>>
    /\ LET line == sub[s].putters
       IN  sub' = [sub EXCEPT
                     ![s].got = Append(@, Head(sub[s].queue)),
                     ![s].queue = Tail(@),
                     ![s].putters = IF line = <<>> THEN @ ELSE Tail(@),
                     ![s].woken = IF line = <<>> THEN @ ELSE Append(@, Head(line))]
    /\ UNCHANGED <<position, replay, order, call>>

Next ==
    \/ \E m \in Calls : Publish(m) \/ Resume(m)
    \/ \E s \in Subscribers : \/ \E after \in 0..position : Subscribe(s, after)
                              \/ Unsubscribe(s)
                              \/ Take(s)

Spec == Init /\ [][Next]_vars

\* The loop runs every task that is ready, and a consumer keeps reading.
Fairness ==
    /\ \A m \in Calls : WF_vars(Resume(m))
    /\ \A s \in Subscribers : WF_vars(Take(s))

FairSpec == Spec /\ Fairness

-----------------------------------------------------------------------------
(* Properties *)

\* Type correctness, and the bound of every queue.
TypeOK ==
    /\ position \in Nat
    /\ replay \in Seq(Nat) /\ Len(replay) <= ReplayCapacity
    /\ order \in Seq(Live) /\ Len(order) = Cardinality(Live)
    /\ call \in [Calls -> Call]
    /\ sub \in [Subscribers -> Sub]
    /\ \A s \in Subscribers : Len(sub[s].queue) <= Capacity

\* The messages on their way to a subscriber in the hands of a waiting call.
Underway(s) == {m \in Calls : call[m].at = "waiting" /\ s \in {call[m].rest[i] : i \in DOMAIN call[m].rest}}

\* The hand-over from replay to live events neither loses nor repeats one: a
\* subscriber has every position behind the one it asked for (as far as replay
\* reaches) exactly once, received, queued, or in a call that waits for room,
\* however calls, subscriptions and consumers interleave; and in order, as long as
\* no call ever had to wait.  (After that nobody is sure of the order, not even
\* those with room: a new call can overtake a woken one at a full queue, and serve
\* the others first.)
CompleteStream ==
    \A s \in Live :
        LET here == sub[s].got \o sub[s].queue
        IN  /\ {here[i] : i \in DOMAIN here}
                  \union {call[m].position : m \in Underway(s)}
                    = (sub[s].from + 1)..position
            /\ Len(here) + Cardinality(Underway(s)) = position - sub[s].from
            /\ (\A q \in Subscribers : ~sub[q].crowded) =>
                  \A i \in DOMAIN here : here[i] = sub[s].from + i

\* Every call of publish returns while the subscribers keep reading, unless the
\* very subscriber it waits for leaves: no wake-up is lost when several calls wait
\* for one queue or overtake each other.
PublishReturns ==
    \A m \in Calls :
        (call[m].at = "waiting") ~>
            \/ call[m].at = "done"
            \/ call[m].at = "waiting" /\ sub[Head(call[m].rest)].state = "closed"
=============================================================================
