---------------------------- MODULE RateLimiter ----------------------------
(***************************************************************************)
(* SlidingWindowRateLimiter (platform/security/ratelimit.py) under the     *)
(* middleware that asks it (apps/api/.../middleware/ratelimit.py) and      *)
(* tells the client how much it has left or when to come back.             *)
(*                                                                         *)
(* A check runs without a wait: it is one step.  Time is in ticks, of      *)
(* which Second make a second; the header with the delay is in seconds.    *)
(* An instant is kept as its age, and no age beyond Window: the limiter    *)
(* does not tell them apart.                                               *)
(***************************************************************************)
EXTENDS Integers, FiniteSets, Sequences, Filters

CONSTANTS
    Clients,         \* the keys
    Limit,           \* limit
    Window,          \* window_s, in ticks
    MaxTrackedKeys,  \* max_tracked_keys
    Second,
    None

VARIABLES
    windows,   \* _windows, a dictionary in the order of insertion
    admitted,  \* the requests of each client that were let through in the last window,
               \* since the client was last forgotten
    told,      \* what the last answer told each client
    answer     \* the last answer

limiterVars == <<windows, admitted, told, answer>>

Age == 0..Window

\* remaining of an answer, and what is left of the delay of a denial.
Told == [remaining : 0..Limit, wait : Nat \union {None}]

LimiterInit ==
    /\ windows = <<>>
    /\ admitted = [k \in Clients |-> <<>>]
    /\ told = [k \in Clients |-> None]
    /\ answer = None

\* Mutant of Pruned: what is exactly a window old is kept.
PrunedLate(times) == Behind(times, {t \in Age : t > Window})

\* _prune: what is a window old is taken off the front.
Pruned(times) == Behind(times, {t \in Age : t >= Window})

\* The keys that _window_for drops to make room for k: the first to be tracked.
Dropped(k) ==
    IF (\A i \in DOMAIN windows : windows[i].key # k) /\ Len(windows) >= MaxTrackedKeys
    THEN {windows[1].key} ELSE {}

\* _window_for: the dictionary with an entry for k.
WindowFor(k) ==
    LET kept == IF Dropped(k) = {} THEN windows ELSE Tail(windows)
    IN  IF \E i \in DOMAIN kept : kept[i].key = k THEN kept
        ELSE Append(kept, [key |-> k, times |-> <<>>])

\* The delay of the header, rounded up to seconds.
RetryAfter(times) == ((Window - times[1] + Second - 1) \div Second) * Second

\* Is a client entitled to be admitted by what it was told last?
Entitled(k) == told[k] # None /\ (told[k].remaining > 0 \/ told[k].wait = 0)

Check(k) ==
    LET tracked == WindowFor(k)
        i == CHOOSE n \in DOMAIN tracked : tracked[n].key = k
        times == Pruned(tracked[i].times)
        allowed == Len(times) < Limit
        counted == IF allowed THEN Append(times, 0) ELSE times
        kept == [c \in Clients |-> IF c \in Dropped(k) THEN <<>> ELSE admitted[c]]
    IN  /\ windows' = [tracked EXCEPT ![i].times = counted]
        /\ admitted' = IF allowed THEN [kept EXCEPT ![k] = Append(@, 0)] ELSE kept
        /\ told' = [told EXCEPT ![k] =
                IF allowed THEN [remaining |-> Limit - Len(counted), wait |-> None]
                ELSE [remaining |-> 0, wait |-> RetryAfter(times)]]
        /\ answer' = [allowed |-> allowed, entitled |-> Entitled(k)]

Older(t) == IF t < Window THEN t + 1 ELSE t

\* A tick of time.monotonic.
Elapse ==
    /\ windows' = [i \in DOMAIN windows |->
                    [windows[i] EXCEPT !.times = [n \in DOMAIN @ |-> Older(@[n])]]]
    /\ admitted' = [k \in Clients |->
                    Only([n \in DOMAIN admitted[k] |-> Older(admitted[k][n])],
                         {t \in Age : t < Window})]
    /\ told' = [k \in Clients |->
                    IF told[k] = None \/ told[k].wait \in {None, 0} THEN told[k]
                    ELSE [told[k] EXCEPT !.wait = @ - 1]]
    /\ answer' = None

LimiterNext == Elapse \/ \E k \in Clients : Check(k)

-----------------------------------------------------------------------------
(* Properties *)

LimiterTypeOK ==
    /\ windows \in Seq([key : Clients, times : Seq(Age)])
    /\ admitted \in [Clients -> Seq(Age)]
    /\ told \in [Clients -> Told \union {None}]
    /\ answer \in [allowed : BOOLEAN, entitled : BOOLEAN] \union {None}

\* A client is admitted at most Limit times in any window, wherever the window
\* begins, unless it was forgotten in between; no more keys are tracked than allowed;
\* and the headers are true: a client that has requests remaining, or comes back when
\* its delay is over, is admitted, though others make the limiter forget windows.
LimitKept ==
    /\ \A k \in Clients : Len(admitted[k]) <= Limit
    /\ Len(windows) <= MaxTrackedKeys
    /\ answer # None => (answer.entitled => answer.allowed)
=============================================================================
