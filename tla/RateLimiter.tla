---------------------------- MODULE RateLimiter -----------------------------
(***************************************************************************)
(* app/services/rate_limiter.py: the sliding window that create_job and    *)
(* inspect_media ask before they do anything (_enforce_rate_limit).        *)
(*                                                                         *)
(* Request threads call check(key).  It reads the clock first and takes    *)
(* the lock afterwards, so the events of a key need not be in the order of *)
(* their times.  Time advances in ticks; the limiter answers in seconds.   *)
(***************************************************************************)
EXTENDS Integers, Sequences

CONSTANTS
    Threads,         \* request threads
    Keys,            \* client addresses
    Limit,           \* job_create_rate_limit_count
    Window,          \* job_create_rate_limit_window_seconds
    TicksPerSecond,  \* resolution of the clock
    MaxSkew,         \* bound: ticks between reading the clock and having the lock
    MaxTime          \* bound: ticks on the clock

ASSUME LimiterAssumption ==
    /\ Limit \in Nat \ {0} /\ Window \in Nat \ {0}
    /\ TicksPerSecond \in Nat \ {0}
    /\ MaxSkew \in Nat /\ MaxTime \in Nat

VARIABLES
    clock,     \* time.monotonic()
    reading,   \* per thread: its key and the time it read, before it has the lock
    events,    \* per key: the deque; a key without entry has an empty one
    admitted,  \* history, per key: the times of all calls that were allowed
    promised   \* history, per key: when the last refused caller was told to retry

limiterVars == <<clock, reading, events, admitted, promised>>

WindowTicks == Window * TicksPerSecond
NotCalling == [key |-> "none"]
NoPromise == -1

LimiterInit ==
    /\ clock = 0
    /\ reading = [t \in Threads |-> NotCalling]
    /\ events = [k \in Keys |-> <<>>]
    /\ admitted = [k \in Keys |-> <<>>]
    /\ promised = [k \in Keys |-> NoPromise]

Calling(t) == reading[t] # NotCalling

\* now = time.monotonic(), before the lock.
ReadClock(t, k) ==
    /\ ~Calling(t)
    /\ reading' = [reading EXCEPT ![t] = [key |-> k, now |-> clock]]
    /\ UNCHANGED <<clock, events, admitted, promised>>

\* Mutant of Pruned: the first event decides, as in the popleft loop.
PrunedByFirst(cutoff) ==
    [k \in Keys |-> IF events[k] = <<>> \/ events[k][1] <= cutoff
                    THEN <<>> ELSE events[k]]

\* _prune_stale_keys: it looks at the last event of each key, not at all.
Pruned(cutoff) ==
    [k \in Keys |-> IF events[k] = <<>> \/ events[k][Len(events[k])] <= cutoff
                    THEN <<>> ELSE events[k]]

\* Mutant of Popped: a deque is emptied or left alone.
NothingPopped(deque, cutoff, n) == n = 0

\* The popleft loop ends at the first event that is later than the cutoff.
Popped(deque, cutoff, n) ==
    /\ n \in 0..Len(deque)
    /\ \A i \in 1..n : deque[i] <= cutoff
    /\ n < Len(deque) => deque[n + 1] > cutoff

\* Mutant of RetryAfter: rounded down.
RetryAfterFloor(wait) ==
    LET floor == wait \div TicksPerSecond IN IF floor > 1 THEN floor ELSE 1

\* retry_after_seconds: the wait for the oldest event, in whole seconds.
RetryAfter(wait) ==
    LET ceiling == (wait + TicksPerSecond - 1) \div TicksPerSecond
    IN  IF ceiling > 1 THEN ceiling ELSE 1

\* Mutant of Allow: off by one.
AllowOneMore(k, now, live) ==
    /\ Len(live) <= Limit
    /\ events' = [Pruned(now - WindowTicks) EXCEPT ![k] = Append(live, now)]
    /\ admitted' = [admitted EXCEPT ![k] = Append(@, now)]
    /\ promised' = [promised EXCEPT ![k] = NoPromise]

Allow(k, now, live) ==
    /\ Len(live) < Limit
    /\ events' = [Pruned(now - WindowTicks) EXCEPT ![k] = Append(live, now)]
    /\ admitted' = [admitted EXCEPT ![k] = Append(@, now)]
    /\ promised' = [promised EXCEPT ![k] = NoPromise]

TurnAway(k, now, live) ==
    /\ Len(live) >= Limit
    /\ events' = [Pruned(now - WindowTicks) EXCEPT ![k] = live]
    /\ promised' = [promised EXCEPT ![k] =
           now + TicksPerSecond * RetryAfter(WindowTicks - (now - live[1]))]
    /\ UNCHANGED admitted

\* The rest of check, under the lock.
Check(t) ==
    /\ Calling(t)
    /\ LET k == reading[t].key
           now == reading[t].now
           deque == Pruned(now - WindowTicks)[k]
       IN  \E n \in 0..Len(deque) :
               /\ Popped(deque, now - WindowTicks, n)
               /\ LET live == SubSeq(deque, n + 1, Len(deque))
                  IN  Allow(k, now, live) \/ TurnAway(k, now, live)
    /\ reading' = [reading EXCEPT ![t] = NotCalling]
    /\ UNCHANGED clock

\* A thread that read the clock has the lock within MaxSkew ticks.
Tick ==
    /\ clock < MaxTime
    /\ \A t \in Threads : Calling(t) => clock < reading[t].now + MaxSkew
    /\ clock' = clock + 1
    /\ UNCHANGED <<reading, events, admitted, promised>>

LimiterNext ==
    \/ \E t \in Threads, k \in Keys : ReadClock(t, k)
    \/ \E t \in Threads : Check(t)
    \/ Tick

LimiterSpec == LimiterInit /\ [][LimiterNext]_limiterVars

-----------------------------------------------------------------------------
(* Properties *)

Readings == {NotCalling} \cup [key : Keys, now : 0..MaxTime]

LimiterTypeOK ==
    /\ clock \in 0..MaxTime
    /\ reading \in [Threads -> Readings]
    /\ events \in [Keys -> Seq(0..MaxTime)]
    /\ admitted \in [Keys -> Seq(0..MaxTime)]
    /\ promised \in [Keys -> Int]
    /\ \A k \in Keys : Len(events[k]) <= Limit

\* What remains of the window when times are out of order: pruning may forget an
\* event MaxSkew too early, and the call that profits may carry a time MaxSkew old.
Spacing == WindowTicks - 2 * MaxSkew

\* No Limit + 1 admitted calls of a client fall into a window of Spacing, although
\* the clock is read outside the lock and stale keys are recognised by their last
\* event alone.
WindowBound ==
    \A k \in Keys : \A i, j \in DOMAIN admitted[k] :
        i + Limit <= j => admitted[k][i] + Spacing <= admitted[k][j]

\* No client is turned away without cause: the last Limit calls admitted for its
\* address are later than a window and MaxSkew before its reading, although they are
\* not in the order of their times and only the first ones are popped.
RefusalsAreDue ==
    [][\A t \in Threads :
           /\ Calling(t) /\ ~Calling(t)'
           /\ admitted'[reading[t].key] = admitted[reading[t].key]
           => LET calls == admitted[reading[t].key]
              IN  /\ Len(calls) >= Limit
                  /\ \A i \in DOMAIN calls : i + Limit > Len(calls) =>
                         calls[i] > reading[t].now - WindowTicks - MaxSkew]_limiterVars

\* A client that waits as long as Retry-After told it, and whose address got no
\* call through meanwhile, is not refused again.
RetryIsHonest ==
    [][\A t \in Threads :
           /\ Calling(t) /\ ~Calling(t)'
           /\ promised[reading[t].key] # NoPromise
           /\ promised[reading[t].key] <= reading[t].now
           => promised'[reading[t].key] = NoPromise]_limiterVars

=============================================================================
