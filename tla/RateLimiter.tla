----------------------------- MODULE RateLimiter -----------------------------
(***************************************************************************)
(* InMemoryLimiter: per subject, a queue of the times of the requests that  *)
(* were let through.  `allow` and the cleanup task read the clock before    *)
(* they wait for the lock of the map, so stamps may enter the queue out of  *)
(* order, and a caller may work with a time that another has overtaken.     *)
(***************************************************************************)
EXTENDS Clock, Integers, Sequences, FiniteSets

CONSTANTS
    Subjects,             \* formatted subjects
    requests_per_minute,  \* the limit
    window_duration       \* the sliding window

ASSUME LimiterAssumption ==
    /\ requests_per_minute \in Nat
    /\ window_duration \in Nat /\ MaxDelay <= window_duration

VARIABLES
    windows,   \* windows[s]: stamps of the requests of subject s, as queued
    granted    \* history: granted[s], when the last requests of s were let through

limiterVars == <<windows, granted>>

LimiterTypes ==
    /\ windows \in [Subjects -> Seq(Nat)]
    /\ \A s \in Subjects : Len(windows[s]) <= requests_per_minute
    /\ granted \in [Subjects -> Seq(Nat)]

LimiterInit ==
    /\ windows = [s \in Subjects |-> <<>>]
    /\ granted = [s \in Subjects |-> <<>>]

\* Mutant: a stamp at the very edge of the window is dropped.
PopAtCutoff(stamps, cutoff) ==
    LET live == {i \in 1..Len(stamps) : stamps[i] > cutoff}
        front == CHOOSE i \in live : \A j \in live : i <= j
    IN  IF live = {} THEN <<>> ELSE SubSeq(stamps, front, Len(stamps))

\* Mutant: expired stamps stay.
PopNothing(stamps, cutoff) == stamps

\* Stamps before the cutoff leave, as long as they are at the front.
PopExpired(stamps, cutoff) ==
    LET live == {i \in 1..Len(stamps) : stamps[i] >= cutoff}
        front == CHOOSE i \in live : \A j \in live : i <= j
    IN  IF live = {} THEN <<>> ELSE SubSeq(stamps, front, Len(stamps))

Kept(s, now) == PopExpired(windows[s], now - window_duration)

\* The grants that may still count.
Recent(times) == PopExpired(times, clock - window_duration - MaxDelay)

\* `allow`, once it has the lock, for a caller that read the clock at `now`.
AllowRequest(s, now) ==
    /\ Len(Kept(s, now)) < requests_per_minute
    /\ windows' = [windows EXCEPT ![s] = Append(Kept(s, now), now)]
    /\ granted' = [granted EXCEPT ![s] = Append(Recent(@), clock)]

DenyRequest(s, now) ==
    /\ Len(Kept(s, now)) >= requests_per_minute
    /\ windows' = [windows EXCEPT ![s] = Kept(s, now)]
    /\ UNCHANGED granted

\* The cleanup task read the clock at most MaxDelay before it has the lock.  An
\* entry without stamps is the same as none.
Sweep ==
    /\ \E now \in (clock - MaxDelay)..clock : windows' = [s \in Subjects |-> Kept(s, now)]
    /\ UNCHANGED granted

\* No more requests than the limit are let through within the window, less what
\* a request may wait for the lock: whatever the order in which stamps are
\* queued, none is dropped while it counts (allow, the cleanup task).
RateLimitHolds ==
    \A s \in Subjects : \A i \in 1..Len(granted[s]) :
        Cardinality({j \in 1..i : granted[s][j] >= granted[s][i] - (window_duration - MaxDelay)})
            <= requests_per_minute

\* The limit has been used up within the window that ends at `now`.
UsedUp(s, now) ==
    Cardinality({i \in 1..Len(granted[s]) : granted[s][i] >= now - window_duration})
        >= requests_per_minute
=============================================================================
