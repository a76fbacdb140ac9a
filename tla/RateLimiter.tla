---------------------------- MODULE RateLimiter -----------------------------
(***************************************************************************)
(* RateLimiter of app/observability.py: a sliding window of `limit` checks *)
(* per `window_seconds` and key, kept in one process. `check` has no await *)
(* in it, so on the event loop it is one step. Time is time.monotonic() in *)
(* ticks; two checks may fall on one tick.                                 *)
(***************************************************************************)
EXTENDS Integers, Sequences, FiniteSets

CONSTANTS
  Keys,     \* user ids
  limit,    \* chat_rate_limit
  window,   \* chat_rate_window_seconds, in ticks
  MaxTime,  \* bound on the clock, for TLC
  MaxBoots  \* bound on the restarts, for TLC

ASSUME LimiterAssumption ==
  /\ limit \in Nat
  /\ window \in Nat \ {0}
  /\ MaxTime \in Nat
  /\ MaxBoots \in Nat

VARIABLES
  now,       \* the clock
  hits,      \* hits[k]: the deque of a key
  admitted,  \* history: when each key was let through, since the process started
  earlier,   \* history: the same, since the first process started
  last,      \* history: the last check of a key, if it has been checked
  boots      \* restarts so far

vars == <<now, hits, admitted, earlier, last, boots>>

Init ==
  /\ now = 0
  /\ hits = [k \in Keys |-> <<>>]
  /\ admitted = [k \in Keys |-> <<>>]
  /\ earlier = [k \in Keys |-> <<>>]
  /\ last = [k \in Keys |-> [at |-> 0, passed |-> TRUE]]
  /\ boots = 0

Tick ==
  /\ now < MaxTime
  /\ now' = now + 1
  /\ UNCHANGED <<hits, admitted, earlier, last, boots>>

\* Mutant of Pops: a hit exactly as old as the window stays.
PopsStrictly(bucket, n) ==
  LET cutoff == now - window
  IN /\ n \in 0..Len(bucket)
     /\ \A i \in 1..n : bucket[i] < cutoff
     /\ n < Len(bucket) => bucket[n + 1] >= cutoff

\* Mutant of Pops: a hit one tick short of leaving the window is popped.
PopsEarly(bucket, n) ==
  LET cutoff == now - window + 1
  IN /\ n \in 0..Len(bucket)
     /\ \A i \in 1..n : bucket[i] <= cutoff
     /\ n < Len(bucket) => bucket[n + 1] > cutoff

\* while bucket and bucket[0] <= cutoff: bucket.popleft() stops after n pops.
Pops(bucket, n) ==
  LET cutoff == now - window
  IN /\ n \in 0..Len(bucket)
     /\ \A i \in 1..n : bucket[i] <= cutoff
     /\ n < Len(bucket) => bucket[n + 1] > cutoff

Rest(bucket, n) == SubSeq(bucket, n + 1, Len(bucket))

\* What is left of the deque has room for one more hit.
Admit(k) ==
  \E n \in 0..Len(hits[k]) :
    /\ Pops(hits[k], n)
    /\ Len(Rest(hits[k], n)) < limit
    /\ hits' = [hits EXCEPT ![k] = Append(Rest(hits[k], n), now)]
    /\ admitted' = [admitted EXCEPT ![k] = Append(@, now)]
    /\ earlier' = [earlier EXCEPT ![k] = Append(@, now)]
    /\ last' = [last EXCEPT ![k] = [at |-> now, passed |-> TRUE]]
    /\ UNCHANGED <<now, boots>>

\* HTTPException 429; what was popped stays popped, and the check is no hit.
Refuse(k) ==
  \E n \in 0..Len(hits[k]) :
    /\ Pops(hits[k], n)
    /\ Len(Rest(hits[k], n)) >= limit
    /\ hits' = [hits EXCEPT ![k] = Rest(hits[k], n)]
    /\ last' = [last EXCEPT ![k] = [at |-> now, passed |-> FALSE]]
    /\ UNCHANGED <<now, admitted, earlier, boots>>

check(k) == Admit(k) \/ Refuse(k)

\* A new process starts with an empty limiter.
Restart ==
  /\ boots < MaxBoots
  /\ boots' = boots + 1
  /\ hits' = [k \in Keys |-> <<>>]
  /\ admitted' = [k \in Keys |-> <<>>]
  /\ last' = [k \in Keys |-> [at |-> now, passed |-> TRUE]]
  /\ UNCHANGED <<now, earlier>>

Next == Tick \/ (\E k \in Keys : check(k)) \/ Restart

Spec == Init /\ [][Next]_vars

-----------------------------------------------------------------------------
(* Correctness.                                                            *)

Times == Seq(0..MaxTime)

\* Shapes, and the deque of a key never outgrows the limit.
TypeOK ==
  /\ now \in 0..MaxTime
  /\ hits \in [Keys -> Times]
  /\ admitted \in [Keys -> Times]
  /\ earlier \in [Keys -> Times]
  /\ last \in [Keys -> [at : 0..MaxTime, passed : BOOLEAN]]
  /\ boots \in 0..MaxBoots
  /\ \A k \in Keys : Len(hits[k]) <= limit

\* At most `limit` of the times in log lie in any stretch shorter than the
\* window.
Sparse(log) ==
  \A i \in 1..Len(log) : i + limit <= Len(log) => log[i + limit] - log[i] >= window

\* One process lets a user through at most `limit` times in any window, not
\* just in windows that start at fixed times; popping loses no hit that counts.
WindowBound == \A k \in Keys : Sparse(admitted[k])

\* A user is refused only for being at the limit: the window that ends with the
\* refused check holds `limit` admissions. Refused checks, and hits as old as
\* the window, do not count against anyone.
RefusedAtLimitOnly ==
  \A k \in Keys : ~last[k].passed =>
    Cardinality({i \in 1..Len(admitted[k]) :
                   admitted[k][i] > last[k].at - window /\ admitted[k][i] <= last[k].at})
      >= limit

\* What ties the deque to the history: it is the end of the log, in order, and
\* what it lacks has left the window.
DequeIsRecentLog ==
  \A k \in Keys :
    LET dropped == Len(admitted[k]) - Len(hits[k])
    IN /\ dropped >= 0
       /\ \A i \in 1..Len(hits[k]) : hits[k][i] = admitted[k][dropped + i]
       /\ \A i \in 1..dropped : admitted[k][i] + window <= now

\* README.md:165 says the container is stateless; the limiter is its state. Each
\* restart gives a user at most `limit` more admissions in a window, no more.
WindowBoundAcrossRestarts ==
  \A k \in Keys : \A i \in 1..Len(earlier[k]) :
    LET j == i + limit * (boots + 1)
    IN j <= Len(earlier[k]) => earlier[k][j] - earlier[k][i] >= window

\* The log `own` of the running process is the end of the whole log, whose times
\* are in order and not after t; what the earlier processes have logged keeps to
\* m admissions in a window.
Continues(own, log, m, t) ==
  LET past == Len(log) - Len(own)
  IN /\ past >= 0
     /\ \A i \in 1..Len(own) : own[i] = log[past + i]
     /\ \A i \in 1..Len(log) : log[i] <= t /\ \A j \in i..Len(log) : log[i] <= log[j]
     /\ \A i \in 1..past : i + m <= past => log[i + m] - log[i] >= window

LogsContinue == \A k \in Keys : Continues(admitted[k], earlier[k], limit * boots, now)

\* Deque, logs and last checks agree, so that the bounds survive any step.
IndInv ==
  TypeOK /\ DequeIsRecentLog /\ WindowBound /\ LogsContinue /\ RefusedAtLimitOnly

=============================================================================
