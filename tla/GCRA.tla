-------------------------------- MODULE GCRA --------------------------------
(***************************************************************************)
(* The entry of one key in ratelimit/gcra/gcra.go: a theoretical arrival   *)
(* time.  Interval is emissionInterval; the clock starts at 0, so a zero   *)
(* tat is never in the future.                                             *)
(***************************************************************************)
EXTENDS Integers

CONSTANTS Burst, Interval, IdleClean

VARIABLES now, entry

\* The key is not in the map.
Gone == [present |-> FALSE, tat |-> 0, lastAccess |-> 0]

Init == entry = Gone

GetOrCreate == IF entry.present THEN entry ELSE [Gone EXCEPT !.present = TRUE, !.lastAccess = now]

\* Variant: without maxTime, an idle key saves up credit.
CandidateFromStored(n, t) == (IF entry.tat = 0 THEN t ELSE entry.tat) + n * Interval

\* The tat after n requests at time t.
Candidate(n, t) == (IF entry.tat > t THEN entry.tat ELSE t) + n * Interval

LimitWindow(t) == t + Burst * Interval

\* The decision of AllowN on n requests at time t, and its RetryAfter when it
\* denies; n above the burst is denied without looking at the entry.
Allows(n, t) == n <= Burst /\ Candidate(n, t) <= LimitWindow(t)

\* Variant: the wait for the whole backlog, without the head start of a burst.
RetryAfterBacklog(n, t) == IF n > Burst THEN 0 ELSE Candidate(n, t) - t

RetryAfter(n, t) == IF n > Burst THEN 0 ELSE Candidate(n, t) - LimitWindow(t)

AllowN(n) ==
  entry' = IF n > Burst THEN entry
           ELSE [GetOrCreate EXCEPT !.lastAccess = now,
                                    !.tat = IF Allows(n, now) THEN Candidate(n, now) ELSE @]

Peek == entry' = GetOrCreate

Reset == entry' = Gone

\* The cleaner finds the entry idle.
Evict ==
  /\ entry.present /\ entry.lastAccess < now - IdleClean
  /\ entry' = Gone
=============================================================================
