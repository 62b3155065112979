--------------------------- MODULE SlidingWindowLog ---------------------------
(***************************************************************************)
(* The timestamps of one key in ratelimit/slidingwindow/log.go.            *)
(***************************************************************************)
EXTENDS Integers, Sequences

CONSTANTS Limit, Window

VARIABLES now, keyLog

\* The key is not in the map.
Gone == [present |-> FALSE, timestamps |-> << >>, lastAccess |-> 0]

Init == keyLog = Gone

GetOrCreate == IF keyLog.present THEN keyLog ELSE [Gone EXCEPT !.present = TRUE, !.lastAccess = now]

\* sort.Search: the first timestamp that is not before the cutoff.
Search(cutoff) ==
  CHOOSE i \in 1..(Len(keyLog.timestamps) + 1) :
    /\ \A j \in 1..(i - 1) : keyLog.timestamps[j] < cutoff
    /\ i <= Len(keyLog.timestamps) => keyLog.timestamps[i] >= cutoff

\* Variant: a timestamp as old as the window has left it.
PrunedAtBoundary(t) == SubSeq(keyLog.timestamps, Search(t - Window + 1), Len(keyLog.timestamps))

\* pruneLocked: the timestamps are sorted, and those before the cutoff go.
Pruned(t) == SubSeq(keyLog.timestamps, Search(t - Window), Len(keyLog.timestamps))

Allows(n, t) == Len(Pruned(t)) + n <= Limit

\* The wait for the oldest timestamp, whatever n is.
RetryAfter(n, t) == IF Pruned(t) = << >> THEN 0 ELSE Pruned(t)[1] + Window - t

AllowN(n) ==
  keyLog' = [present |-> TRUE, lastAccess |-> now,
             timestamps |-> Pruned(now) \o [i \in 1..(IF Allows(n, now) THEN n ELSE 0) |-> now]]

\* Peek prunes, and does not count as an access.
Peek == keyLog' = [GetOrCreate EXCEPT !.timestamps = Pruned(now)]

Reset == keyLog' = Gone

\* The cleaner finds the log idle for two windows.
Evict ==
  /\ keyLog.present /\ keyLog.lastAccess < now - 2 * Window
  /\ keyLog' = Gone
=============================================================================
