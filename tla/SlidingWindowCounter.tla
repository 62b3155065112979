------------------------- MODULE SlidingWindowCounter -------------------------
(***************************************************************************)
(* The two counters of one key in ratelimit/slidingwindow/counter.go.      *)
(* effective_count is a fraction with denominator Window; it is compared   *)
(* after multiplying by Window.                                            *)
(***************************************************************************)
EXTENDS Integers

CONSTANTS Limit, Window

VARIABLES now, counters

\* The key is not in the map.
Gone == [present |-> FALSE, current |-> 0, previous |-> 0, windowStart |-> 0, lastAccess |-> 0]

Init == counters = Gone

WindowStart(t) == (t \div Window) * Window

Elapsed(t) == t - WindowStart(t)

GetOrCreate(t) ==
  IF counters.present THEN counters
  ELSE [Gone EXCEPT !.present = TRUE, !.windowStart = WindowStart(t), !.lastAccess = t]

\* Variant: a new window starts from nothing.
RolledAfresh(t) ==
  LET kc == GetOrCreate(t) IN
  IF kc.windowStart = WindowStart(t) THEN kc
  ELSE [kc EXCEPT !.previous = 0, !.current = 0, !.windowStart = WindowStart(t)]

\* effectiveCountLocked moves to the window of time t; the current count is
\* kept only if its window is the one before.
Rolled(t) ==
  LET kc == GetOrCreate(t) IN
  IF kc.windowStart = WindowStart(t) THEN kc
  ELSE [kc EXCEPT !.previous = IF kc.windowStart = WindowStart(t) - Window THEN kc.current ELSE 0,
                  !.current = 0, !.windowStart = WindowStart(t)]

EffectiveTimesWindow(t) ==
  Rolled(t).previous * (Window - Elapsed(t)) + Rolled(t).current * Window

Allows(n, t) == EffectiveTimesWindow(t) + n * Window <= Limit * Window

\* When the previous window cannot make room, the wait for the next window;
\* otherwise the wait until it weighs no more than what is left.
RetryAfter(n, t) ==
  LET kc == Rolled(t)
      allowedPrev == Limit - n - kc.current
  IN  IF allowedPrev < 0 \/ kc.previous = 0
        THEN Window - Elapsed(t)
        ELSE (Window * (kc.previous - allowedPrev) - Elapsed(t) * kc.previous) \div kc.previous

AllowN(n) ==
  counters' = [Rolled(now) EXCEPT !.lastAccess = now,
                                  !.current = @ + (IF Allows(n, now) THEN n ELSE 0)]

\* Peek rolls the windows, and does not count as an access.
Peek == counters' = Rolled(now)

Reset == counters' = Gone

\* The cleaner finds the counters idle for five windows.
Evict ==
  /\ counters.present /\ counters.lastAccess < now - 5 * Window
  /\ counters' = Gone
=============================================================================
