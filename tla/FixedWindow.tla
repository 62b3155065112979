----------------------------- MODULE FixedWindow -----------------------------
(***************************************************************************)
(* The counter of one key in ratelimit/fixedwindow/fixedwindow.go.         *)
(***************************************************************************)
EXTENDS Integers

CONSTANTS Limit, Window, IdleClean

VARIABLES now, counter

\* The key is not in the map.
Gone == [present |-> FALSE, count |-> 0, windowStart |-> 0, lastAccess |-> 0]

Init == counter = Gone

WindowStart(t) == (t \div Window) * Window

GetOrCreate ==
  IF counter.present THEN counter
  ELSE [present |-> TRUE, count |-> 0, windowStart |-> WindowStart(now), lastAccess |-> now]

\* What consume finds counted in the window of time t.
Count(t) == IF counter.windowStart = WindowStart(t) THEN counter.count ELSE 0

\* Variant: a request is let in whenever there is room for one.
AllowsAny(n, t) == Count(t) < Limit

Allows(n, t) == Count(t) + n <= Limit

RetryAfter(n, t) == WindowStart(t) + Window - t

AllowN(n) ==
  counter' = [GetOrCreate EXCEPT !.count = Count(now) + (IF Allows(n, now) THEN n ELSE 0),
                                 !.windowStart = WindowStart(now), !.lastAccess = now]

\* Peek counts without writing, but creates the counter.
Peek == counter' = GetOrCreate

Reset == counter' = Gone

\* The cleaner finds the counter idle.
Evict ==
  /\ counter.present /\ counter.lastAccess < now - IdleClean
  /\ counter' = Gone
=============================================================================
