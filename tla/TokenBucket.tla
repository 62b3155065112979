----------------------------- MODULE TokenBucket -----------------------------
(***************************************************************************)
(* The bucket of one key in ratelimit/tokenbucket/tokenbucket.go.  The     *)
(* refill rate is one token every Interval ticks, and tokens are counted   *)
(* in the ticks it takes to refill them: a token is Interval units, and    *)
(* one unit is refilled a tick.                                            *)
(***************************************************************************)
EXTENDS Integers

CONSTANTS Capacity, Interval, IdleClean

VARIABLES now, bucket

\* The key is not in the map.
Gone == [present |-> FALSE, tokens |-> 0, lastRefill |-> 0, lastAccess |-> 0]

Init == bucket = Gone

Full == Capacity * Interval

\* getOrCreate: a new bucket is full.
GetOrCreate(t) ==
  IF bucket.present THEN bucket
  ELSE [present |-> TRUE, tokens |-> Full, lastRefill |-> t, lastAccess |-> t]

\* Variant: the refill is not capped.
RefillUncapped(b, t) ==
  [b EXCEPT !.tokens = b.tokens + (t - b.lastRefill), !.lastRefill = t, !.lastAccess = t]

\* refill, at time t
Refill(b, t) ==
  LET sum == b.tokens + (t - b.lastRefill) IN
  [b EXCEPT !.tokens = IF sum > Full THEN Full ELSE sum, !.lastRefill = t, !.lastAccess = t]

Balance(t) == Refill(GetOrCreate(t), t).tokens

\* The decision of consume on n tokens at time t, and its RetryAfter when it
\* denies: time for a refill, or a meaningless one when n can never be met.
Allows(n, t) == n <= Capacity /\ Balance(t) >= n * Interval

RetryAfter(n, t) ==
  IF n > Capacity THEN (n - Capacity) * Interval ELSE n * Interval - Balance(t)

\* AllowN, and each attempt of WaitN.  A request for more than the capacity
\* is denied before the bucket is touched.
AllowN(n) ==
  LET b == GetOrCreate(now) IN
  bucket' = IF n > Capacity THEN b
            ELSE [Refill(b, now) EXCEPT !.tokens = @ - (IF Allows(n, now) THEN n * Interval ELSE 0)]

\* Peek refills, and so counts as an access.
Peek == bucket' = Refill(GetOrCreate(now), now)

Reset == bucket' = Gone

\* The cleaner finds the bucket idle.
Evict ==
  /\ bucket.present /\ bucket.lastAccess < now - IdleClean
  /\ bucket' = Gone
=============================================================================
