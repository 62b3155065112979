----------------------------- MODULE RateLimiters -----------------------------
(***************************************************************************)
(* The in-memory rate limiters, fed requests for one key, with the record  *)
(* of what each of them has admitted lately.  A decision is atomic in the  *)
(* code (it is made under the mutex of the key's object).  The lookup of   *)
(* the object in the map comes before that lock; it is taken as part of    *)
(* the same step, so no object is used here after it has left the map.     *)
(* The limiters share nothing but the clock, so a behaviour exercises one  *)
(* of them, or the two that are compared, which get the same requests.     *)
(***************************************************************************)
EXTENDS Integers, Sequences, Functions

CONSTANTS
  Limit, Window,        \* of the window limiters
  Capacity, Interval,   \* of the token bucket, and of the GCRA as its burst
  IdleClean,            \* of the limiters that have one
  Costs,                \* the n of the requests
  Horizon,              \* how far back the admissions are remembered
  MaxNow                \* bound: the last instant

ASSUME LimiterAssumption ==
  /\ Limit \in Nat \ {0} /\ Window \in Nat \ {0}
  /\ Capacity \in Nat \ {0} /\ Interval \in Nat \ {0}
  /\ IdleClean \in Nat /\ MaxNow \in Nat
  /\ Horizon \in Nat /\ Horizon >= Window
  /\ Costs \subseteq Nat \ {0}

VARIABLES
  tested,    \* the limiters this behaviour exercises
  now,
  bucket, entry, counter, keyLog, counters,   \* the object of the key in each limiter
  admitted   \* per limiter: the amount admitted k ticks ago

vars == <<tested, now, bucket, entry, counter, keyLog, counters, admitted>>

TB == INSTANCE TokenBucket
GC == INSTANCE GCRA WITH Burst <- Capacity
FW == INSTANCE FixedWindow
SL == INSTANCE SlidingWindowLog
SC == INSTANCE SlidingWindowCounter

Limiters == {"tokenbucket", "gcra", "fixedwindow", "log", "counter"}

Groups == {{"tokenbucket", "gcra"}, {"fixedwindow"}, {"log"}, {"counter"}}

Allows(l, n, t) ==
  CASE l = "tokenbucket" -> TB!Allows(n, t)
    [] l = "gcra"        -> GC!Allows(n, t)
    [] l = "fixedwindow" -> FW!Allows(n, t)
    [] l = "log"         -> SL!Allows(n, t)
    [] l = "counter"     -> SC!Allows(n, t)

RetryAfter(l, n, t) ==
  CASE l = "tokenbucket" -> TB!RetryAfter(n, t)
    [] l = "gcra"        -> GC!RetryAfter(n, t)
    [] l = "fixedwindow" -> FW!RetryAfter(n, t)
    [] l = "log"         -> SL!RetryAfter(n, t)
    [] l = "counter"     -> SC!RetryAfter(n, t)

Nothing == [k \in 0..Horizon |-> 0]

Init ==
  /\ tested \in Groups
  /\ now = 0
  /\ TB!Init /\ GC!Init /\ FW!Init /\ SL!Init /\ SC!Init
  /\ admitted = [l \in Limiters |-> Nothing]

\* The step of limiter l on its variable, if it is exercised.
On(l, Action, variable) == IF l \in tested THEN Action ELSE UNCHANGED variable

Request(n) ==
  /\ On("tokenbucket", TB!AllowN(n), bucket)
  /\ On("gcra", GC!AllowN(n), entry)
  /\ On("fixedwindow", FW!AllowN(n), counter)
  /\ On("log", SL!AllowN(n), keyLog)
  /\ On("counter", SC!AllowN(n), counters)
  /\ admitted' = [l \in Limiters |->
                    IF l \in tested /\ Allows(l, n, now) THEN [admitted[l] EXCEPT ![0] = @ + n]
                    ELSE admitted[l]]
  /\ UNCHANGED <<tested, now>>

Peek ==
  /\ On("tokenbucket", TB!Peek, bucket)
  /\ On("gcra", GC!Peek, entry)
  /\ On("fixedwindow", FW!Peek, counter)
  /\ On("log", SL!Peek, keyLog)
  /\ On("counter", SC!Peek, counters)
  /\ UNCHANGED <<tested, now, admitted>>

\* After a Reset the key may start again, and so does the record.
Reset ==
  /\ TB!Reset /\ GC!Reset /\ FW!Reset /\ SL!Reset /\ SC!Reset
  /\ admitted' = [l \in Limiters |-> Nothing]
  /\ UNCHANGED <<tested, now>>

\* The cleaners run on their own.
Evict ==
  /\ \/ TB!Evict /\ UNCHANGED <<entry, counter, keyLog, counters>>
     \/ GC!Evict /\ UNCHANGED <<bucket, counter, keyLog, counters>>
     \/ FW!Evict /\ UNCHANGED <<bucket, entry, keyLog, counters>>
     \/ SL!Evict /\ UNCHANGED <<bucket, entry, counter, counters>>
     \/ SC!Evict /\ UNCHANGED <<bucket, entry, counter, keyLog>>
  /\ UNCHANGED <<tested, now, admitted>>

Tick ==
  /\ now < MaxNow
  /\ now' = now + 1
  /\ admitted' = [l \in Limiters |->
                    [k \in 0..Horizon |-> IF k = 0 THEN 0 ELSE admitted[l][k - 1]]]
  /\ UNCHANGED <<tested, bucket, entry, counter, keyLog, counters>>

Next == (\E n \in Costs : Request(n)) \/ Peek \/ Reset \/ Evict \/ Tick

Spec == Init /\ [][Next]_vars

-----------------------------------------------------------------------------
(* Properties                                                               *)

\* What limiter l admitted from i ticks ago to j ticks ago.
Admitted(l, i, j) == SumFunctionOnSet(admitted[l], i..j)

(***************************************************************************)
(* Token bucket and GCRA admit, over any span of d ticks, no more than a   *)
(* full burst and what the rate adds in d ticks (admission_test.go: "total *)
(* tokens ever consumed <= capacity + refillRate*elapsedSecs"), also when  *)
(* the cleaner forgets the key meanwhile.                                  *)
(***************************************************************************)
ConformsToRate ==
  \A l \in tested \cap {"tokenbucket", "gcra"}, i, j \in 0..Horizon :
    i <= j => Admitted(l, i, j) * Interval <= Capacity * Interval + (j - i)

(***************************************************************************)
(* GCRA with a burst decides every request as the token bucket of that     *)
(* capacity and rate does, whatever came before: consume of gcra.go and    *)
(* consume of tokenbucket.go are two forms of one algorithm.               *)
(***************************************************************************)
DecideAlike ==
  \A n \in Costs : GC!Allows(n, now) <=> TB!Allows(n, now)

(***************************************************************************)
(* "admitted within any single window index never exceeds limit"           *)
(* (admission_test.go, of the fixed window).                               *)
(***************************************************************************)
AtMostLimitPerWindow == Admitted("fixedwindow", 0, now % Window) <= Limit

(***************************************************************************)
(* The sliding log is exact: it admits a request if and only if the limit  *)
(* is not exceeded with it in the window that ends now, both ends included *)
(* (log.go: "Exact - never over-allows, even at window boundaries").       *)
(***************************************************************************)
SlidingLogExact ==
  \A n \in Costs : SL!Allows(n, now) <=> Admitted("log", 0, Window) + n <= Limit

(***************************************************************************)
(* How approximate the sliding counter is: any span of one window gets     *)
(* less than twice the limit, and no aligned window more than the limit.   *)
(***************************************************************************)
SlidingCounterBound ==
  /\ Admitted("counter", 0, Window - 1) < 2 * Limit
  /\ Admitted("counter", 0, now % Window) <= Limit

Denied(l, n) == ~Allows(l, n, now)

(***************************************************************************)
(* "RetryAfter is the minimum wait before this key will be allowed again"  *)
(* (limiter.go): a denied request that comes again earlier is denied, for  *)
(* every limiter.  Token bucket, GCRA and fixed window also admit it after *)
(* that wait, if it can be admitted at all.                                *)
(***************************************************************************)
RetryAfterIsMinimum ==
  \A l \in tested, n \in Costs : Denied(l, n) =>
    /\ \A d \in 0..(RetryAfter(l, n, now) - 1) : ~Allows(l, n, now + d)
    /\ l \in {"tokenbucket", "gcra"} /\ n <= Capacity => Allows(l, n, now + RetryAfter(l, n, now))
    /\ l = "fixedwindow" /\ n <= Limit => Allows(l, n, now + RetryAfter(l, n, now))

(***************************************************************************)
(* "Result.RetryAfter is the wait until this key is allowed again"         *)
(* (docs/migration.md): a request within the limit that is denied by a     *)
(* sliding window is admitted after RetryAfter, if nothing else arrives.   *)
(***************************************************************************)
RetryAfterSuffices ==
  \A l \in {"log", "counter"}, n \in Costs :
    Denied(l, n) /\ n <= Limit => Allows(l, n, now + RetryAfter(l, n, now))
=============================================================================
