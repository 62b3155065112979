--------------------------- MODULE AdaptiveLimiter ---------------------------
(***************************************************************************)
(* adaptive.AdaptiveLimiter: a goroutine moves the limit with the load     *)
(* signals and retunes the inner token bucket in place (SetLimit), while   *)
(* callers use the buckets.  SetLimit is several steps: it stores the      *)
(* capacity, stores the rate, and clamps the buckets one after the other,  *)
(* each under its own mutex.  Time passes between any two steps.           *)
(***************************************************************************)
EXTENDS Integers

CONSTANTS
  AdaptiveKeys, AdaptiveUsers,
  MinLimit, MaxLimit, InitialLimit,
  UseSizes                        \* the n of AllowN; 0 is a Peek

ASSUME AdaptiveAssumption ==
  /\ MinLimit \in Nat \ {0} /\ MaxLimit \in Nat /\ MinLimit <= MaxLimit
  /\ InitialLimit \in Int /\ UseSizes \subseteq Nat

NoBucket == -1

VARIABLES
  currentLimit,
  alCapacity, alRate,   \* of the inner bucket, two atomic words
  alStep, alTarget,     \* the adjusting goroutine and the limit it is installing
  alTodo,               \* keys its Range has still to visit
  alBuckets,            \* tokens of each key, or NoBucket
  alUsers               \* callers: step, key, n, capacity read, whether the key was reset

adaptiveVars == <<currentLimit, alCapacity, alRate, alStep, alTarget, alTodo, alBuckets, alUsers>>

Clamp(lo, x, hi) == IF x < lo THEN lo ELSE IF x > hi THEN hi ELSE x

Away == [pc |-> "away", key |-> CHOOSE k \in AdaptiveKeys : TRUE, n |-> 0, cap |-> 0, lost |-> FALSE]

AdaptiveInit ==
  LET start == Clamp(MinLimit, InitialLimit, MaxLimit) IN
  /\ currentLimit = start /\ alCapacity = start /\ alRate = start
  /\ alStep = "idle" /\ alTarget = start /\ alTodo = {}
  /\ alBuckets = [k \in AdaptiveKeys |-> NoBucket]
  /\ alUsers = [u \in AdaptiveUsers |-> Away]

\* Any signal over its limit backs off; all of them comfortably below it advance.
AdjustDirection(cpu, errors, p99) ==
  IF "high" \in {cpu, errors, p99} THEN -1 ELSE IF {cpu, errors, p99} = {"low"} THEN 1 ELSE 0

\* 0.9 of the limit and 0.1 of a target 10% below or 5% above it, rounded, and
\* at least one step in the direction.
AdjustedLimit(current, dir) ==
  LET smoothed == IF dir = 1 THEN (2010 * current + 1000) \div 2000
                             ELSE (1980 * current + 1000) \div 2000
      moved == CASE dir = 1 /\ smoothed <= current -> current + 1
                 [] dir = -1 /\ smoothed >= current -> current - 1
                 [] OTHER -> smoothed
  IN  Clamp(MinLimit, moved, MaxLimit)

\* A tick of adjustLoop.
Adjust(cpu, errors, p99) ==
  LET dir == AdjustDirection(cpu, errors, p99) IN
  /\ alStep = "idle"
  /\ dir # 0 /\ AdjustedLimit(currentLimit, dir) # currentLimit
  /\ alTarget' = AdjustedLimit(currentLimit, dir) /\ alStep' = "capacity"
  /\ UNCHANGED <<currentLimit, alCapacity, alRate, alTodo, alBuckets, alUsers>>

StoreCapacity ==
  /\ alStep = "capacity"
  /\ alCapacity' = alTarget /\ alStep' = "rate"
  /\ UNCHANGED <<currentLimit, alRate, alTarget, alTodo, alBuckets, alUsers>>

StoreRate ==
  /\ alStep = "rate"
  /\ alRate' = alTarget /\ alTodo' = AdaptiveKeys /\ alStep' = "clamp"
  /\ UNCHANGED <<currentLimit, alCapacity, alTarget, alBuckets, alUsers>>

Locked(k) == \E u \in AdaptiveUsers : alUsers[u].pc = "locked" /\ alUsers[u].key = k /\ ~alUsers[u].lost

\* Variant: the clamp does not take the bucket's mutex.
ClampUnlocked(k) ==
  /\ alStep = "clamp" /\ k \in alTodo
  /\ alBuckets' = [alBuckets EXCEPT ![k] = IF @ > alTarget THEN alTarget ELSE @]
  /\ alTodo' = alTodo \ {k}
  /\ UNCHANGED <<currentLimit, alCapacity, alRate, alStep, alTarget, alUsers>>

ClampBucket(k) ==
  /\ alStep = "clamp" /\ k \in alTodo /\ ~Locked(k)
  /\ alBuckets' = [alBuckets EXCEPT ![k] = IF @ > alTarget THEN alTarget ELSE @]
  /\ alTodo' = alTodo \ {k}
  /\ UNCHANGED <<currentLimit, alCapacity, alRate, alStep, alTarget, alUsers>>

StoreLimit ==
  /\ alStep = "clamp" /\ alTodo = {}
  /\ currentLimit' = alTarget /\ alStep' = "idle"
  /\ UNCHANGED <<alCapacity, alRate, alTarget, alTodo, alBuckets, alUsers>>

\* Close waits for the goroutine, which leaves between two ticks.
CloseAdaptive ==
  /\ alStep = "idle"
  /\ alStep' = "stopped"
  /\ UNCHANGED <<currentLimit, alCapacity, alRate, alTarget, alTodo, alBuckets, alUsers>>

\* getOrCreate: a new bucket is full.  A Wait that was denied starts here too.
UseKey(u, k, n) ==
  /\ alUsers[u].pc = "away"
  /\ alBuckets' = [alBuckets EXCEPT ![k] = IF @ = NoBucket THEN alCapacity ELSE @]
  /\ alUsers' = [alUsers EXCEPT ![u] = [Away EXCEPT !.pc = "found", !.key = k, !.n = n]]
  /\ UNCHANGED <<currentLimit, alCapacity, alRate, alStep, alTarget, alTodo>>

\* consume turns down what exceeds the capacity before it locks the bucket;
\* then refill, under the mutex, reads the capacity for itself.
LockBucket(u) ==
  LET me == alUsers[u] IN
  /\ me.pc = "found"
  /\ IF me.n > alCapacity THEN alUsers' = [alUsers EXCEPT ![u] = Away]
     ELSE /\ me.lost \/ ~Locked(me.key)
          /\ alUsers' = [alUsers EXCEPT ![u].pc = "locked", ![u].cap = alCapacity]
  /\ UNCHANGED <<currentLimit, alCapacity, alRate, alStep, alTarget, alTodo, alBuckets>>

\* refill, when time has passed since the last one, and the debit.
RefillAndTake(u, elapsed) ==
  LET me == alUsers[u]
      sum == alBuckets[me.key] + elapsed * alRate
      level == IF elapsed > 0 /\ sum > me.cap THEN me.cap ELSE sum
  IN  /\ me.pc = "locked"
      /\ alBuckets' = IF me.lost THEN alBuckets
                      ELSE [alBuckets EXCEPT ![me.key] = IF level >= me.n THEN level - me.n ELSE level]
      /\ alUsers' = [alUsers EXCEPT ![u] = Away]
      /\ UNCHANGED <<currentLimit, alCapacity, alRate, alStep, alTarget, alTodo>>

\* Reset and the idle cleaner forget a key; whoever holds its bucket keeps it.
ForgetKey(k) ==
  /\ alBuckets[k] # NoBucket
  /\ alBuckets' = [alBuckets EXCEPT ![k] = NoBucket]
  /\ alUsers' = [u \in AdaptiveUsers |->
                   IF alUsers[u].pc # "away" /\ alUsers[u].key = k
                     THEN [alUsers[u] EXCEPT !.lost = TRUE] ELSE alUsers[u]]
  /\ UNCHANGED <<currentLimit, alCapacity, alRate, alStep, alTarget, alTodo>>

AdaptiveNext ==
  \/ \E cpu, errors, p99 \in {"low", "mid", "high"} : Adjust(cpu, errors, p99)
  \/ StoreCapacity \/ StoreRate \/ StoreLimit \/ CloseAdaptive
  \/ \E k \in AdaptiveKeys : ClampBucket(k) \/ ForgetKey(k)
  \/ \E u \in AdaptiveUsers :
       \/ \E k \in AdaptiveKeys, n \in UseSizes : UseKey(u, k, n)
       \/ LockBucket(u)
       \/ \E elapsed \in {0, 1} : RefillAndTake(u, elapsed)

AdaptiveSpec == AdaptiveInit /\ [][AdaptiveNext]_adaptiveVars

-----------------------------------------------------------------------------
(* Properties                                                               *)

(***************************************************************************)
(* Between two adjustments the limiter is one limiter: the advertised      *)
(* limit, the capacity and the rate agree and lie in [min, max], and no    *)
(* key holds more tokens than the capacity, whatever refills, creations    *)
(* and resets ran during SetLimit (tokenbucket.go:326 "so a shrink takes   *)
(* effect immediately instead of leaving stale over-capacity balances").   *)
(***************************************************************************)
RetunedEverywhere ==
  alStep = "idle" =>
    /\ currentLimit = alCapacity /\ currentLimit = alRate
    /\ currentLimit \in MinLimit..MaxLimit
    /\ \A k \in AdaptiveKeys :
         LET holder == {u \in AdaptiveUsers : alUsers[u].pc = "locked" /\ alUsers[u].key = k}
         IN  alBuckets[k] <= alCapacity /\ \A u \in holder : alUsers[u].lost \/ alUsers[u].cap = alCapacity
=============================================================================
