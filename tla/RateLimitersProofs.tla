------------------------- MODULE RateLimitersProofs -------------------------
(***************************************************************************)
(* The in-memory rate limiters, for every capacity, rate, limit, window    *)
(* and sequence of requests: GCRA and the token bucket decide alike and    *)
(* admit no more than their rate allows, the limiters that count in        *)
(* windows keep their limits, and every limiter names the least wait.      *)
(***************************************************************************)
EXTENDS RateLimiters, SumTheorems

\* What proves a step that names no prover.
USE SMTT(30), Z3T(30), Zenon

Full == Capacity * Interval

\* The backlog of the GCRA: how far its tat lies in the future.
Backlog == IF entry.tat > now THEN entry.tat - now ELSE 0

BucketType ==
  /\ bucket \in [present : BOOLEAN, tokens : Nat, lastRefill : Nat, lastAccess : Nat]
  /\ bucket.tokens <= Full
  /\ bucket.lastRefill <= now /\ bucket.lastAccess = bucket.lastRefill

EntryType ==
  /\ entry \in [present : BOOLEAN, tat : Nat, lastAccess : Nat]
  /\ ~entry.present => entry.tat = 0
  /\ entry.lastAccess <= now
  /\ entry.tat <= entry.lastAccess + Full

\* What the bucket lacks is the backlog of the GCRA.
Coupled == TB!Balance(now) = Full - Backlog

Inv ==
  /\ tested \in Groups
  /\ now \in Nat
  /\ BucketType /\ EntryType /\ Coupled

\* The capacity in ticks is a positive number.
LEMMA FullType == Full \in Nat \ {0} /\ TB!Full = Full
BY LimiterAssumption DEF Full, TB!Full

\* A request within the capacity costs at most a full bucket.
LEMMA CostType ==
  ASSUME NEW n \in Costs
  PROVE  n \in Nat /\ n * Interval \in Nat /\ (n <= Capacity => n * Interval <= Full)
BY LimiterAssumption DEF Full

\* The two are exercised together or not at all.
LEMMA Together == tested \in Groups => ("tokenbucket" \in tested <=> "gcra" \in tested)
BY Zenon DEF Groups

\* What Balance, and the bucket after a refill, are in terms of the fields.
LEMMA BalanceIs ==
  ASSUME now \in Nat, BucketType
  PROVE  /\ ~bucket.present => TB!Balance(now) = Full
         /\ bucket.present =>
              TB!Balance(now) = IF bucket.tokens + (now - bucket.lastRefill) > Full THEN Full
                                ELSE bucket.tokens + (now - bucket.lastRefill)
         /\ TB!Balance(now) \in 0..Full
         /\ TB!Refill(TB!GetOrCreate(now), now) =
              [present |-> TRUE, tokens |-> TB!Balance(now), lastRefill |-> now, lastAccess |-> now]
<1> DEFINE b == TB!GetOrCreate(now)
           sum == b.tokens + (now - b.lastRefill)
           tokens == IF sum > Full THEN Full ELSE sum
<1>1. /\ b \in [present : BOOLEAN, tokens : Nat, lastRefill : Nat, lastAccess : Nat]
      /\ b.present /\ b.tokens <= Full /\ b.lastRefill <= now
      /\ bucket.present => b = bucket
      /\ ~bucket.present => b.tokens = Full /\ b.lastRefill = now
  BY FullType DEF BucketType, TB!GetOrCreate
<1> HIDE DEF b
<1>2. tokens \in 0..Full
  BY <1>1, FullType
<1>3. TB!Refill(b, now) = [present |-> TRUE, tokens |-> tokens, lastRefill |-> now, lastAccess |-> now]
  <2>1. TB!Refill(b, now) = [b EXCEPT !.tokens = tokens, !.lastRefill = now, !.lastAccess = now]
    BY FullType, Zenon DEF TB!Refill
  <2> HIDE DEF tokens
  <2> QED
    BY <1>1, <1>2, <2>1, Zenon
<1>4. TB!Balance(now) = tokens
  BY <1>3 DEF TB!Balance, b
<1>5. ~bucket.present => tokens = Full
  BY <1>1, FullType
<1>6. bucket.present => tokens = IF bucket.tokens + (now - bucket.lastRefill) > Full THEN Full
                                 ELSE bucket.tokens + (now - bucket.lastRefill)
  BY <1>1, Zenon
<1> HIDE DEF tokens
<1> QED
  BY <1>2, <1>3, <1>4, <1>5, <1>6, Zenon DEF b

\* The decisions agree in every state of the invariant.
LEMMA Alike ==
  ASSUME Inv, NEW n \in Costs
  PROVE  GC!Allows(n, now) <=> TB!Allows(n, now)
BY FullType, CostType, BalanceIs, LimiterAssumption
   DEF Inv, BucketType, EntryType, Coupled, Backlog, GC!Allows, TB!Allows, GC!Candidate, GC!LimitWindow, Full

-----------------------------------------------------------------------------
\* The hypothesis on the cleaners: an idle key is kept until it is full.
KeptUntilFull == IdleClean >= Full

\* Nothing in the invariant depends on the other limiters and the record.
LEMMA SameState ==
  ASSUME Inv, UNCHANGED <<tested, now, bucket, entry>>
  PROVE  Inv'
BY Zenon DEF Inv, BucketType, EntryType, Coupled, Backlog, TB!Balance, TB!Refill, TB!GetOrCreate

\* The bucket after a step that leaves it with given tokens at this instant.
LEMMA RefilledBucket ==
  ASSUME Inv, NEW t \in 0..Full, now' = now,
         bucket' = [present |-> TRUE, tokens |-> t, lastRefill |-> now, lastAccess |-> now]
  PROVE  BucketType' /\ TB!Balance(now)' = t
<1>1. BucketType' /\ now' \in Nat /\ bucket'.present /\ bucket'.tokens = t /\ bucket'.lastRefill = now
  BY FullType DEF Inv, BucketType
<1> QED
  BY <1>1, FullType DEF TB!Balance, TB!Refill, TB!GetOrCreate

\* A key that leaves the map leaves a full bucket behind.
LEMMA GoneBucket ==
  ASSUME Inv, now' \in Nat, bucket' = TB!Gone
  PROVE  BucketType' /\ TB!Balance(now)' = Full
<1>1. BucketType' /\ ~bucket'.present
  BY FullType DEF BucketType, TB!Gone
<1> QED
  BY <1>1, FullType DEF TB!Balance, TB!Refill, TB!GetOrCreate

-----------------------------------------------------------------------------
(* One lemma per action                                                     *)

\* A request that both admit costs both the same; one that both deny costs
\* nothing.
LEMMA RequestStep ==
  ASSUME Inv, NEW n \in Costs, Request(n)
  PROVE  /\ Inv'
         /\ "gcra" \in tested => Backlog' = Backlog + (IF TB!Allows(n, now) THEN n * Interval ELSE 0)
<1>1. now' = now /\ tested' = tested
  BY Zenon DEF Request
<1>2. CASE "tokenbucket" \notin tested
  <2>1. UNCHANGED <<bucket, entry>>
    BY <1>2, Together, Zenon DEF Inv, Request, On
  <2> QED
    BY <1>1, <1>2, <2>1, SameState, Together, Zenon DEF Inv
<1>3. CASE "tokenbucket" \in tested /\ n > Capacity
  <2>1. TB!AllowN(n) /\ GC!AllowN(n)
    BY <1>3, Together, Zenon DEF Inv, Request, On
  <2>2. entry' = entry /\ bucket' = TB!GetOrCreate(now)
    BY <1>3, <2>1, Zenon DEF TB!AllowN, GC!AllowN
  <2>5. Backlog' = Backlog + (IF TB!Allows(n, now) THEN n * Interval ELSE 0)
    <3>1. Backlog' = Backlog /\ Backlog \in Int
      BY <1>1, <2>2 DEF Inv, EntryType, Backlog
    <3>2. ~TB!Allows(n, now)
      BY <1>3, CostType, LimiterAssumption DEF TB!Allows
    <3> QED
      BY <3>1, <3>2
  <2>3. CASE bucket.present
    BY <1>1, <2>2, <2>3, <2>5, SameState, Zenon DEF TB!GetOrCreate
  <2>4. CASE ~bucket.present
    <3>1. bucket' = [present |-> TRUE, tokens |-> Full, lastRefill |-> now, lastAccess |-> now]
      BY <2>2, <2>4, FullType, Zenon DEF TB!GetOrCreate
    <3>2. BucketType' /\ TB!Balance(now)' = Full /\ TB!Balance(now) = Full
      BY <1>1, <2>4, <3>1, FullType, RefilledBucket, BalanceIs, Zenon DEF Inv
    <3> QED
      BY <1>1, <2>2, <2>5, <3>2, Zenon DEF Inv, EntryType, Coupled, Backlog
  <2> QED
    BY <2>3, <2>4, Zenon
<1>4. CASE "tokenbucket" \in tested /\ ~(n > Capacity)
  <2> DEFINE cost == n * Interval
             bal == TB!Balance(now)
  <2>1. TB!AllowN(n) /\ GC!AllowN(n)
    BY <1>4, Together, Zenon DEF Inv, Request, On
  <2>2. n <= Capacity /\ cost \in Nat /\ cost <= Full /\ bal \in 0..Full
    BY <1>4, CostType, BalanceIs, LimiterAssumption DEF Inv
  <2>3. bucket' = [TB!Refill(TB!GetOrCreate(now), now) EXCEPT
                     !.tokens = @ - (IF TB!Allows(n, now) THEN cost ELSE 0)]
    BY <1>4, <2>1, Zenon DEF TB!AllowN
  <2>4. bucket' = [present |-> TRUE, tokens |-> bal - (IF TB!Allows(n, now) THEN cost ELSE 0),
                   lastRefill |-> now, lastAccess |-> now]
    <3> DEFINE spent == IF TB!Allows(n, now) THEN cost ELSE 0
               refilled == [present |-> TRUE, tokens |-> bal, lastRefill |-> now, lastAccess |-> now]
    <3>1. TB!Refill(TB!GetOrCreate(now), now) = refilled
      BY BalanceIs, Zenon DEF Inv
    <3>2. bucket' = [refilled EXCEPT !.tokens = refilled.tokens - spent]
      BY <2>3, <3>1, Zenon
    <3> HIDE DEF spent, bal
    <3>3. bucket' = [present |-> TRUE, tokens |-> bal - spent, lastRefill |-> now, lastAccess |-> now]
      BY <3>2, Zenon
    <3> QED
      BY <3>3, Zenon DEF spent, bal
  <2>5. entry' = [GC!GetOrCreate EXCEPT !.lastAccess = now,
                    !.tat = IF TB!Allows(n, now) THEN GC!Candidate(n, now) ELSE @]
    BY <1>4, <2>1, Alike, Zenon DEF GC!AllowN
  <2>6. /\ GC!GetOrCreate \in [present : BOOLEAN, tat : Nat, lastAccess : Nat]
        /\ GC!GetOrCreate.present /\ GC!GetOrCreate.tat = entry.tat
    BY Zenon DEF Inv, EntryType, GC!GetOrCreate, GC!Gone
  <2>7. CASE TB!Allows(n, now)
    <3>1. bal >= cost
      BY <2>7, Zenon DEF TB!Allows
    <3>2. BucketType' /\ TB!Balance(now)' = bal - cost
      BY <1>1, <2>2, <2>4, <2>7, <3>1, FullType, RefilledBucket
    <3>3. GC!Candidate(n, now) = now + Backlog + cost
      BY <2>2 DEF Inv, EntryType, GC!Candidate, Backlog
    <3>4. /\ entry' \in [present : BOOLEAN, tat : Nat, lastAccess : Nat]
          /\ entry'.present /\ entry'.tat = now + Backlog + cost /\ entry'.lastAccess = now
      <4> DEFINE tat == now + Backlog + cost
      <4>1. tat \in Nat /\ now \in Nat
        BY <2>2 DEF Inv, EntryType, Backlog
      <4>2. entry' = [GC!GetOrCreate EXCEPT !.lastAccess = now, !.tat = tat]
        BY <2>5, <2>7, <3>3, Zenon
      <4> HIDE DEF tat
      <4>3. /\ entry' \in [present : BOOLEAN, tat : Nat, lastAccess : Nat]
            /\ entry'.present /\ entry'.tat = tat /\ entry'.lastAccess = now
        BY <2>6, <4>1, <4>2, Zenon
      <4> QED
        BY <4>3, Zenon DEF tat
    <3>5. bal = Full - Backlog /\ Backlog \in Nat
      BY DEF Inv, EntryType, Coupled, Backlog
    <3>6. EntryType'
      BY <1>1, <2>2, <3>1, <3>4, <3>5, FullType DEF Inv, EntryType, Full
    <3>7. Backlog' = Backlog + cost
      BY <1>1, <2>2, <3>4, <3>5 DEF Inv, Backlog
    <3>8. Coupled'
      BY <1>1, <2>2, <3>2, <3>5, <3>7, FullType DEF Coupled, Full
    <3> QED
      BY <1>1, <2>7, <3>2, <3>6, <3>7, <3>8, Zenon DEF Inv
  <2>8. CASE ~TB!Allows(n, now)
    <3>1. BucketType' /\ TB!Balance(now)' = bal
      BY <1>1, <2>2, <2>4, <2>8, FullType, RefilledBucket
    <3>2. /\ entry' \in [present : BOOLEAN, tat : Nat, lastAccess : Nat]
          /\ entry'.present /\ entry'.tat = entry.tat /\ entry'.lastAccess = now
      BY <2>5, <2>6, <2>8, Zenon DEF Inv, EntryType
    <3>3. EntryType' /\ Backlog' = Backlog
      BY <1>1, <3>2, FullType DEF Inv, EntryType, Backlog, Full
    <3>4. Backlog \in Int
      BY DEF Inv, EntryType, Backlog
    <3> QED
      BY <1>1, <2>8, <3>1, <3>3, <3>4 DEF Inv, Coupled, Full
  <2> QED
    BY <2>7, <2>8, Zenon
<1> QED
  BY <1>2, <1>3, <1>4, Zenon

\* Peek writes back what is there already.
LEMMA PeekStep ==
  ASSUME Inv, Peek
  PROVE  Inv' /\ Backlog' = Backlog
<1>1. now' = now /\ tested' = tested
  BY Zenon DEF Peek
<1>2. CASE "tokenbucket" \notin tested
  <2>1. UNCHANGED <<bucket, entry>>
    BY <1>2, Together, Zenon DEF Inv, Peek, On
  <2> QED
    BY <1>1, <2>1, SameState, Zenon DEF Backlog
<1>3. CASE "tokenbucket" \in tested
  <2>1. TB!Peek /\ GC!Peek
    BY <1>3, Together, Zenon DEF Inv, Peek, On
  <2>2. TB!Balance(now) \in 0..Full
    BY BalanceIs, Zenon DEF Inv
  <2>3. bucket' = [present |-> TRUE, tokens |-> TB!Balance(now), lastRefill |-> now, lastAccess |-> now]
    BY <2>1, BalanceIs, Zenon DEF Inv, TB!Peek
  <2>4. BucketType' /\ TB!Balance(now)' = TB!Balance(now)
    BY <1>1, <2>2, <2>3, RefilledBucket, Zenon
  <2>5. EntryType' /\ Backlog' = Backlog
    <3>1. CASE entry.present
      BY <1>1, <2>1, <3>1, Zenon DEF Inv, EntryType, Backlog, GC!Peek, GC!GetOrCreate
    <3>2. CASE ~entry.present
      <4>1. entry' = [present |-> TRUE, tat |-> 0, lastAccess |-> now] /\ entry.tat = 0
        BY <2>1, <3>2, Zenon DEF Inv, EntryType, GC!Peek, GC!GetOrCreate, GC!Gone
      <4> QED
        BY <1>1, <4>1, FullType DEF Inv, EntryType, Backlog, Full
    <3> QED
      BY <3>1, <3>2, Zenon
  <2> QED
    BY <1>1, <2>4, <2>5, Zenon DEF Inv, Coupled, Full
<1> QED
  BY <1>2, <1>3, Zenon

\* A key without an entry has no backlog.
LEMMA GoneEntry ==
  ASSUME Inv, now' = now, entry' = GC!Gone
  PROVE  EntryType' /\ Backlog' = 0
BY FullType DEF Inv, EntryType, Backlog, GC!Gone, Full

\* Reset empties both maps.
LEMMA ResetStep ==
  ASSUME Inv, Reset
  PROVE  Inv' /\ Backlog' = 0
<1>1. now' = now /\ tested' = tested /\ bucket' = TB!Gone /\ entry' = GC!Gone
  BY Zenon DEF Reset, TB!Reset, GC!Reset
<1>2. BucketType' /\ TB!Balance(now)' = Full
  BY <1>1, GoneBucket, Zenon DEF Inv
<1> QED
  BY <1>1, <1>2, GoneEntry, FullType DEF Inv, Coupled, Full

\* An idle bucket is full and an idle entry has no backlog, if keys are kept
\* for long enough: forgetting either changes nothing.
LEMMA EvictStep ==
  ASSUME KeptUntilFull, Inv, Evict
  PROVE  Inv' /\ Backlog' = Backlog
<1>1. now' = now /\ tested' = tested
  BY Zenon DEF Evict
<1>2. CASE TB!Evict /\ UNCHANGED entry
  <2>1. bucket.present /\ bucket.lastAccess < now - IdleClean /\ bucket' = TB!Gone
    BY <1>2, Zenon DEF TB!Evict
  <2>2. TB!Balance(now) = Full
    BY <2>1, BalanceIs, FullType, LimiterAssumption DEF Inv, BucketType, KeptUntilFull
  <2>3. BucketType' /\ TB!Balance(now)' = Full
    BY <1>1, <2>1, GoneBucket, Zenon DEF Inv
  <2> QED
    BY <1>1, <1>2, <2>2, <2>3, Zenon DEF Inv, EntryType, Coupled, Backlog, Full
<1>3. CASE GC!Evict /\ UNCHANGED bucket
  <2>1. entry.present /\ entry.lastAccess < now - IdleClean /\ entry' = GC!Gone
    BY <1>3 DEF GC!Evict
  <2>2. Backlog = 0
    BY <2>1, FullType, LimiterAssumption DEF Inv, EntryType, Backlog, KeptUntilFull
  <2>3. BucketType' /\ TB!Balance(now)' = TB!Balance(now)
    BY <1>1, <1>3, Zenon DEF Inv, BucketType, TB!Balance, TB!Refill, TB!GetOrCreate, Full
  <2> QED
    BY <1>1, <2>1, <2>2, <2>3, GoneEntry, Zenon DEF Inv, Coupled, Full
<1>4. CASE UNCHANGED <<bucket, entry>>
  BY <1>1, <1>4, SameState, Zenon DEF Backlog
<1> QED
  BY <1>2, <1>3, <1>4, Zenon DEF Evict

\* A tick refills one unit and shortens the backlog by one.
LEMMA TickStep ==
  ASSUME Inv, Tick
  PROVE  Inv' /\ Backlog' = IF Backlog > 0 THEN Backlog - 1 ELSE 0
<1>1. now' = now + 1 /\ now \in Nat /\ now' \in Nat /\ UNCHANGED <<tested, bucket, entry>>
  BY DEF Tick, Inv
<1>2. BucketType' /\ EntryType'
  BY <1>1, FullType DEF Inv, BucketType, EntryType, Full
<1>3. TB!Balance(now)' = IF TB!Balance(now) < Full THEN TB!Balance(now) + 1 ELSE Full
  <2>1. CASE bucket.present
    BY <1>1, <2>1, FullType, BalanceIs DEF Inv, BucketType, TB!Balance, TB!Refill, TB!GetOrCreate
  <2>2. CASE ~bucket.present
    BY <1>1, <2>2, FullType, BalanceIs DEF Inv, BucketType, TB!Balance, TB!Refill, TB!GetOrCreate
  <2> QED
    BY <2>1, <2>2, Zenon
<1>4. Backlog' = IF Backlog > 0 THEN Backlog - 1 ELSE 0
  BY <1>1 DEF Inv, EntryType, Backlog
<1>5. Backlog \in Nat
  BY DEF Inv, EntryType, Backlog
<1>6. Coupled'
  BY <1>3, <1>4, <1>5, FullType DEF Inv, Coupled, Full
<1> QED
  BY <1>1, <1>2, <1>4, <1>6, Zenon DEF Inv

-----------------------------------------------------------------------------
\* Both limiters start without an entry, which stands for a full bucket.
LEMMA InitInv == Init => Inv
BY FullType DEF Init, Inv, BucketType, EntryType, Coupled, Backlog, TB!Init, TB!Gone, GC!Init, GC!Gone,
   TB!Balance, TB!Refill, TB!GetOrCreate

\* The bucket and the tat stay coupled: what the bucket lacks is how far the
\* tat lies ahead of the clock.
THEOREM Coupling == ASSUME KeptUntilFull PROVE Spec => []Inv
<1>1. Init => Inv
  BY InitInv, Zenon
<1>2. Inv /\ [Next]_vars => Inv'
  <2> SUFFICES ASSUME Inv, [Next]_vars PROVE Inv'
    BY Zenon
  <2>1. CASE UNCHANGED vars
    BY <2>1, SameState, Zenon DEF vars
  <2> QED
    BY <2>1, RequestStep, PeekStep, ResetStep, EvictStep, TickStep, Zenon DEF Next
<1> QED
  BY <1>1, <1>2, PTL DEF Spec

\* consume of gcra.go and consume of tokenbucket.go decide every request
\* alike, for every capacity, rate and history of requests, peeks, resets and
\* evictions, if an idle key is kept until its bucket would be full.
THEOREM GCRAIsTokenBucket == ASSUME KeptUntilFull PROVE Spec => []DecideAlike
<1>1. Inv => DecideAlike
  BY Alike, Zenon DEF DecideAlike
<1> QED
  BY <1>1, Coupling, PTL

-----------------------------------------------------------------------------
(* The record of admissions                                                 *)

Amounts == [0..Horizon -> Nat]

RecordType == admitted \in [Limiters -> Amounts]

\* n is admitted now.
LEMMA AdmitNow ==
  ASSUME NEW f \in Amounts, NEW n \in Nat, NEW i \in 0..Horizon, NEW j \in 0..Horizon, i <= j
  PROVE  LET g == [f EXCEPT ![0] = @ + n]
         IN  /\ g \in Amounts
             /\ SumFunctionOnSet(g, i..j) = SumFunctionOnSet(f, i..j) + (IF i = 0 THEN n ELSE 0)
<1> DEFINE g == [f EXCEPT ![0] = @ + n]
<1>1. g \in Amounts /\ 0 \in 0..Horizon
  BY LimiterAssumption DEF Amounts
<1>2. g[0] = f[0] + n /\ \A k \in 1..j : g[k] = f[k]
  BY LimiterAssumption DEF Amounts
<1> HIDE DEF g
<1>3. (\A k \in i..j : f[k] \in Int /\ g[k] \in Int) /\ (\A k \in 1..j : f[k] \in Int)
  BY <1>1, LimiterAssumption DEF Amounts
<1>4. ASSUME NEW m \in 1..(j + 1) PROVE SumFunctionOnSet(g, m..j) = SumFunctionOnSet(f, m..j)
  <2>1. m \in Int /\ j \in Int /\ \A k \in m..j : f[k] \in Int /\ g[k] = f[k]
    BY <1>2, <1>3
  <2> QED
    BY <2>1, SumSame, Zenon
<1>5. CASE i > 0
  <2>1. i \in 1..(j + 1) /\ i # 0
    BY <1>5
  <2>2. SumFunctionOnSet(f, i..j) \in Int
    BY <1>3, SumInterval
  <2>3. SumFunctionOnSet(g, i..j) = SumFunctionOnSet(f, i..j) + 0
    BY <1>4, <2>1, <2>2
  <2> QED
    BY <1>1, <2>1, <2>3, Zenon DEF g
<1>6. CASE i = 0
  <2>1. i <= j /\ 0 + 1 = 1 /\ 1 \in 1..(j + 1) /\ 0 \in Int
    OBVIOUS
  <2>2. SumFunctionOnSet(g, 0..j) = g[0] + SumFunctionOnSet(g, 1..j)
    BY <1>3, <1>6, <2>1, SumInterval
  <2>3. SumFunctionOnSet(f, 0..j) = f[0] + SumFunctionOnSet(f, 1..j) /\ SumFunctionOnSet(f, 1..j) \in Int
    BY <1>3, <1>6, <2>1, SumInterval
  <2>4. SumFunctionOnSet(g, 1..j) = SumFunctionOnSet(f, 1..j)
    BY <1>4, <2>1, Zenon
  <2>5. f[0] \in Int
    BY <1>3, <1>6
  <2>6. SumFunctionOnSet(g, 0..j) = SumFunctionOnSet(f, 0..j) + n
    BY <1>2, <2>2, <2>3, <2>4, <2>5
  <2> QED
    BY <1>1, <1>6, <2>6, Zenon DEF g
<1> QED
  BY <1>5, <1>6

\* A tick moves every amount one place back.
LEMMA OneTickOn ==
  ASSUME NEW f \in Amounts, NEW i \in 0..Horizon, NEW j \in 0..Horizon, i <= j
  PROVE  LET g == [k \in 0..Horizon |-> IF k = 0 THEN 0 ELSE f[k - 1]]
         IN  /\ g \in Amounts
             /\ i > 0 => SumFunctionOnSet(g, i..j) = SumFunctionOnSet(f, (i - 1)..(j - 1))
             /\ i = 0 => SumFunctionOnSet(g, i..j) = SumFunctionOnSet(f, 0..(j - 1))
<1> DEFINE g == [k \in 0..Horizon |-> IF k = 0 THEN 0 ELSE f[k - 1]]
<1>1. g \in Amounts /\ g[0] = 0 /\ \A k \in 0..(j - 1) : f[k] \in Int /\ g[k + 1] = f[k]
  BY LimiterAssumption DEF Amounts
<1> HIDE DEF g
<1>2. ASSUME NEW m \in 0..j PROVE SumFunctionOnSet(g, (m + 1)..j) = SumFunctionOnSet(f, m..(j - 1))
  <2>1. \A k \in m..(j - 1) : f[k] \in Int /\ g[k + 1] = f[k]
    BY <1>1
  <2>2. SumFunctionOnSet(g, (m + 1)..((j - 1) + 1)) = SumFunctionOnSet(f, m..(j - 1))
    <3>1. m \in Int /\ j - 1 \in Int
      OBVIOUS
    <3> QED
      BY <2>1, <3>1, SumNext, ZenonT(60)
  <2>3. (j - 1) + 1 = j
    OBVIOUS
  <2> QED
    BY <2>2, <2>3, Zenon
<1>3. CASE i > 0
  <2>1. i - 1 \in 0..j /\ (i - 1) + 1 = i
    BY <1>3
  <2> QED
    BY <1>1, <1>2, <1>3, <2>1 DEF g
<1>4. CASE i = 0
  <2>1. \A k \in 0..j : g[k] \in Int
    BY <1>1, LimiterAssumption DEF Amounts
  <2>2. SumFunctionOnSet(g, 0..j) = g[0] + SumFunctionOnSet(g, (0 + 1)..j)
    BY <2>1, SumInterval
  <2>3. \A k \in 0..(j - 1) : f[k] \in Int
    BY <1>1, Zenon
  <2>4. SumFunctionOnSet(f, 0..(j - 1)) \in Int
    BY <2>3, SumInterval
  <2>5. SumFunctionOnSet(g, 0..j) = SumFunctionOnSet(f, 0..(j - 1))
    BY <1>1, <1>2, <2>2, <2>4
  <2> QED
    BY <1>1, <1>4, <2>5 DEF g
<1> QED
  BY <1>3, <1>4

\* An empty record adds up to nothing.
LEMMA NothingAdmitted ==
  ASSUME NEW i \in 0..Horizon, NEW j \in 0..Horizon
  PROVE  SumFunctionOnSet(Nothing, i..j) = 0
BY LimiterAssumption, SumZero DEF Nothing

\* What a request adds to the record of a limiter, and what a tick makes of it.
LEMMA RecordStep ==
  ASSUME RecordType, NEW l \in Limiters
  PROVE  /\ \A n \in Costs : Request(n) =>
              /\ RecordType'
              /\ \A i, j \in 0..Horizon : i <= j =>
                   Admitted(l, i, j)' = Admitted(l, i, j) + (IF i = 0 /\ l \in tested /\ Allows(l, n, now) THEN n ELSE 0)
         /\ Tick =>
              /\ RecordType'
              /\ \A i, j \in 0..Horizon : i <= j =>
                   Admitted(l, i, j)' = Admitted(l, IF i = 0 THEN 0 ELSE i - 1, j - 1)
         /\ Reset =>
              /\ RecordType'
              /\ \A i, j \in 0..Horizon : Admitted(l, i, j)' = 0
<1>1. ASSUME NEW n \in Costs, Request(n)
      PROVE  /\ RecordType'
             /\ \A i, j \in 0..Horizon : i <= j =>
                  Admitted(l, i, j)' = Admitted(l, i, j) + (IF i = 0 /\ l \in tested /\ Allows(l, n, now) THEN n ELSE 0)
  <2>1. /\ admitted' = [k \in Limiters |-> IF k \in tested /\ Allows(k, n, now) THEN [admitted[k] EXCEPT ![0] = @ + n]
                                           ELSE admitted[k]]
        /\ n \in Nat
    BY <1>1, LimiterAssumption, Zenon DEF Request
  <2>2. \A k \in Limiters : admitted[k] \in Amounts /\ [admitted[k] EXCEPT ![0] = @ + n] \in Amounts
    BY <2>1, LimiterAssumption DEF RecordType, Amounts
  <2>3. RecordType'
    BY <2>1, <2>2, Zenon DEF RecordType
  <2>4. ASSUME NEW i \in 0..Horizon, NEW j \in 0..Horizon, i <= j
        PROVE  Admitted(l, i, j)' = Admitted(l, i, j) + (IF i = 0 /\ l \in tested /\ Allows(l, n, now) THEN n ELSE 0)
    <3>1. CASE l \in tested /\ Allows(l, n, now)
      <4>1. admitted'[l] = [admitted[l] EXCEPT ![0] = @ + n]
        BY <2>1, <3>1, Zenon
      <4>2. SumFunctionOnSet([admitted[l] EXCEPT ![0] = @ + n], i..j)
              = SumFunctionOnSet(admitted[l], i..j) + (IF i = 0 THEN n ELSE 0)
        BY <2>1, <2>2, <2>4, AdmitNow
      <4> QED
        BY <3>1, <4>1, <4>2, Zenon DEF Admitted
    <3>2. CASE ~(l \in tested /\ Allows(l, n, now))
      <4>1. admitted'[l] = admitted[l]
        BY <2>1, <3>2, Zenon
      <4>2. SumFunctionOnSet(admitted[l], i..j) \in Int
        <5>1. \A k \in i..j : admitted[l][k] \in Int
          BY <2>2, LimiterAssumption DEF Amounts
        <5> QED
          BY <5>1, SumInterval
      <4> QED
        BY <3>2, <4>1, <4>2 DEF Admitted
    <3> QED
      BY <3>1, <3>2, Zenon
  <2> QED
    BY <2>3, <2>4, Zenon
<1>2. ASSUME Tick
      PROVE  /\ RecordType'
             /\ \A i, j \in 0..Horizon : i <= j =>
                  Admitted(l, i, j)' = Admitted(l, IF i = 0 THEN 0 ELSE i - 1, j - 1)
  <2> DEFINE Moved(f) == [k \in 0..Horizon |-> IF k = 0 THEN 0 ELSE f[k - 1]]
  <2>1. admitted' = [k \in Limiters |-> Moved(admitted[k])]
    BY <1>2, Zenon DEF Tick
  <2>2. \A k \in Limiters : admitted[k] \in Amounts /\ Moved(admitted[k]) \in Amounts
    BY LimiterAssumption DEF RecordType, Amounts
  <2>3. RecordType'
    BY <2>1, <2>2, Zenon DEF RecordType
  <2>4. ASSUME NEW i \in 0..Horizon, NEW j \in 0..Horizon, i <= j
        PROVE  Admitted(l, i, j)' = Admitted(l, IF i = 0 THEN 0 ELSE i - 1, j - 1)
    <3>1. /\ i > 0 => SumFunctionOnSet(Moved(admitted[l]), i..j) = SumFunctionOnSet(admitted[l], (i - 1)..(j - 1))
          /\ i = 0 => SumFunctionOnSet(Moved(admitted[l]), i..j) = SumFunctionOnSet(admitted[l], 0..(j - 1))
      BY <2>2, <2>4, OneTickOn
    <3>2. admitted'[l] = Moved(admitted[l])
      BY <2>1, Zenon
    <3> HIDE DEF Moved
    <3> QED
      BY <3>1, <3>2 DEF Admitted
  <2> QED
    BY <2>3, <2>4, Zenon
<1>3. ASSUME Reset
      PROVE  RecordType' /\ \A i, j \in 0..Horizon : Admitted(l, i, j)' = 0
  <2>1. admitted' = [k \in Limiters |-> Nothing] /\ Nothing \in Amounts /\ admitted'[l] = Nothing
    BY <1>3, LimiterAssumption, Zenon DEF Reset, Nothing, Amounts
  <2>2. ASSUME NEW i \in 0..Horizon, NEW j \in 0..Horizon PROVE SumFunctionOnSet(Nothing, i..j) = 0
    BY NothingAdmitted, Zenon
  <2> QED
    BY <2>1, <2>2, Zenon DEF RecordType, Admitted
<1> QED
  BY <1>1, <1>2, <1>3, Zenon

-----------------------------------------------------------------------------
(* Token bucket and GCRA conform to the rate                                *)

\* Up to now a limiter has admitted no more than its backlog and the time,
\* over any earlier span no more than a burst and the time.
WithinRate(l) ==
  /\ \A k \in 0..Horizon : Admitted(l, 0, k) * Interval <= Backlog + k
  /\ \A i, j \in 0..Horizon : i <= j => Admitted(l, i, j) * Interval <= Full + (j - i)

RateInv == Inv /\ RecordType /\ \A l \in tested \cap {"tokenbucket", "gcra"} : WithinRate(l)

\* The backlog is never longer than a full bucket.
LEMMA BacklogBound == Inv => Backlog \in 0..Full
BY FullType DEF Inv, EntryType, Backlog, Full

\* Amounts add up before they are turned into ticks.
LEMMA Ticks ==
  ASSUME NEW a \in Int, NEW n \in Int
  PROVE  /\ (a + n) * Interval = a * Interval + n * Interval
         /\ a * Interval \in Int /\ n * Interval \in Int
         /\ 0 * Interval = 0
BY LimiterAssumption

\* What was admitted between two ages is a natural, and nothing between none.
LEMMA AdmittedType ==
  ASSUME RecordType, NEW l \in Limiters, NEW i \in 0..Horizon, NEW j \in Int, j <= Horizon
  PROVE  Admitted(l, i, j) \in Nat /\ (i > j => Admitted(l, i, j) = 0)
<1>1. \A k \in i..j : admitted[l][k] \in Nat /\ admitted[l][k] \in Int
  BY LimiterAssumption DEF RecordType, Amounts
<1> QED
  BY <1>1, SumNonNegative, SumInterval DEF Admitted

\* No step of the limiter, an eviction of the idle entry included, lets the admissions
\* of any span exceed the burst and the refill of that span.
LEMMA WithinRateStep ==
  ASSUME KeptUntilFull, RateInv, Next, NEW l \in tested \cap {"tokenbucket", "gcra"}
  PROVE  WithinRate(l)'
<1>1. /\ "gcra" \in tested /\ l \in Limiters /\ Backlog \in 0..Full /\ Full \in Nat
      /\ Horizon \in Nat /\ 0 \in 0..Horizon
      /\ \A i, j \in 0..Horizon : Admitted(l, i, j) \in Nat
  BY Together, BacklogBound, FullType, AdmittedType, LimiterAssumption DEF RateInv, Inv, Limiters
<1>2. ASSUME NEW n \in Costs, Request(n) PROVE WithinRate(l)'
  <2>1. Inv' /\ Backlog' = Backlog + (IF TB!Allows(n, now) THEN n * Interval ELSE 0)
    BY <1>1, <1>2, RequestStep, Zenon DEF RateInv
  <2>2. Allows(l, n, now) <=> TB!Allows(n, now)
    BY Alike, Zenon DEF RateInv, Allows
  <2>3. Backlog' \in 0..Full
    BY <2>1, FullType DEF Inv, EntryType, Backlog, Full
  <2>4. \A i, j \in 0..Horizon : i <= j =>
          Admitted(l, i, j)' = Admitted(l, i, j) + (IF i = 0 /\ TB!Allows(n, now) THEN n ELSE 0)
    BY <1>1, <1>2, <2>2, RecordStep DEF RateInv
  <2>5. ASSUME NEW k \in 0..Horizon PROVE Admitted(l, 0, k)' * Interval <= Backlog' + k
    <3>1. Admitted(l, 0, k) * Interval <= Backlog + k /\ Admitted(l, 0, k) \in Int
      BY <1>1 DEF RateInv, WithinRate
    <3>2. n \in Nat
      BY CostType, Zenon
    <3>3. Admitted(l, 0, k)' = Admitted(l, 0, k) + (IF TB!Allows(n, now) THEN n ELSE 0)
      BY <1>1, <2>4
    <3>4. (Admitted(l, 0, k) + n) * Interval = Admitted(l, 0, k) * Interval + n * Interval
      BY <3>1, <3>2, Ticks
    <3>5. n * Interval \in Int /\ Admitted(l, 0, k) * Interval \in Int
      BY <3>1, <3>2, Ticks
    <3> QED
      BY <1>1, <2>1, <3>1, <3>3, <3>4, <3>5
  <2>6. ASSUME NEW i \in 0..Horizon, NEW j \in 0..Horizon, i <= j
        PROVE  Admitted(l, i, j)' * Interval <= Full + (j - i)
    <3>1. CASE i = 0
      <4>1. Admitted(l, 0, j)' * Interval <= Backlog' + j
        BY <2>5, Zenon
      <4>2. Admitted(l, 0, j)' \in Int /\ Admitted(l, 0, j)' * Interval \in Int
        <5>1. Admitted(l, 0, j)' = Admitted(l, 0, j) + (IF TB!Allows(n, now) THEN n ELSE 0)
          BY <1>1, <2>4, <2>6, <3>1, Zenon
        <5>2. Admitted(l, 0, j)' \in Int
          BY <1>1, <5>1, CostType
        <5> QED
          BY <5>2, Ticks, Zenon
      <4> QED
        BY <1>1, <2>3, <3>1, <4>1, <4>2
    <3>2. CASE i # 0
      <4>1. Admitted(l, i, j)' = Admitted(l, i, j) + 0
        BY <2>4, <2>6, <3>2, Zenon
      <4> QED
        BY <1>1, <2>6, <4>1 DEF RateInv, WithinRate
    <3> QED
      BY <3>1, <3>2, Zenon
  <2> QED
    BY <2>5, <2>6, Zenon DEF WithinRate, Full
<1>3. ASSUME Tick PROVE WithinRate(l)'
  <2>1. Backlog' = IF Backlog > 0 THEN Backlog - 1 ELSE 0
    BY <1>3, TickStep, Zenon DEF RateInv
  <2>2. \A i, j \in 0..Horizon : i <= j => Admitted(l, i, j)' = Admitted(l, IF i = 0 THEN 0 ELSE i - 1, j - 1)
    BY <1>1, <1>3, RecordStep, Zenon DEF RateInv
  <2>3. ASSUME NEW k \in 0..Horizon PROVE Admitted(l, 0, k)' * Interval <= Backlog' + k
    <3>1. Admitted(l, 0, k)' = Admitted(l, 0, k - 1)
      BY <1>1, <2>2
    <3>2. CASE k = 0
      <4>1. Admitted(l, 0, k - 1) = 0
        BY <1>1, <3>2, AdmittedType DEF RateInv
      <4> QED
        BY <1>1, <2>1, <3>1, <3>2, <4>1, LimiterAssumption
    <3>3. CASE k # 0
      <4>1. k - 1 \in 0..Horizon /\ 0 <= k - 1
        BY <1>1, <3>3
      <4>2. Admitted(l, 0, k - 1) * Interval <= Backlog + (k - 1) /\ Admitted(l, 0, k - 1) * Interval \in Int
        <5>1. Admitted(l, 0, k - 1) * Interval <= Backlog + (k - 1)
          BY <4>1, Zenon DEF RateInv, WithinRate
        <5>2. Admitted(l, 0, k - 1) \in Int
          BY <1>1, <4>1
        <5> QED
          BY <5>1, <5>2, Ticks, Zenon
      <4> QED
        BY <1>1, <2>1, <3>1, <4>2
    <3> QED
      BY <3>2, <3>3, Zenon
  <2>4. ASSUME NEW i \in 0..Horizon, NEW j \in 0..Horizon, i <= j
        PROVE  Admitted(l, i, j)' * Interval <= Full + (j - i)
    <3>1. CASE i = 0
      <4>1. Admitted(l, 0, j)' * Interval <= Backlog' + j /\ Backlog' \in 0..Full
        BY <1>1, <2>1, <2>3
      <4>2. Admitted(l, 0, j)' \in Int /\ Admitted(l, 0, j)' * Interval \in Int
        <5>1. Admitted(l, 0, j)' = Admitted(l, 0, j - 1) /\ j - 1 \in Int /\ j - 1 <= Horizon
          BY <1>1, <2>2
        <5>2. Admitted(l, 0, j - 1) \in Int
          BY <1>1, <5>1, AdmittedType DEF RateInv
        <5> QED
          BY <5>1, <5>2, Ticks, Zenon
      <4> QED
        BY <1>1, <3>1, <4>1, <4>2
    <3>2. CASE i # 0
      <4>1. i - 1 \in 0..Horizon /\ j - 1 \in 0..Horizon /\ i - 1 <= j - 1 /\ (j - 1) - (i - 1) = j - i
        BY <1>1, <2>4, <3>2
      <4>2. Admitted(l, i, j)' = Admitted(l, i - 1, j - 1)
        BY <2>2, <2>4, <3>2, Zenon
      <4> QED
        BY <4>1, <4>2, Zenon DEF RateInv, WithinRate
    <3> QED
      BY <3>1, <3>2, Zenon
  <2> QED
    BY <2>3, <2>4, Zenon DEF WithinRate, Full
<1>4. ASSUME Reset PROVE WithinRate(l)'
  <2>1. (\A i, j \in 0..Horizon : Admitted(l, i, j)' = 0) /\ Backlog' = 0
    BY <1>1, <1>4, RecordStep, ResetStep, Zenon DEF RateInv
  <2>2. \A i, j \in 0..Horizon : Admitted(l, i, j)' * Interval = 0
    BY <2>1, LimiterAssumption
  <2> QED
    BY <1>1, <2>1, <2>2 DEF WithinRate, Full
<1>5. ASSUME Peek \/ Evict PROVE WithinRate(l)'
  <2>1. Backlog' = Backlog
    BY <1>5, PeekStep, EvictStep, Zenon DEF RateInv
  <2>2. admitted' = admitted
    BY <1>5, Zenon DEF Peek, Evict
  <2> QED
    BY <2>1, <2>2, Zenon DEF RateInv, WithinRate, Admitted, Full
<1> QED
  BY <1>2, <1>3, <1>4, <1>5, Zenon DEF Next

\* consume of tokenbucket.go and of gcra.go admit, over any span of time, no
\* more than a full burst and what the rate adds in that time, for every
\* capacity, rate and history of requests, peeks, resets and evictions, if an
\* idle key is kept until its bucket would be full.
THEOREM AdmissionsConformToRate == ASSUME KeptUntilFull PROVE Spec => []ConformsToRate
<1>1. Init => RateInv
  <2> SUFFICES ASSUME Init PROVE RateInv
    BY Zenon
  <2>1. Inv
    BY InitInv, Zenon
  <2>2. RecordType /\ \A l \in Limiters : admitted[l] = Nothing
    BY LimiterAssumption, Zenon DEF Init, RecordType, Nothing, Amounts
  <2>3. ASSUME NEW l \in Limiters PROVE WithinRate(l)
    <3>1. \A i, j \in 0..Horizon : Admitted(l, i, j) = 0
      BY <2>2, NothingAdmitted, Zenon DEF Admitted
    <3> QED
      BY <2>1, <3>1, BacklogBound, FullType, Ticks, LimiterAssumption DEF WithinRate
  <2> QED
    BY <2>1, <2>2, <2>3, Zenon DEF RateInv, Limiters
<1>2. RateInv /\ [Next]_vars => RateInv'
  <2> SUFFICES ASSUME RateInv, [Next]_vars PROVE RateInv'
    BY Zenon
  <2>1. CASE UNCHANGED vars
    BY <2>1, SameState, Zenon DEF vars, RateInv, RecordType, WithinRate, Admitted, Backlog
  <2>2. CASE Next
    <3>1. Inv'
      BY <2>2, RequestStep, PeekStep, ResetStep, EvictStep, TickStep, Zenon DEF RateInv, Next
    <3>2. RecordType'
      <4>1. CASE Peek \/ Evict
        BY <4>1, Zenon DEF Peek, Evict, RateInv, RecordType
      <4>2. "log" \in Limiters
        BY Zenon DEF Limiters
      <4> QED
        BY <2>2, <4>1, <4>2, RecordStep, Zenon DEF RateInv, Next
    <3>3. tested' = tested
      BY <2>2, Zenon DEF Next, Request, Peek, Reset, Evict, Tick
    <3> QED
      BY <2>2, <3>1, <3>2, <3>3, WithinRateStep, Zenon DEF RateInv
  <2> QED
    BY <2>1, <2>2, Zenon
<1>3. RateInv => ConformsToRate
  BY Zenon DEF RateInv, WithinRate, ConformsToRate, Full
<1> QED
  BY <1>1, <1>2, <1>3, PTL DEF Spec

-----------------------------------------------------------------------------
(* The windows                                                              *)

\* Quotient and remainder are unique.
LEMMA Quotient ==
  ASSUME NEW w \in Nat, w > 0, NEW a \in Nat, NEW b \in Nat, NEW r \in 0..(w - 1), NEW s \in 0..(w - 1),
         w * a + r = w * b + s
  PROVE  a = b
OBVIOUS

\* How far into its window a time is, and what a tick makes of that.
LEMMA IntoWindow ==
  ASSUME NEW t \in Nat
  PROVE  /\ t % Window \in 0..(Window - 1)
         /\ FW!WindowStart(t) = t - (t % Window) /\ SC!WindowStart(t) = t - (t % Window)
         /\ (t + 1) % Window = IF t % Window = Window - 1 THEN 0 ELSE (t % Window) + 1
<1>1. Window \in Nat /\ Window > 0
  BY LimiterAssumption
<1>2. PICK q \in Nat : q = t \div Window
  BY <1>1
<1>3. PICK r \in 0..(Window - 1) : r = t % Window
  BY <1>1
<1>4. PICK p \in Int : p = Window * q
  BY <1>1
<1>5. r = t - p
  BY <1>1, <1>2, <1>3, <1>4
<1>6. FW!WindowStart(t) = p /\ SC!WindowStart(t) = p
  <2>1. q * Window = p
    BY <1>1, <1>4
  <2> QED
    BY <1>2, <2>1, Zenon DEF FW!WindowStart, SC!WindowStart
<1>7. (t + 1) \div Window = IF r = Window - 1 THEN q + 1 ELSE q
  BY <1>1, <1>2, <1>3
<1>8. (t + 1) % Window = (t + 1) - Window * (IF r = Window - 1 THEN q + 1 ELSE q)
  <2>1. (t + 1) % Window = (t + 1) - Window * ((t + 1) \div Window)
    BY <1>1
  <2> QED
    BY <1>7, <2>1, Zenon
<1>9. Window * (q + 1) = p + Window
  BY <1>1, <1>4
<1>10. (t + 1) % Window = IF r = Window - 1 THEN 0 ELSE r + 1
  BY <1>1, <1>4, <1>5, <1>8, <1>9
<1>11. FW!WindowStart(t) = t - r /\ SC!WindowStart(t) = t - r
  BY <1>4, <1>5, <1>6
<1> QED
  BY <1>3, <1>10, <1>11, Zenon

\* A time is in the window that the code finds for it.
LEMMA StartOfWindow ==
  ASSUME NEW t \in Nat
  PROVE  SC!WindowStart(t) \in Nat /\ SC!WindowStart(t) <= t /\ t < SC!WindowStart(t) + Window
<1>1. Window \in Nat /\ Window > 0
  BY LimiterAssumption
<1>2. PICK r \in 0..(Window - 1) : r = t % Window
  BY IntoWindow, Zenon
<1>3. PICK s : s = SC!WindowStart(t)
  BY Zenon
<1>4. s \in Nat
  BY <1>1, <1>3 DEF SC!WindowStart
<1>5. s = t - r
  BY <1>2, <1>3, IntoWindow, Zenon
<1>6. s <= t /\ t < s + Window
  BY <1>1, <1>2, <1>4, <1>5
<1> QED
  BY <1>3, <1>4, <1>6, Zenon

\* The window of a time that is a little later.
LEMMA SameWindow ==
  ASSUME NEW t \in Nat, NEW d \in Nat, (t % Window) + d < Window
  PROVE  FW!WindowStart(t + d) = FW!WindowStart(t) /\ SC!WindowStart(t + d) = SC!WindowStart(t)
<1>1. Window \in Nat /\ Window > 0
  BY LimiterAssumption
<1>2. PICK a \in Nat, r \in 0..(Window - 1) : a = t \div Window /\ r = t % Window
  BY <1>1
<1>3. PICK b \in Nat, s \in 0..(Window - 1) : b = (t + d) \div Window /\ s = (t + d) % Window
  BY <1>1
<1>4. r = t - Window * a
  BY <1>1, <1>2
<1>5. s = (t + d) - Window * b
  BY <1>1, <1>3
<1>6. r + d \in 0..(Window - 1)
  BY <1>1, <1>2
<1>7. Window * a + (r + d) = Window * b + s
  <2>1. Window * a \in Int /\ Window * b \in Int
    BY <1>1
  <2> QED
    BY <1>4, <1>5, <2>1
<1>8. a = b
  BY <1>1, <1>6, <1>7, Quotient, Zenon
<1> QED
  BY <1>2, <1>3, <1>8, Zenon DEF FW!WindowStart, SC!WindowStart

\* The window that starts after this one.
LEMMA NextWindow ==
  ASSUME NEW t \in Nat
  PROVE  LET next == t - (t % Window) + Window
         IN  next \in Nat /\ FW!WindowStart(next) = next /\ SC!WindowStart(next) = next
<1>1. Window \in Nat /\ Window > 0
  BY LimiterAssumption
<1>2. PICK q \in Nat : q = t \div Window
  BY <1>1
<1>3. PICK p \in Int : p = Window * q
  BY <1>1
<1>4. t - (t % Window) + Window = p + Window
  <2>1. PICK r \in Int : r = t % Window
    BY <1>1
  <2>2. r = t - p
    BY <1>1, <1>2, <1>3, <2>1
  <2>3. t - r + Window = p + Window
    BY <1>1, <2>2
  <2> QED
    BY <2>1, <2>3, Zenon
<1>5. PICK a \in Nat : a = q + 1
  OBVIOUS
<1>6. p + Window = Window * a
  BY <1>1, <1>3, <1>5
<1>7. Window * a \in Nat /\ (Window * a) \div Window = a /\ a * Window = Window * a
  BY <1>1
<1> QED
  BY <1>4, <1>6, <1>7 DEF FW!WindowStart, SC!WindowStart

\* The record and the clock in every step.
LEMMA RecordTypeStep ==
  ASSUME RecordType, now \in Nat, Next
  PROVE  RecordType' /\ now' \in Nat
<1>1. CASE Peek \/ Evict
  BY <1>1, Zenon DEF Peek, Evict, RecordType
<1>2. "log" \in Limiters
  BY Zenon DEF Limiters
<1>3. now' \in Nat
  BY DEF Next, Request, Peek, Reset, Evict, Tick
<1> QED
  BY <1>1, <1>2, <1>3, RecordStep, Zenon DEF Next

-----------------------------------------------------------------------------
(* The fixed window                                                         *)

\* The hypothesis on the cleaner: an idle counter is kept for a window.
KeptForWindow == IdleClean >= Window

FixedType ==
  /\ counter \in [present : BOOLEAN, count : Nat, windowStart : Nat, lastAccess : Nat]
  /\ counter.windowStart <= counter.lastAccess /\ counter.lastAccess <= now
  /\ counter.count <= Limit
  /\ ~counter.present => counter.count = 0

\* The counter is what was admitted since the window began.
FixedInv ==
  /\ RecordType /\ now \in Nat /\ FixedType
  /\ Admitted("fixedwindow", 0, now % Window) = FW!Count(now)

\* Every step keeps the fixed window's counter equal to what it admitted in the window,
\* which needs an idle entry to live as long as the window.
LEMMA FixedStep ==
  ASSUME KeptForWindow, FixedInv, Next
  PROVE  FixedInv'
<1> DEFINE l == "fixedwindow"
<1>0. PICK e \in 0..(Window - 1) : e = now % Window
  BY IntoWindow, Zenon DEF FixedInv
<1>1. /\ RecordType' /\ now' \in Nat /\ l \in Limiters
      /\ Window \in Nat /\ Window > 0 /\ Limit \in Nat /\ Horizon \in Nat /\ Horizon >= Window
      /\ e \in 0..(Window - 1) /\ e \in 0..Horizon /\ 0 \in 0..Horizon /\ 0 <= e
      /\ FW!WindowStart(now) = now - e /\ now - e \in Nat
  <2>1. e \in 0..(Window - 1) /\ FW!WindowStart(now) = now - e
    BY <1>0, IntoWindow, Zenon DEF FixedInv
  <2>2. now - e \in Nat
    <3>1. FW!WindowStart(now) \in Nat
      BY LimiterAssumption DEF FW!WindowStart, FixedInv
    <3> QED
      BY <2>1, <3>1, Zenon
  <2> QED
    BY <2>1, <2>2, RecordTypeStep, LimiterAssumption DEF FixedInv, Limiters
<1>2. FW!Count(now) \in 0..Limit
  BY <1>1 DEF FixedInv, FixedType, FW!Count
<1>3. ASSUME NEW n \in Costs, Request(n) PROVE FixedInv'
  <2>1. now' = now /\ tested' = tested /\ n \in Nat
    BY <1>3, LimiterAssumption, Zenon DEF Request
  <2>2. Admitted(l, 0, e)' = Admitted(l, 0, e) + (IF l \in tested /\ FW!Allows(n, now) THEN n ELSE 0)
    <3>1. Allows(l, n, now) = FW!Allows(n, now)
      BY Zenon DEF Allows
    <3> QED
      BY <1>1, <1>3, <3>1, RecordStep DEF FixedInv
  <2>3. CASE l \notin tested
    <3>1. counter' = counter
      BY <1>3, <2>3, Zenon DEF Request, On
    <3> QED
      BY <1>0, <1>1, <1>2, <2>1, <2>2, <2>3, <3>1 DEF FixedInv, FixedType, FW!Count, FW!WindowStart
  <2>4. CASE l \in tested
    <3> DEFINE c == FW!Count(now) + (IF FW!Allows(n, now) THEN n ELSE 0)
    <3>1. counter' = [FW!GetOrCreate EXCEPT !.count = c, !.windowStart = FW!WindowStart(now), !.lastAccess = now]
      BY <1>3, <2>4, Zenon DEF Request, On, FW!AllowN
    <3>2. c \in 0..Limit
      BY <1>1, <1>2, <2>1 DEF FW!Allows
    <3>3. FW!GetOrCreate \in [present : BOOLEAN, count : Nat, windowStart : Nat, lastAccess : Nat] /\ FW!GetOrCreate.present
      BY <1>1, Zenon DEF FixedInv, FixedType, FW!GetOrCreate
    <3> HIDE DEF c
    <3>4. /\ counter' \in [present : BOOLEAN, count : Nat, windowStart : Nat, lastAccess : Nat]
          /\ counter'.present /\ counter'.count = c /\ counter'.windowStart = now - e /\ counter'.lastAccess = now
      <4>1. c \in Nat /\ FW!WindowStart(now) \in Nat /\ now \in Nat /\ FW!WindowStart(now) = now - e
        BY <1>1, <3>2 DEF FixedInv
      <4> QED
        BY <3>1, <3>3, <4>1, Zenon
    <3>5. FixedType'
      BY <1>1, <2>1, <3>2, <3>4 DEF FixedType, FixedInv
    <3>6. FW!Count(now)' = c
      BY <1>1, <2>1, <3>4, Zenon DEF FW!Count, FW!WindowStart
    <3>7. Admitted(l, 0, now % Window)' = c
      BY <1>0, <2>1, <2>2, <2>4, Zenon DEF FixedInv, c
    <3> QED
      BY <1>1, <3>5, <3>6, <3>7, Zenon DEF FixedInv
  <2> QED
    BY <2>3, <2>4, Zenon
<1>4. ASSUME Peek PROVE FixedInv'
  <2>1. now' = now /\ tested' = tested /\ admitted' = admitted /\ (counter' = counter \/ counter' = FW!GetOrCreate)
    BY <1>4, Zenon DEF Peek, On, FW!Peek
  <2>2. CASE counter' = counter
    BY <1>1, <2>1, <2>2, Zenon DEF FixedInv, FixedType, FW!Count, FW!WindowStart, Admitted
  <2>3. CASE ~counter.present /\ counter' = FW!GetOrCreate
    <3>1. counter' = [present |-> TRUE, count |-> 0, windowStart |-> now - e, lastAccess |-> now]
      BY <1>1, <2>3, ZenonT(60) DEF FW!GetOrCreate
    <3>2. FixedType'
      BY <1>1, <2>1, <3>1 DEF FixedType, FixedInv
    <3>3. FW!Count(now)' = 0 /\ FW!Count(now) = 0
      BY <2>3, <3>1 DEF FixedInv, FixedType, FW!Count
    <3> QED
      BY <1>1, <2>1, <3>2, <3>3, Zenon DEF FixedInv, Admitted
  <2> QED
    BY <2>1, <2>2, <2>3, Zenon DEF FW!GetOrCreate
<1>5. ASSUME Reset PROVE FixedInv'
  <2>1. now' = now /\ counter' = FW!Gone /\ Admitted(l, 0, e)' = 0
    BY <1>1, <1>5, RecordStep DEF Reset, FW!Reset, FixedInv
  <2>2. FixedType' /\ FW!Count(now)' = 0
    BY <1>1, <2>1 DEF FixedType, FixedInv, FW!Gone, FW!Count
  <2> QED
    BY <1>0, <1>1, <2>1, <2>2, Zenon DEF FixedInv
<1>6. ASSUME Evict PROVE FixedInv'
  <2>1. now' = now /\ admitted' = admitted /\ (counter' = counter \/ FW!Evict)
    BY <1>6, Zenon DEF Evict
  <2>2. CASE counter' = counter
    BY <1>1, <2>1, <2>2, ZenonT(60) DEF FixedInv, FixedType, FW!Count, FW!WindowStart, Admitted
  <2>3. CASE FW!Evict
    <3>1. counter.lastAccess < now - IdleClean /\ counter' = FW!Gone
      BY <2>3, Zenon DEF FW!Evict
    <3>2. counter.windowStart # now - e
      BY <1>1, <3>1, LimiterAssumption DEF FixedInv, FixedType, KeptForWindow
    <3>3. FW!Count(now) = 0
      BY <1>1, <3>2, Zenon DEF FW!Count
    <3>4. FixedType' /\ FW!Count(now)' = 0
      BY <1>1, <2>1, <3>1 DEF FixedType, FixedInv, FW!Gone, FW!Count
    <3> QED
      BY <1>1, <2>1, <3>3, <3>4, Zenon DEF FixedInv, Admitted
  <2> QED
    BY <2>1, <2>2, <2>3, Zenon
<1>7. ASSUME Tick PROVE FixedInv'
  <2>1. now' = now + 1 /\ now \in Nat /\ counter' = counter
    BY <1>7, Zenon DEF Tick, FixedInv
  <2>2. \A j \in 0..Horizon : Admitted(l, 0, j)' = Admitted(l, 0, j - 1)
    BY <1>1, <1>7, RecordStep DEF FixedInv
  <2>3. FixedType'
    BY <2>1 DEF FixedInv, FixedType
  <2>4. (now + 1) % Window = (IF e = Window - 1 THEN 0 ELSE e + 1) /\ FW!WindowStart(now + 1) = (now + 1) - ((now + 1) % Window)
    <3>1. now + 1 \in Nat
      BY <2>1
    <3> QED
      BY <1>0, <2>1, <3>1, IntoWindow, Zenon
  <2>5. CASE e = Window - 1
    <3>1. Admitted(l, 0, 0)' = 0
      <4>1. -1 \in Int /\ -1 <= Horizon /\ 0 > -1
        BY <1>1
      <4>2. Admitted(l, 0, -1) = 0
        BY <1>1, <4>1, AdmittedType, Zenon DEF FixedInv
      <4> QED
        BY <1>1, <2>2, <4>2
    <3>2. (now % Window)' = 0 /\ FW!WindowStart(now + 1) = now + 1
      BY <2>1, <2>4, <2>5
    <3>3. FW!Count(now)' = 0
      <4>1. FW!WindowStart(now)' = now + 1
        BY <2>1, <3>2, Zenon DEF FW!WindowStart
      <4>2. counter.windowStart # now + 1
        BY <2>1 DEF FixedInv, FixedType
      <4> QED
        BY <2>1, <4>1, <4>2, Zenon DEF FW!Count
    <3> QED
      BY <1>1, <2>3, <3>1, <3>2, <3>3, Zenon DEF FixedInv
  <2>6. CASE e # Window - 1
    <3>1. (now % Window)' = e + 1 /\ e + 1 \in 0..Horizon /\ (e + 1) - 1 = e
      BY <1>1, <2>1, <2>4, <2>6
    <3>2. Admitted(l, 0, e + 1)' = Admitted(l, 0, e)
      BY <2>2, <3>1, Zenon
    <3>3. FW!WindowStart(now)' = FW!WindowStart(now)
      <4>1. FW!WindowStart(now + 1) = now - e
        BY <1>1, <2>1, <2>4, <2>6
      <4> QED
        BY <1>1, <2>1, <4>1, Zenon DEF FW!WindowStart
    <3>4. FW!Count(now)' = FW!Count(now)
      BY <2>1, <3>3, Zenon DEF FW!Count
    <3> QED
      BY <1>0, <1>1, <2>3, <3>1, <3>2, <3>4, Zenon DEF FixedInv
  <2> QED
    BY <2>5, <2>6, Zenon
<1> QED
  BY <1>3, <1>4, <1>5, <1>6, <1>7, Zenon DEF Next

\* What every limiter starts from.
LEMMA InitRecord ==
  ASSUME Init
  PROVE  /\ RecordType /\ now = 0 /\ now \in Nat
         /\ \A l \in Limiters, i, j \in 0..Horizon : Admitted(l, i, j) = 0
<1>1. RecordType /\ \A l \in Limiters : admitted[l] = Nothing
  BY LimiterAssumption, Zenon DEF Init, RecordType, Nothing, Amounts
<1> QED
  BY <1>1, NothingAdmitted, Zenon DEF Init, Admitted

\* consume of fixedwindow.go admits at most the limit in any window, for every
\* limit, window and history, if an idle key is kept for a window.
THEOREM FixedWindowKeepsLimit == ASSUME KeptForWindow PROVE Spec => []AtMostLimitPerWindow
<1>1. Init => FixedInv
  <2> SUFFICES ASSUME Init PROVE FixedInv
    OBVIOUS
  <2>1. now % Window \in 0..Horizon /\ 0 \in 0..Horizon
    BY InitRecord, IntoWindow, LimiterAssumption
  <2>2. Admitted("fixedwindow", 0, now % Window) = 0
    BY <2>1, InitRecord, Zenon DEF Limiters
  <2>3. counter = FW!Gone
    BY Zenon DEF Init, FW!Init
  <2>4. FW!Count(now) = 0
    BY <2>3, Zenon DEF FW!Count, FW!Gone
  <2> QED
    BY <2>2, <2>3, <2>4, InitRecord, LimiterAssumption DEF FixedInv, FixedType, FW!Gone
<1>2. FixedInv /\ [Next]_vars => FixedInv'
  <2> SUFFICES ASSUME FixedInv, [Next]_vars PROVE FixedInv'
    OBVIOUS
  <2>1. CASE UNCHANGED vars
    BY <2>1, Zenon DEF vars, FixedInv, FixedType, RecordType, Admitted, FW!Count, FW!WindowStart
  <2> QED
    BY <2>1, FixedStep, Zenon
<1>3. FixedInv => AtMostLimitPerWindow
  BY LimiterAssumption DEF FixedInv, FixedType, FW!Count, AtMostLimitPerWindow
<1> QED
  BY <1>1, <1>2, <1>3, PTL DEF Spec

-----------------------------------------------------------------------------
(* The sliding window counter                                               *)

CounterRecords == [present : BOOLEAN, current : Nat, previous : Nat, windowStart : Nat, lastAccess : Nat]

CounterType ==
  /\ counters \in CounterRecords
  /\ counters.windowStart <= now /\ counters.lastAccess <= now
  /\ ~counters.present => counters.current = 0 /\ counters.previous = 0
  /\ counters.current > 0 => counters.windowStart <= counters.lastAccess
  /\ counters.previous > 0 => counters.windowStart <= counters.lastAccess + Window
  /\ counters.current <= Limit /\ counters.previous <= Limit
  /\ counters.previous > 0 => counters.current < Limit

\* The counters as the code finds them once they are moved to the window of a time.
LEMMA RolledIs ==
  ASSUME now \in Nat, CounterType
  PROVE  LET r == SC!Rolled(now)
             start == SC!WindowStart(now)
         IN  /\ r \in CounterRecords /\ r.present /\ r.windowStart = start
             /\ start \in Nat /\ start <= now /\ now < start + Window
             /\ counters.present => r.lastAccess = counters.lastAccess
             /\ ~counters.present => r.lastAccess = now
             /\ counters.windowStart = start => r.current = counters.current /\ r.previous = counters.previous
             /\ counters.windowStart # start =>
                  /\ r.current = 0
                  /\ r.previous = IF counters.windowStart = start - Window THEN counters.current ELSE 0
             /\ r.current <= Limit /\ r.previous <= Limit /\ (r.previous > 0 => r.current < Limit)
             /\ r.current > 0 => start <= r.lastAccess
             /\ r.previous > 0 => start <= r.lastAccess + Window
<1> DEFINE r == SC!Rolled(now)
           start == SC!WindowStart(now)
           kc == SC!GetOrCreate(now)
<1>1. start \in Nat /\ start <= now /\ now < start + Window
  BY StartOfWindow, Zenon
<1>2. /\ kc \in CounterRecords /\ kc.present
      /\ counters.present => kc = counters
      /\ ~counters.present => kc.current = 0 /\ kc.previous = 0 /\ kc.windowStart = start /\ kc.lastAccess = now
  BY <1>1, Zenon DEF CounterType, CounterRecords, SC!GetOrCreate, SC!Gone
<1>3. r = IF kc.windowStart = start THEN kc
          ELSE [kc EXCEPT !.previous = IF kc.windowStart = start - Window THEN kc.current ELSE 0,
                          !.current = 0, !.windowStart = start]
  BY Zenon DEF SC!Rolled
<1> HIDE DEF r, start, kc
<1>4. CASE kc.windowStart = start
  <2>1. r = kc
    BY <1>3, <1>4, Zenon
  <2>2. CASE counters.present
    BY <1>1, <1>2, <1>4, <2>1, <2>2, LimiterAssumption, Zenon DEF CounterType, CounterRecords, r, start
  <2>3. CASE ~counters.present
    BY <1>1, <1>2, <1>4, <2>1, <2>3, LimiterAssumption DEF CounterType, CounterRecords, r, start
  <2> QED
    BY <2>2, <2>3, Zenon
<1>5. CASE kc.windowStart # start
  <2> DEFINE p == IF kc.windowStart = start - Window THEN kc.current ELSE 0
  <2>1. counters.present /\ kc = counters
    BY <1>2, <1>5, Zenon
  <2>2. p \in Nat /\ p <= Limit /\ (p > 0 => counters.windowStart = start - Window /\ counters.current > 0)
    BY <2>1, LimiterAssumption DEF CounterType, CounterRecords
  <2>3. r = [kc EXCEPT !.previous = p, !.current = 0, !.windowStart = start]
    BY <1>3, <1>5, Zenon
  <2>4. p = IF counters.windowStart = start - Window THEN counters.current ELSE 0
    BY <2>1, Zenon
  <2> HIDE DEF p
  <2>5. /\ r \in CounterRecords /\ r.present /\ r.windowStart = start /\ r.current = 0 /\ r.previous = p
        /\ r.lastAccess = counters.lastAccess
    BY <1>1, <1>2, <2>1, <2>2, <2>3, Zenon DEF CounterRecords
  <2>6. p > 0 => start <= counters.lastAccess + Window
    BY <1>1, <2>2, LimiterAssumption DEF CounterType, CounterRecords
  <2> QED
    BY <1>1, <1>5, <2>1, <2>2, <2>4, <2>5, <2>6, LimiterAssumption DEF r, start
<1> QED
  BY <1>4, <1>5, Zenon

\* An admitted request leaves room: within the limit, and strictly when the
\* previous window still weighs.
LEMMA RoomLeft ==
  ASSUME NEW c \in Nat, NEW p \in Nat, NEW n \in Nat, NEW e \in 0..(Window - 1),
         p * (Window - e) + c * Window + n * Window <= Limit * Window
  PROVE  c + n <= Limit /\ (p > 0 => c + n < Limit)
<1>1. Window \in Nat /\ Window > 0 /\ Limit \in Nat
  BY LimiterAssumption
<1>2. PICK w \in Nat : w = Window - e /\ w > 0
  BY <1>1
<1>3. p * w >= 0 /\ (p > 0 => p * w > 0) /\ p * w \in Int
  BY <1>2
<1>4. (c + n) * Window = c * Window + n * Window
  BY <1>1
<1>5. c * Window \in Int /\ n * Window \in Int /\ Limit * Window \in Int
  BY <1>1
<1>6. (c + n) * Window <= Limit * Window /\ (p > 0 => (c + n) * Window < Limit * Window)
  BY <1>2, <1>3, <1>4, <1>5
<1>7. PICK x \in Nat : x = c + n
  OBVIOUS
<1> QED
  BY <1>1, <1>6, <1>7

Start == SC!WindowStart(now)
RolledCurrent == SC!Rolled(now).current
RolledPrevious == SC!Rolled(now).previous

Rolling ==
  /\ Start \in Nat /\ Start <= now /\ now < Start + Window
  /\ RolledCurrent \in 0..Limit /\ RolledPrevious \in 0..Limit
  /\ RolledPrevious > 0 => RolledCurrent < Limit
  /\ counters.windowStart = Start => RolledCurrent = counters.current /\ RolledPrevious = counters.previous
  /\ counters.windowStart # Start =>
       RolledCurrent = 0 /\ RolledPrevious = IF counters.windowStart = Start - Window THEN counters.current ELSE 0

\* The same, in a form that also holds of the next state.
LEMMA RollingIs == now \in Nat /\ CounterType => Rolling
<1> SUFFICES ASSUME now \in Nat, CounterType PROVE Rolling
  BY Zenon
<1>1. Limit \in Nat /\ SC!Rolled(now) \in CounterRecords
  BY RolledIs, LimiterAssumption, Zenon
<1>2. RolledCurrent \in Nat /\ RolledPrevious \in Nat
  BY <1>1, Zenon DEF CounterRecords, RolledCurrent, RolledPrevious
<1> QED
  BY <1>1, <1>2, RolledIs DEF Rolling, Start, RolledCurrent, RolledPrevious

\* A request or a Peek leaves the counters in the window of its time.
LEMMA CounterTypeStep ==
  ASSUME now \in Nat, CounterType, Next
  PROVE  CounterType'
<1>1. /\ Rolling /\ Window \in Nat /\ Window > 0 /\ Limit \in Nat
      /\ SC!Rolled(now) \in CounterRecords
  BY RollingIs, RolledIs, LimiterAssumption
<1>2. CASE counters' = counters /\ now' \in Nat /\ now' >= now
  BY <1>2 DEF CounterType, CounterRecords
<1>3. CASE counters' = SC!Gone /\ now' = now
  BY <1>3, <1>1 DEF CounterType, CounterRecords, SC!Gone
<1>4. ASSUME NEW n \in Costs, SC!AllowN(n), now' = now PROVE CounterType'
  <2>1. PICK m \in Nat : m = (IF SC!Allows(n, now) THEN n ELSE 0)
    BY LimiterAssumption, Zenon
  <2>2. counters' = [SC!Rolled(now) EXCEPT !.lastAccess = now, !.current = @ + m]
    BY <1>4, <2>1, Zenon DEF SC!AllowN
  <2>3. /\ counters' \in CounterRecords /\ counters'.present = SC!Rolled(now).present /\ counters'.windowStart = Start
        /\ counters'.lastAccess = now /\ counters'.previous = RolledPrevious /\ counters'.current = RolledCurrent + m
    <3>1. SC!Rolled(now).windowStart = Start /\ RolledCurrent \in Nat
      BY <1>1, RolledIs DEF Start, Rolling
    <3>2. PICK r \in CounterRecords : r = SC!Rolled(now)
      BY <1>1, Zenon
    <3>3. r.current + m \in Nat
      BY DEF CounterRecords
    <3>4. counters' = [r EXCEPT !.lastAccess = now, !.current = r.current + m]
      BY <2>2, <3>2, ZenonT(60) DEF CounterRecords
    <3>5. /\ counters' \in CounterRecords /\ counters'.present = r.present /\ counters'.windowStart = r.windowStart
          /\ counters'.lastAccess = now /\ counters'.previous = r.previous /\ counters'.current = r.current + m
      BY <3>3, <3>4, Zenon DEF CounterRecords
    <3> QED
      BY <3>1, <3>2, <3>5, Zenon DEF RolledCurrent, RolledPrevious
  <2>4. SC!Rolled(now).present
    BY RolledIs, Zenon
  <2>5. RolledCurrent + m <= Limit /\ (RolledPrevious > 0 => RolledCurrent + m < Limit)
    <3>1. CASE m = 0
      BY <1>1, <3>1 DEF Rolling
    <3>2. CASE SC!Allows(n, now)
      <4>1. PICK e \in 0..(Window - 1) : e = SC!Elapsed(now)
        BY <1>1 DEF Rolling, SC!Elapsed, Start
      <4>2. RolledPrevious * (Window - e) + RolledCurrent * Window + m * Window <= Limit * Window
        BY <2>1, <3>2, <4>1, Zenon DEF SC!Allows, SC!EffectiveTimesWindow, RolledCurrent, RolledPrevious
      <4>3. RolledCurrent \in Nat /\ RolledPrevious \in Nat
        BY <1>1 DEF Rolling
      <4> QED
        BY <4>2, <4>3, RoomLeft, Zenon
    <3> QED
      BY <2>1, <3>1, <3>2, Zenon
  <2> QED
    BY <1>1, <1>4, <2>3, <2>4, <2>5 DEF CounterType, Rolling
<1>5. CASE SC!Peek /\ now' = now
  <2>1. counters' = SC!Rolled(now)
    BY <1>5, ZenonT(60) DEF SC!Peek
  <2>2. SC!Rolled(now).lastAccess <= now /\ SC!Rolled(now).lastAccess \in Nat
    <3>1. counters.lastAccess <= now /\ counters.lastAccess \in Nat /\ now <= now
      BY DEF CounterType, CounterRecords
    <3>2. SC!Rolled(now).lastAccess \in {counters.lastAccess, now}
      BY RolledIs, Zenon
    <3> QED
      BY <3>1, <3>2, Zenon
  <2> QED
    BY <1>1, <1>5, <2>1, <2>2, RolledIs, Zenon DEF CounterType, Rolling, RolledCurrent, RolledPrevious, Start
<1>6. ASSUME NEW n \in Costs, Request(n) PROVE CounterType'
  <2>1. (SC!AllowN(n) \/ counters' = counters) /\ now' = now
    BY <1>6, Zenon DEF Request, On
  <2>2. now' \in Nat /\ now' >= now
    BY <2>1
  <2> QED
    BY <1>2, <1>4, <2>1, <2>2, Zenon
<1>7. CASE Peek
  <2>1. (SC!Peek \/ counters' = counters) /\ now' = now
    BY <1>7, Zenon DEF Peek, On
  <2>2. now' \in Nat /\ now' >= now
    BY <2>1
  <2> QED
    BY <1>2, <1>5, <2>1, <2>2, Zenon
<1>8. CASE Reset
  BY <1>3, <1>8, Zenon DEF Reset, SC!Reset
<1>9. CASE Evict
  BY <1>2, <1>3, <1>9 DEF Evict, SC!Evict
<1>10. CASE Tick
  BY <1>2, <1>10 DEF Tick
<1> QED
  BY <1>6, <1>7, <1>8, <1>9, <1>10, Zenon DEF Next

\* Less is admitted in a shorter time.
LEMMA LessBefore ==
  ASSUME RecordType, NEW l \in Limiters, NEW j \in 0..Horizon
  PROVE  Admitted(l, 0, j - 1) <= Admitted(l, 0, j)
<1>1. \A k \in 0..j : admitted[l][k] \in Nat /\ admitted[l][k] \in Int
  BY LimiterAssumption DEF RecordType, Amounts
<1>2. PICK z \in Int : z = 0
  OBVIOUS
<1>3. /\ SumFunctionOnSet(admitted[l], z..j) = SumFunctionOnSet(admitted[l], z..(j - 1)) + admitted[l][j]
      /\ SumFunctionOnSet(admitted[l], z..(j - 1)) \in Int
  <2>1. j \in Int /\ j - 1 \in Int /\ z <= j /\ (\A k \in z..j : admitted[l][k] \in Int) /\ (\A k \in z..(j - 1) : admitted[l][k] \in Int)
    BY <1>1, <1>2
  <2> QED
    BY <2>1, SumInterval, ZenonT(60)
<1>4. admitted[l][j] \in Nat
  BY <1>1
<1> QED
  BY <1>2, <1>3, <1>4 DEF Admitted

\* What a step makes of the counters as the code will find them.
LEMMA RolledStep ==
  ASSUME now \in Nat, CounterType, Next
  PROVE  /\ \A n \in Costs : Request(n) =>
              /\ RolledPrevious' = RolledPrevious
              /\ RolledCurrent' = RolledCurrent + (IF "counter" \in tested /\ SC!Allows(n, now) THEN n ELSE 0)
         /\ Peek \/ Evict => RolledPrevious' = RolledPrevious /\ RolledCurrent' = RolledCurrent
         /\ Reset => RolledPrevious' = 0 /\ RolledCurrent' = 0
         /\ Tick => IF (now + 1) % Window = 0
                      THEN RolledPrevious' = RolledCurrent /\ RolledCurrent' = 0
                      ELSE RolledPrevious' = RolledPrevious /\ RolledCurrent' = RolledCurrent
<1>1. /\ Rolling /\ Window \in Nat /\ Window > 0 /\ Limit \in Nat
      /\ SC!Rolled(now) \in CounterRecords
  BY RollingIs, RolledIs, LimiterAssumption
<1>2. Rolling'
  <2>1. CounterType' /\ now' \in Nat
    BY CounterTypeStep DEF Next, Request, Peek, Reset, Evict, Tick
  <2>2. (now \in Nat /\ CounterType)' => Rolling'
    BY RollingIs, PTL
  <2> QED
    BY <2>1, <2>2, ZenonT(60)
<1>3. ASSUME now' = now, counters' = counters PROVE RolledPrevious' = RolledPrevious /\ RolledCurrent' = RolledCurrent
  BY <1>3 DEF RolledPrevious, RolledCurrent, SC!Rolled, SC!GetOrCreate, SC!WindowStart
<1>4. ASSUME now' = now PROVE Start' = Start
  BY <1>4, Zenon DEF Start, SC!WindowStart
<1>5. ASSUME now' = now, counters' = SC!Gone PROVE RolledPrevious' = 0 /\ RolledCurrent' = 0
  BY <1>1, <1>2, <1>5, Zenon DEF Rolling, SC!Gone
<1>6. ASSUME NEW n \in Costs, Request(n)
      PROVE  /\ RolledPrevious' = RolledPrevious
             /\ RolledCurrent' = RolledCurrent + (IF "counter" \in tested /\ SC!Allows(n, now) THEN n ELSE 0)
  <2>1. now' = now /\ RolledCurrent \in Nat
    BY <1>1, <1>6 DEF Request, Rolling
  <2>2. CASE "counter" \notin tested
    BY <1>3, <1>6, <2>1, <2>2 DEF Request, On
  <2>3. CASE "counter" \in tested
    <3>1. PICK m \in Nat : m = (IF SC!Allows(n, now) THEN n ELSE 0)
      BY LimiterAssumption
    <3>2. counters' = [SC!Rolled(now) EXCEPT !.lastAccess = now, !.current = @ + m]
      BY <1>6, <2>3, <3>1, Zenon DEF Request, On, SC!AllowN
    <3>3. counters'.windowStart = Start /\ counters'.previous = RolledPrevious /\ counters'.current = RolledCurrent + m
      <4>1. PICK r \in CounterRecords : r = SC!Rolled(now)
        BY <1>1
      <4>2. counters' = [r EXCEPT !.lastAccess = now, !.current = r.current + m]
        BY <3>2, <4>1 DEF CounterRecords
      <4>3. counters'.windowStart = r.windowStart /\ counters'.previous = r.previous /\ counters'.current = r.current + m
        BY <4>2, Zenon DEF CounterRecords
      <4> QED
        BY <4>1, <4>3, RolledIs, Zenon DEF RolledCurrent, RolledPrevious, Start
    <3>4. RolledCurrent' = counters'.current /\ RolledPrevious' = counters'.previous
      BY <1>2, <1>4, <2>1, <3>3, Zenon DEF Rolling
    <3> QED
      BY <2>3, <3>1, <3>3, <3>4, Zenon
  <2> QED
    BY <2>2, <2>3, ZenonT(60)
<1>7. ASSUME Peek PROVE RolledPrevious' = RolledPrevious /\ RolledCurrent' = RolledCurrent
  <2>1. now' = now
    BY <1>7, Zenon DEF Peek
  <2>2. CASE counters' = counters
    BY <1>3, <2>1, <2>2, Zenon
  <2>3. CASE counters' = SC!Rolled(now)
    <3>1. counters'.windowStart = Start /\ counters'.previous = RolledPrevious /\ counters'.current = RolledCurrent
      BY <2>3, RolledIs, Zenon DEF RolledCurrent, RolledPrevious, Start
    <3> QED
      BY <1>2, <1>4, <2>1, <3>1, Zenon DEF Rolling
  <2> QED
    BY <1>7, <2>2, <2>3, Zenon DEF Peek, On, SC!Peek
<1>8. ASSUME Evict PROVE RolledPrevious' = RolledPrevious /\ RolledCurrent' = RolledCurrent
  <2>1. now' = now
    BY <1>8, Zenon DEF Evict
  <2>2. CASE counters' = counters
    BY <1>3, <2>1, <2>2
  <2>3. CASE SC!Evict
    <3>1. counters.present /\ counters.lastAccess < now - 5 * Window /\ counters' = SC!Gone
      BY <2>3, Zenon DEF SC!Evict
    <3>2. counters.lastAccess + 5 * Window < now /\ counters.lastAccess \in Nat
      BY <1>1, <3>1 DEF CounterType, CounterRecords
    <3>3. SC!Rolled(now).lastAccess = counters.lastAccess
      BY <3>1, RolledIs, Zenon
    <3>4. RolledCurrent = 0 /\ RolledPrevious = 0
      BY <1>1, <3>2, <3>3, RolledIs DEF RolledCurrent, RolledPrevious, Rolling, Start
    <3> QED
      BY <1>5, <2>1, <3>1, <3>4, Zenon
  <2> QED
    BY <1>8, <2>2, <2>3, Zenon DEF Evict
<1>9. ASSUME Reset PROVE RolledPrevious' = 0 /\ RolledCurrent' = 0
  BY <1>5, <1>9, Zenon DEF Reset, SC!Reset
<1>10. ASSUME Tick
       PROVE  IF (now + 1) % Window = 0
                THEN RolledPrevious' = RolledCurrent /\ RolledCurrent' = 0
                ELSE RolledPrevious' = RolledPrevious /\ RolledCurrent' = RolledCurrent
  <2>1. now' = now + 1 /\ counters' = counters
    BY <1>10, Zenon DEF Tick
  <2>2. PICK e \in 0..(Window - 1) : e = now % Window
    BY IntoWindow, Zenon
  <2>3. Start = now - e /\ (now + 1) % Window = IF e = Window - 1 THEN 0 ELSE e + 1
    BY <2>2, IntoWindow, Zenon DEF Start
  <2>4. Start' = IF e = Window - 1 THEN now + 1 ELSE now - e
    <3>1. PICK f \in 0..(Window - 1) : f = (now + 1) % Window /\ f = IF e = Window - 1 THEN 0 ELSE e + 1
      BY <1>1, <2>3
    <3>2. SC!WindowStart(now + 1) = (now + 1) - f
      BY <3>1, IntoWindow
    <3> QED
      BY <1>1, <2>1, <3>1, <3>2 DEF Start, SC!WindowStart
  <2>5. CASE e = Window - 1
    <3>1. Start' = Start + Window /\ Start' = now + 1
      BY <1>1, <2>3, <2>4, <2>5
    <3>2. counters.windowStart <= now /\ counters.windowStart \in Nat
      BY Zenon DEF CounterType, CounterRecords
    <3> QED
      BY <1>1, <1>2, <2>1, <2>3, <2>5, <3>1, <3>2 DEF Rolling
  <2>6. CASE e # Window - 1
    <3>1. Start' = Start /\ (now + 1) % Window # 0
      BY <1>1, <2>3, <2>4, <2>6
    <3> QED
      BY <1>1, <1>2, <2>1, <3>1, Zenon DEF Rolling
  <2> QED
    BY <2>5, <2>6, Zenon
<1> QED
  BY <1>6, <1>7, <1>8, <1>9, <1>10, Zenon

\* The current count is what was admitted since the window began, and with
\* the previous one it covers the last Window ticks.
CounterInv ==
  /\ RecordType /\ now \in Nat /\ CounterType
  /\ Admitted("counter", 0, now % Window) = RolledCurrent
  /\ Admitted("counter", 0, Window - 1) <= RolledCurrent + RolledPrevious

\* Every step keeps it.
LEMMA CounterStep ==
  ASSUME CounterInv, Next
  PROVE  CounterInv'
<1> DEFINE l == "counter"
<1>1. /\ RecordType' /\ now' \in Nat /\ CounterType' /\ l \in Limiters
      /\ Window \in Nat /\ Window > 0 /\ Horizon \in Nat /\ Horizon >= Window
      /\ 0 \in 0..Horizon /\ Window - 1 \in 0..Horizon /\ 0 <= Window - 1
  BY RecordTypeStep, CounterTypeStep, LimiterAssumption DEF CounterInv, Limiters
<1>2. PICK e \in 0..(Window - 1) : e = now % Window
  BY IntoWindow, Zenon DEF CounterInv
<1>3. RolledCurrent \in Nat /\ RolledPrevious \in Nat
  BY <1>1, RollingIs, LimiterAssumption DEF CounterInv, Rolling
<1>4. e \in 0..Horizon /\ 0 <= e
  BY <1>1
<1>5. Admitted(l, 0, e) = RolledCurrent /\ Admitted(l, 0, Window - 1) \in Nat
  BY <1>1, <1>2, AdmittedType DEF CounterInv
<1>6. SUFFICES /\ Admitted(l, 0, now % Window)' = RolledCurrent'
               /\ Admitted(l, 0, Window - 1)' <= RolledCurrent' + RolledPrevious'
  BY <1>1, Zenon DEF CounterInv
<1>7. ASSUME NEW n \in Costs, Request(n)
      PROVE  /\ Admitted(l, 0, now % Window)' = RolledCurrent'
             /\ Admitted(l, 0, Window - 1)' <= RolledCurrent' + RolledPrevious'
  <2>1. PICK m \in Nat : m = (IF l \in tested /\ SC!Allows(n, now) THEN n ELSE 0)
    BY LimiterAssumption, Zenon
  <2>2. /\ Admitted(l, 0, e)' = Admitted(l, 0, e) + m
        /\ Admitted(l, 0, Window - 1)' = Admitted(l, 0, Window - 1) + m
    <3>1. Allows(l, n, now) = SC!Allows(n, now)
      BY Zenon DEF Allows
    <3> QED
      BY <1>1, <1>4, <1>7, <2>1, <3>1, RecordStep DEF CounterInv
  <2>3. RolledPrevious' = RolledPrevious /\ RolledCurrent' = RolledCurrent + m /\ now' = now
    BY <1>7, <2>1, RolledStep, Zenon DEF CounterInv, Request
  <2>4. Admitted(l, 0, now % Window)' = Admitted(l, 0, e)'
    BY <1>2, <2>3, Zenon DEF Admitted
  <2> QED
    BY <1>3, <1>5, <2>2, <2>3, <2>4 DEF CounterInv
<1>8. ASSUME Peek \/ Evict
      PROVE  /\ Admitted(l, 0, now % Window)' = RolledCurrent'
             /\ Admitted(l, 0, Window - 1)' <= RolledCurrent' + RolledPrevious'
  <2>1. admitted' = admitted /\ now' = now
    BY <1>8, Zenon DEF Peek, Evict
  <2>2. RolledPrevious' = RolledPrevious /\ RolledCurrent' = RolledCurrent
    BY <1>8, RolledStep, Zenon DEF CounterInv
  <2> QED
    BY <2>1, <2>2, Zenon DEF CounterInv, Admitted
<1>9. ASSUME Reset
      PROVE  /\ Admitted(l, 0, now % Window)' = RolledCurrent'
             /\ Admitted(l, 0, Window - 1)' <= RolledCurrent' + RolledPrevious'
  <2>1. now' = now /\ RolledPrevious' = 0 /\ RolledCurrent' = 0
    BY <1>9, RolledStep, Zenon DEF CounterInv, Reset
  <2>2. Admitted(l, 0, e)' = 0 /\ Admitted(l, 0, Window - 1)' = 0
    BY <1>1, <1>4, <1>9, RecordStep DEF CounterInv
  <2>3. Admitted(l, 0, now % Window)' = Admitted(l, 0, e)'
    BY <1>2, <2>1, Zenon DEF Admitted
  <2> QED
    BY <2>1, <2>2, <2>3
<1>10. ASSUME Tick
       PROVE  /\ Admitted(l, 0, now % Window)' = RolledCurrent'
              /\ Admitted(l, 0, Window - 1)' <= RolledCurrent' + RolledPrevious'
  <2>1. now' = now + 1
    BY <1>10, Zenon DEF Tick
  <2>2. PICK f \in 0..(Window - 1) : f = (now + 1) % Window /\ f = IF e = Window - 1 THEN 0 ELSE e + 1
    <3>1. (now + 1) % Window = IF e = Window - 1 THEN 0 ELSE e + 1
      BY <1>2, IntoWindow, Zenon DEF CounterInv
    <3> QED
      BY <1>1, <3>1
  <2>3. /\ Admitted(l, 0, f)' = Admitted(l, 0, f - 1)
        /\ Admitted(l, 0, Window - 1)' = Admitted(l, 0, (Window - 1) - 1)
    <3>1. f \in 0..Horizon /\ 0 <= f
      BY <1>1
    <3> QED
      BY <1>1, <1>10, <3>1, RecordStep, ZenonT(60) DEF CounterInv
  <2>4. Admitted(l, 0, (Window - 1) - 1) <= Admitted(l, 0, Window - 1) /\ Admitted(l, 0, (Window - 1) - 1) \in Nat
    <3>1. (Window - 1) - 1 \in Int /\ (Window - 1) - 1 <= Horizon
      BY <1>1
    <3> QED
      BY <1>1, <3>1, LessBefore, AdmittedType, Zenon DEF CounterInv
  <2>5. Admitted(l, 0, now % Window)' = Admitted(l, 0, f)'
    BY <2>1, <2>2, Zenon DEF Admitted
  <2>6. IF f = 0 THEN RolledPrevious' = RolledCurrent /\ RolledCurrent' = 0
                 ELSE RolledPrevious' = RolledPrevious /\ RolledCurrent' = RolledCurrent
    BY <1>10, <2>2, RolledStep, ZenonT(60) DEF CounterInv
  <2>7. CASE e = Window - 1
    <3>1. Admitted(l, 0, f - 1) = 0
      BY <1>1, <2>2, <2>7, AdmittedType DEF CounterInv
    <3> QED
      BY <1>3, <1>5, <2>2, <2>3, <2>4, <2>5, <2>6, <2>7, <3>1
  <2>8. CASE e # Window - 1
    <3>1. f = e + 1 /\ f - 1 = e /\ f # 0
      BY <2>2, <2>8
    <3> QED
      BY <1>3, <1>5, <2>3, <2>4, <2>5, <2>6, <3>1 DEF CounterInv
  <2> QED
    BY <2>7, <2>8, Zenon
<1> QED
  BY <1>7, <1>8, <1>9, <1>10, Zenon DEF Next

\* consume of counter.go: the weighted estimate lets less than twice the limit
\* through in any span of one window, and no more than the limit in a window
\* of the clock, for every limit, window and history; the cleaner of that file
\* waits five windows, and needs no hypothesis.
THEOREM SlidingCounterKeepsBound == Spec => []SlidingCounterBound
<1>1. Init => CounterInv
  <2> SUFFICES ASSUME Init PROVE CounterInv
    BY Zenon
  <2>1. counters = SC!Gone
    BY Zenon DEF Init, SC!Init
  <2>2. CounterType
    BY <2>1, InitRecord, LimiterAssumption DEF CounterType, CounterRecords, SC!Gone
  <2>3. RolledCurrent = 0 /\ RolledPrevious = 0
    BY <2>1, <2>2, InitRecord, RollingIs, LimiterAssumption, Zenon DEF Rolling, SC!Gone
  <2>4. now % Window \in 0..Horizon /\ Window - 1 \in 0..Horizon /\ 0 \in 0..Horizon
    BY InitRecord, IntoWindow, LimiterAssumption
  <2>5. Admitted("counter", 0, now % Window) = 0 /\ Admitted("counter", 0, Window - 1) = 0
    BY <2>4, InitRecord, Zenon DEF Limiters
  <2> QED
    BY <2>2, <2>3, <2>5, InitRecord DEF CounterInv
<1>2. CounterInv /\ [Next]_vars => CounterInv'
  <2> SUFFICES ASSUME CounterInv, [Next]_vars PROVE CounterInv'
    BY Zenon
  <2>1. CASE UNCHANGED vars
    BY <2>1 DEF vars, CounterInv, CounterType, RecordType, Admitted, RolledCurrent, RolledPrevious,
                SC!Rolled, SC!GetOrCreate, SC!WindowStart
  <2> QED
    BY <2>1, CounterStep, Zenon
<1>3. CounterInv => SlidingCounterBound
  <2> SUFFICES ASSUME CounterInv PROVE SlidingCounterBound
    BY Zenon
  <2>1. Rolling /\ Limit \in Nat /\ Limit > 0
    BY RollingIs, LimiterAssumption DEF CounterInv
  <2>2. Admitted("counter", 0, Window - 1) \in Nat
    BY AdmittedType, LimiterAssumption DEF CounterInv, Limiters
  <2> QED
    BY <2>1, <2>2 DEF CounterInv, Rolling, SlidingCounterBound
<1> QED
  BY <1>1, <1>2, <1>3, PTL DEF Spec

-----------------------------------------------------------------------------
(* The sliding window log                                                   *)

\* From index f on, and only there, the timestamps are not before the cutoff.
Splits(ts, cutoff, f) == f \in 1..(Len(ts) + 1) /\ \A i \in 1..Len(ts) : ts[i] >= cutoff <=> i >= f

\* Exactly a of the timestamps are not before the cutoff, and they are the last.
Holds(ts, cutoff, a) == \E f \in 1..(Len(ts) + 1) : Splits(ts, cutoff, f) /\ a = Len(ts) - f + 1

\* sort.Search of pruneLocked finds where the timestamps split.
LEMMA SearchFinds ==
  ASSUME keyLog.timestamps \in Seq(Nat), NEW cutoff \in Int, NEW f, Splits(keyLog.timestamps, cutoff, f)
  PROVE  SL!Search(cutoff) = f
<1> DEFINE ts == keyLog.timestamps
           Found(i) == (\A j \in 1..(i - 1) : ts[j] < cutoff) /\ (i <= Len(ts) => ts[i] >= cutoff)
<1>1. Len(ts) \in Nat /\ \A i \in 1..Len(ts) : ts[i] \in Nat
  OBVIOUS
<1>2. f \in 1..(Len(ts) + 1) /\ Found(f)
  BY <1>1 DEF Splits
<1>3. ASSUME NEW i \in 1..(Len(ts) + 1), Found(i) PROVE i = f
  <2>1. CASE i < f
    BY <1>1, <1>2, <1>3, <2>1 DEF Splits
  <2>2. CASE i > f
    <3>1. f \in 1..(i - 1) /\ f \in 1..Len(ts)
      BY <1>1, <1>2, <2>2
    <3>2. ts[f] < cutoff
      BY <1>3, <3>1, Zenon
    <3>3. ts[f] >= cutoff /\ ts[f] \in Nat
      BY <1>1, <1>2, <3>1
    <3> QED
      BY <3>2, <3>3
  <2> QED
    BY <1>1, <1>2, <2>1, <2>2
<1>4. SL!Search(cutoff) = CHOOSE i \in 1..(Len(ts) + 1) : Found(i)
  BY Zenon DEF SL!Search
<1> HIDE DEF Found, ts
<1> QED
  BY <1>2, <1>3, <1>4, Zenon

\* Pruning to an earlier cutoff keeps the count.
LEMMA HoldsPruned ==
  ASSUME NEW ts \in Seq(Nat), NEW c \in Int, NEW early \in Int, early <= c,
         NEW F, Splits(ts, early, F), NEW a \in Int, Holds(ts, c, a)
  PROVE  /\ SubSeq(ts, F, Len(ts)) \in Seq(Nat) /\ Len(SubSeq(ts, F, Len(ts))) = Len(ts) - F + 1
         /\ Holds(SubSeq(ts, F, Len(ts)), c, a)
<1> DEFINE s == SubSeq(ts, F, Len(ts))
<1>1. /\ Len(ts) \in Nat /\ F \in 1..(Len(ts) + 1)
      /\ \A i \in 1..Len(ts) : ts[i] \in Nat
  BY DEF Splits
<1>2. s \in Seq(Nat) /\ Len(s) = Len(ts) - F + 1 /\ \A i \in 1..Len(s) : s[i] = ts[F + i - 1]
  <2>1. s \in Seq(Nat) /\ Len(s) = Len(ts) - F + 1
    BY <1>1
  <2> QED
    BY <1>1, <2>1
<1> HIDE DEF s
<1>3. PICK f \in 1..(Len(ts) + 1) : Splits(ts, c, f) /\ a = Len(ts) - f + 1
  BY Zenon DEF Holds
<1>4. f >= F
  <2> SUFFICES ASSUME f < F PROVE FALSE
    BY <1>1
  <2>1. f \in 1..Len(ts)
    BY <1>1
  <2>2. ts[f] >= c /\ ts[f] \in Nat
    BY <1>1, <1>3, <2>1 DEF Splits
  <2>3. ts[f] >= early
    BY <2>2
  <2> QED
    BY <1>1, <2>1, <2>3 DEF Splits
<1>5. PICK g \in 1..(Len(s) + 1) : g = f - F + 1
  BY <1>1, <1>2, <1>4
<1>6. ASSUME NEW i \in 1..Len(s) PROVE s[i] >= c <=> i >= g
  <2>1. F + i - 1 \in 1..Len(ts)
    BY <1>1, <1>2
  <2>2. s[i] = ts[F + i - 1]
    BY <1>2, Zenon
  <2>3. ts[F + i - 1] >= c <=> F + i - 1 >= f
    BY <1>3, <2>1, Zenon DEF Splits
  <2>4. F + i - 1 >= f <=> i >= g
    BY <1>1, <1>2, <1>5
  <2> QED
    BY <2>2, <2>3, <2>4, Zenon
<1>7. a = Len(s) - g + 1
  BY <1>1, <1>2, <1>3, <1>5
<1>8. Holds(s, c, a)
  BY <1>5, <1>6, <1>7, Zenon DEF Holds, Splits
<1> QED
  BY <1>2, <1>8, Zenon DEF s

\* Requests of now come after every timestamp.
LEMMA HoldsAppended ==
  ASSUME NEW ts \in Seq(Nat), NEW t \in Nat, NEW c \in Int, c <= t,
         NEW new \in Seq(Nat), \A i \in 1..Len(new) : new[i] = t,
         NEW a \in Int, Holds(ts, c, a)
  PROVE  Holds(ts \o new, c, a + Len(new))
<1> DEFINE s == ts \o new
           m == Len(new)
<1>1. m \in Nat
  OBVIOUS
<1>2. s \in Seq(Nat) /\ Len(s) = Len(ts) + m
  OBVIOUS
<1>3. \A i \in 1..Len(s) : s[i] = IF i <= Len(ts) THEN ts[i] ELSE t
  BY <1>2
<1> HIDE DEF s, m
<1>4. Len(ts) \in Nat /\ \A i \in 1..Len(ts) : ts[i] \in Nat
  OBVIOUS
<1>5. PICK f \in 1..(Len(ts) + 1) : Splits(ts, c, f) /\ a = Len(ts) - f + 1
  BY Zenon DEF Holds
<1>6. ASSUME NEW i \in 1..Len(s) PROVE s[i] >= c <=> i >= f
  <2>1. CASE i <= Len(ts)
    <3>1. i \in 1..Len(ts) /\ s[i] = ts[i]
      BY <1>1, <1>2, <1>3, <1>4, <2>1
    <3> QED
      BY <1>5, <3>1, Zenon DEF Splits
  <2>2. CASE i > Len(ts)
    <3>1. s[i] = t /\ i >= f
      BY <1>2, <1>3, <1>4, <1>5, <2>2
    <3> QED
      BY <3>1, Zenon
  <2> QED
    BY <1>4, <2>1, <2>2
<1>7. f \in 1..(Len(s) + 1) /\ a + m = Len(s) - f + 1
  BY <1>1, <1>2, <1>4, <1>5
<1>8. Holds(s, c, a + m)
  BY <1>6, <1>7, Zenon DEF Holds, Splits
<1> QED
  BY <1>8, Zenon DEF s, m

LogRecords == [present : BOOLEAN, timestamps : Seq(Nat), lastAccess : Nat]

LogType ==
  /\ keyLog \in LogRecords
  /\ keyLog.lastAccess <= now
  /\ \A i \in 1..Len(keyLog.timestamps) : keyLog.timestamps[i] <= keyLog.lastAccess

\* For every age up to the window, the log holds as many timestamps of that
\* age or younger as were admitted since.
LogInv ==
  /\ RecordType /\ now \in Nat /\ LogType
  /\ \A k \in 0..Window : Holds(keyLog.timestamps, now - k, Admitted("log", 0, k))

\* The timestamps after the first few.
LEMMA SuffixIs ==
  ASSUME NEW s \in Seq(Nat), NEW f \in 1..(Len(s) + 1), NEW i \in 1..(Len(s) - f + 1)
  PROVE  SubSeq(s, f, Len(s))[i] = s[f + i - 1] /\ f + i - 1 \in 1..Len(s)
<1>1. PICK n \in Nat : n = Len(s)
  OBVIOUS
<1>2. f + i - 1 \in 1..n
  BY <1>1
<1> QED
  BY <1>1, <1>2

\* What pruneLocked leaves.
LEMMA PrunedIs ==
  ASSUME LogInv
  PROVE  /\ SL!Pruned(now) \in Seq(Nat)
         /\ Len(SL!Pruned(now)) = Admitted("log", 0, Window)
         /\ \A i \in 1..Len(SL!Pruned(now)) : SL!Pruned(now)[i] <= keyLog.lastAccess
         /\ \A k \in 0..Window : Holds(SL!Pruned(now), now - k, Admitted("log", 0, k))
<1> DEFINE ts == keyLog.timestamps
<1>1. /\ Window \in Nat /\ Window \in 0..Window /\ now \in Nat /\ now - Window \in Int
      /\ ts \in Seq(Nat) /\ Len(ts) \in Nat
      /\ \A k \in 0..Window : Admitted("log", 0, k) \in Int
  <2>1. "log" \in Limiters /\ 0 \in 0..Horizon /\ Horizon \in Nat /\ Window \in Nat /\ Window <= Horizon
    BY LimiterAssumption DEF Limiters
  <2> QED
    BY <2>1, AdmittedType DEF LogInv, LogType, LogRecords
<1>2. PICK f \in 1..(Len(ts) + 1) : Splits(ts, now - Window, f) /\ Admitted("log", 0, Window) = Len(ts) - f + 1
  BY <1>1, Zenon DEF LogInv, Holds
<1>3. SL!Pruned(now) = SubSeq(ts, f, Len(ts))
  <2>1. SL!Search(now - Window) = f
    BY <1>1, <1>2, SearchFinds, Zenon
  <2> QED
    BY <2>1, Zenon DEF SL!Pruned
<1>4. ASSUME NEW k \in 0..Window
      PROVE  /\ SubSeq(ts, f, Len(ts)) \in Seq(Nat) /\ Len(SubSeq(ts, f, Len(ts))) = Len(ts) - f + 1
             /\ Holds(SubSeq(ts, f, Len(ts)), now - k, Admitted("log", 0, k))
  <2>1. now - k \in Int /\ now - Window <= now - k /\ Holds(ts, now - k, Admitted("log", 0, k))
    BY <1>1 DEF LogInv
  <2> HIDE DEF ts
  <2> QED
    BY <1>1, <1>2, <2>1, HoldsPruned, Zenon
<1>5. \A i \in 1..(Len(ts) - f + 1) : SubSeq(ts, f, Len(ts))[i] = ts[f + i - 1] /\ f + i - 1 \in 1..Len(ts)
  <2> HIDE DEF ts
  <2> QED
    BY <1>1, SuffixIs, Zenon
<1>6. \A i \in 1..(Len(ts) - f + 1) : SubSeq(ts, f, Len(ts))[i] <= keyLog.lastAccess
  BY <1>5, Zenon DEF LogInv, LogType
<1>7. SubSeq(ts, f, Len(ts)) \in Seq(Nat) /\ Len(SubSeq(ts, f, Len(ts))) = Len(ts) - f + 1
  BY <1>1, <1>4, Zenon
<1> HIDE DEF ts
<1> QED
  BY <1>2, <1>3, <1>4, <1>6, <1>7, Zenon

\* A log idle for two windows has nothing left in the window.
LEMMA IdleLogIsEmpty ==
  ASSUME LogInv, keyLog.lastAccess < now - 2 * Window, NEW k \in 0..Window
  PROVE  Admitted("log", 0, k) = 0
<1> DEFINE ts == keyLog.timestamps
<1>1. /\ Window \in Nat /\ now \in Nat /\ ts \in Seq(Nat) /\ Len(ts) \in Nat /\ keyLog.lastAccess \in Nat
      /\ \A i \in 1..Len(ts) : ts[i] \in Nat /\ ts[i] <= keyLog.lastAccess
  BY LimiterAssumption DEF LogInv, LogType, LogRecords
<1>2. PICK f \in 1..(Len(ts) + 1) : Splits(ts, now - k, f) /\ Admitted("log", 0, k) = Len(ts) - f + 1
  BY Zenon DEF LogInv, Holds
<1>3. \A i \in 1..Len(ts) : ~(ts[i] >= now - k)
  <2>1. \A x \in Nat : x <= keyLog.lastAccess => ~(x >= now - k)
    BY <1>1
  <2> QED
    BY <1>1, <2>1, Zenon
<1>4. f \notin 1..Len(ts)
  BY <1>1, <1>2, <1>3 DEF Splits
<1> HIDE DEF ts
<1> QED
  BY <1>1, <1>2, <1>4

\* Every step keeps it.
LEMMA LogStep ==
  ASSUME LogInv, Next
  PROVE  LogInv'
<1> DEFINE l == "log"
           A(k) == Admitted("log", 0, k)
<1>1. /\ RecordType' /\ now' \in Nat /\ l \in Limiters
      /\ Window \in Nat /\ Window > 0 /\ Horizon \in Nat /\ Horizon >= Window
      /\ 0 \in 0..Horizon
  BY RecordTypeStep, LimiterAssumption DEF LogInv, Limiters
<1>2. \A k \in 0..Window : k \in 0..Horizon /\ 0 <= k /\ A(k) \in Int
  BY <1>1, AdmittedType DEF LogInv
<1>3. keyLog \in LogRecords /\ now \in Nat /\ LogType
  BY Zenon DEF LogInv, LogType
<1>4. ASSUME NEW s \in Seq(Nat), NEW t \in Nat, s = keyLog'.timestamps, t = now', LogType',
             \A k \in 0..Window : Holds(s, t - k, Admitted(l, 0, k)')
      PROVE  LogInv'
  BY <1>1, <1>4, Zenon DEF LogInv, Holds, Splits
<1>5. ASSUME UNCHANGED <<keyLog, now, admitted>> PROVE LogInv'
  BY <1>5, Zenon DEF LogInv, LogType, RecordType, Admitted, Holds, Splits
<1>6. ASSUME NEW k \in 0..Window, NEW t \in Int PROVE Holds(<< >>, t, 0)
  BY DEF Holds, Splits
<1>7. ASSUME NEW n \in Costs, Request(n) PROVE LogInv'
  <2>1. now' = now
    BY <1>7, Zenon DEF Request
  <2>2. CASE l \notin tested
    <3>1. keyLog' = keyLog
      BY <1>7, <2>2, Zenon DEF Request, On
    <3>2. \A k \in 0..Window : A(k)' = A(k)
      BY <1>1, <1>2, <1>7, <2>2, RecordStep DEF LogInv
    <3>3. LogType'
      BY <1>3, <2>1, <3>1, Zenon DEF LogType
    <3>4. keyLog.timestamps \in Seq(Nat) /\ \A k \in 0..Window : Holds(keyLog.timestamps, now - k, A(k)')
      BY <3>2, Zenon DEF LogInv, LogType, LogRecords
    <3> QED
      BY <1>3, <1>4, <2>1, <3>1, <3>3, <3>4, Zenon
  <2>3. CASE l \in tested
    <3>1. PICK m \in Nat : m = (IF SL!Allows(n, now) THEN n ELSE 0)
      BY LimiterAssumption, Zenon
    <3>2. PICK p \in Seq(Nat) : p = SL!Pruned(now)
      BY PrunedIs, Zenon
    <3> DEFINE s == p \o [i \in 1..m |-> now]
    <3>3. keyLog' = [present |-> TRUE, lastAccess |-> now, timestamps |-> s]
      BY <1>7, <2>3, <3>1, <3>2, ZenonT(60) DEF Request, On, SL!AllowN
    <3>4. \A k \in 0..Window : A(k)' = A(k) + m
      <4>1. Allows(l, n, now) = SL!Allows(n, now)
        BY Zenon DEF Allows
      <4> QED
        BY <1>1, <1>2, <1>7, <2>3, <3>1, <4>1, RecordStep DEF LogInv
    <3>5. ASSUME NEW k \in 0..Window
          PROVE  /\ s \in Seq(Nat) /\ Len(s) = Len(p) + m /\ Holds(s, now - k, A(k) + m)
                 /\ \A i \in 1..Len(s) : s[i] = IF i <= Len(p) THEN p[i] ELSE now
      <4>1. Holds(p, now - k, A(k)) /\ now - k \in Int /\ now - k <= now /\ A(k) \in Int /\ now \in Nat
        BY <1>2, <1>3, <3>2, PrunedIs
      <4>2. PICK a \in Int, c \in Int : a = A(k) /\ c = now - k
        BY <4>1, Zenon
      <4> DEFINE new == [i \in 1..m |-> now]
      <4>3. new \in Seq(Nat) /\ Len(new) = m /\ \A i \in 1..Len(new) : new[i] = now
        BY <4>1
      <4>4. Holds(p \o new, c, a + Len(new))
        <5> HIDE DEF new
        <5>1. PICK t \in Nat : t = now
          BY <4>1, Zenon
        <5>2. c <= t /\ \A i \in 1..Len(new) : new[i] = t
          BY <4>1, <4>2, <4>3, <5>1, Zenon
        <5>3. Holds(p, c, a)
          BY <4>1, <4>2, Zenon
        <5> QED
          BY <4>3, <5>2, <5>3, HoldsAppended, Zenon
      <4>6. /\ p \o new \in Seq(Nat) /\ Len(p \o new) = Len(p) + Len(new)
            /\ \A i \in 1..Len(p \o new) : (p \o new)[i] = IF i <= Len(p) THEN p[i] ELSE now
        <5> HIDE DEF new
        <5>1. p \o new \in Seq(Nat) /\ Len(p \o new) = Len(p) + Len(new)
          BY <4>3
        <5> QED
          BY <4>3, <5>1
      <4>5. p \o new = s
        BY Zenon
      <4> HIDE DEF s, new
      <4> QED
        BY <4>2, <4>3, <4>4, <4>5, <4>6, Zenon
    <3>6. 0 \in 0..Window /\ s \in Seq(Nat)
      BY <1>1, <3>5
    <3>7. \A i \in 1..Len(s) : s[i] <= now
      <4>1. \A i \in 1..Len(p) : p[i] <= now
        <5>1. \A i \in 1..Len(p) : p[i] <= keyLog.lastAccess /\ p[i] \in Nat
          BY <3>2, PrunedIs
        <5> QED
          BY <1>3, <5>1 DEF LogType, LogRecords
      <4>2. \A i \in 1..Len(s) : s[i] = IF i <= Len(p) THEN p[i] ELSE now
        BY <3>5, <3>6, Zenon
      <4>3. Len(p) \in Nat /\ Len(s) \in Nat
        BY <3>6
      <4> HIDE DEF s
      <4> QED
        BY <1>3, <4>1, <4>2, <4>3
    <3> HIDE DEF s
    <3>8. LogType'
      BY <1>3, <2>1, <3>3, <3>6, <3>7 DEF LogType, LogRecords
    <3>9. \A k \in 0..Window : Holds(s, now - k, A(k)')
      BY <3>4, <3>5, Zenon
    <3>10. keyLog'.timestamps = s
      BY <3>3, Zenon
    <3> QED
      BY <1>3, <1>4, <2>1, <3>6, <3>8, <3>9, <3>10, Zenon
  <2> QED
    BY <2>2, <2>3, Zenon
<1>8. ASSUME Peek PROVE LogInv'
  <2>1. now' = now /\ admitted' = admitted
    BY <1>8, Zenon DEF Peek
  <2>2. CASE keyLog' = keyLog
    BY <1>5, <2>1, <2>2, Zenon
  <2>3. CASE SL!Peek
    <3>1. PICK p \in Seq(Nat) : p = SL!Pruned(now)
      BY PrunedIs, Zenon
    <3>2. PICK g \in LogRecords : g = SL!GetOrCreate /\ g.lastAccess >= keyLog.lastAccess /\ g.lastAccess <= now
      <4>1. CASE keyLog.present
        BY <1>3, <4>1 DEF SL!GetOrCreate, LogType, LogRecords
      <4>2. CASE ~keyLog.present
        <5>1. SL!GetOrCreate = [present |-> TRUE, timestamps |-> << >>, lastAccess |-> now]
          BY <4>2, Zenon DEF SL!GetOrCreate, SL!Gone
        <5>2. SL!GetOrCreate \in LogRecords /\ SL!GetOrCreate.lastAccess = now
          <6>1. << >> \in Seq(Nat) /\ TRUE \in BOOLEAN /\ now \in Nat
            BY <1>3
          <6> QED
            BY <5>1, <6>1, Zenon DEF LogRecords
        <5>3. keyLog.lastAccess \in Nat /\ keyLog.lastAccess <= now
          BY <1>3, Zenon DEF LogType, LogRecords
        <5> QED
          BY <1>3, <5>2, <5>3
      <4> QED
        BY <4>1, <4>2, Zenon
    <3>3. keyLog' = [g EXCEPT !.timestamps = p]
      BY <2>3, <3>1, <3>2, Zenon DEF SL!Peek
    <3>4. keyLog' \in LogRecords /\ keyLog'.timestamps = p /\ keyLog'.lastAccess = g.lastAccess
      BY <3>3, Zenon DEF LogRecords
    <3>5. \A i \in 1..Len(p) : p[i] <= g.lastAccess
      <4>1. \A i \in 1..Len(p) : p[i] <= keyLog.lastAccess /\ p[i] \in Nat
        BY <3>1, PrunedIs
      <4>2. keyLog.lastAccess \in Nat /\ g.lastAccess \in Nat
        BY <1>3, Zenon DEF LogRecords
      <4> QED
        BY <3>2, <4>1, <4>2
    <3>6. LogType'
      BY <2>1, <3>2, <3>4, <3>5, Zenon DEF LogType
    <3>7. ASSUME NEW k \in 0..Window PROVE Holds(p, now - k, A(k)')
      <4>1. A(k)' = A(k)
        BY <2>1, Zenon DEF Admitted
      <4>2. Holds(p, now - k, A(k))
        BY <3>1, PrunedIs, Zenon
      <4> QED
        BY <4>1, <4>2, Zenon
    <3> QED
      BY <1>3, <1>4, <2>1, <3>4, <3>6, <3>7, Zenon
  <2> QED
    BY <1>8, <2>2, <2>3, Zenon DEF Peek, On
<1>9. ASSUME keyLog' = SL!Gone, now' = now, \A k \in 0..Window : A(k)' = 0 PROVE LogInv'
  <2>1. keyLog'.timestamps = << >> /\ LogType' /\ << >> \in Seq(Nat)
    BY <1>3, <1>9 DEF LogType, LogRecords, SL!Gone
  <2>2. \A k \in 0..Window : Holds(<< >>, now - k, A(k)')
    <3>1. \A k \in 0..Window : now - k \in Int
      BY <1>3
    <3> QED
      BY <1>6, <1>9, <3>1, Zenon
  <2> QED
    BY <1>3, <1>4, <1>9, <2>1, <2>2, Zenon
<1>10. ASSUME Reset PROVE LogInv'
  <2>1. \A k \in 0..Window : A(k)' = 0
    BY <1>1, <1>2, <1>10, RecordStep DEF LogInv
  <2> QED
    BY <1>9, <1>10, <2>1, ZenonT(60) DEF Reset, SL!Reset
<1>11. ASSUME Evict PROVE LogInv'
  <2>1. now' = now /\ admitted' = admitted
    BY <1>11, Zenon DEF Evict
  <2>2. CASE keyLog' = keyLog
    BY <1>5, <2>1, <2>2
  <2>3. CASE SL!Evict
    <3>1. keyLog.lastAccess < now - 2 * Window /\ keyLog' = SL!Gone
      BY <2>3, Zenon DEF SL!Evict
    <3>2. \A k \in 0..Window : A(k) = 0
      BY <3>1, IdleLogIsEmpty, Zenon
    <3>3. \A k \in 0..Window : A(k)' = A(k)
      BY <2>1, Zenon DEF Admitted
    <3> QED
      BY <1>9, <2>1, <3>1, <3>2, <3>3, Zenon
  <2> QED
    BY <1>11, <2>2, <2>3, Zenon DEF Evict
<1>12. ASSUME Tick PROVE LogInv'
  <2>1. now' = now + 1 /\ keyLog' = keyLog
    BY <1>12, Zenon DEF Tick
  <2>2. \A k \in 0..Window : A(k)' = A(k - 1)
    BY <1>1, <1>2, <1>12, RecordStep, Zenon DEF LogInv
  <2>3. PICK ts \in Seq(Nat) : ts = keyLog.timestamps
    BY <1>3, Zenon DEF LogRecords
  <2>4. LogType'
    BY <1>3, <2>1 DEF LogType, LogRecords
  <2>5. ASSUME NEW k \in 0..Window PROVE Holds(ts, (now + 1) - k, A(k)')
    <3>1. CASE k = 0
      <4>1. A(k)' = 0
        <5>1. Admitted(l, 0, k - 1) = 0
          BY <1>1, <3>1, AdmittedType DEF LogInv
        <5> QED
          BY <2>2, <5>1, Zenon
      <4>2. \A i \in 1..Len(ts) : ts[i] \in Nat /\ ts[i] <= now
        BY <1>3, <2>3 DEF LogType, LogRecords
      <4>3. Len(ts) \in Nat /\ Len(ts) + 1 \in 1..(Len(ts) + 1) /\ 0 = Len(ts) - (Len(ts) + 1) + 1
        OBVIOUS
      <4>4. Splits(ts, (now + 1) - k, Len(ts) + 1)
        BY <1>3, <3>1, <4>2, <4>3 DEF Splits
      <4> QED
        BY <4>1, <4>3, <4>4, Zenon DEF Holds
    <3>2. CASE k # 0
      <4>1. k - 1 \in 0..Window /\ now - (k - 1) = (now + 1) - k
        BY <1>1, <1>3, <3>2
      <4>2. Holds(ts, now - (k - 1), A(k - 1))
        BY <2>3, <4>1, Zenon DEF LogInv
      <4> QED
        BY <2>2, <4>1, <4>2, Zenon
    <3> QED
      BY <3>1, <3>2, Zenon
  <2> QED
    BY <1>3, <1>4, <2>1, <2>3, <2>4, <2>5
<1> QED
  BY <1>7, <1>8, <1>10, <1>11, <1>12, Zenon DEF Next

\* A log that was never used has nothing to count.
LEMMA InitLog == Init => LogInv
<1> SUFFICES ASSUME Init PROVE LogInv
  OBVIOUS
<1>1. keyLog = SL!Gone
  BY Zenon DEF Init, SL!Init
<1>2. LogType /\ keyLog.timestamps = << >>
  BY <1>1, InitRecord DEF LogType, LogRecords, SL!Gone
<1>3. ASSUME NEW k \in 0..Window PROVE Holds(<< >>, now - k, Admitted("log", 0, k))
  <2>1. Admitted("log", 0, k) = 0
    <3>1. "log" \in Limiters /\ 0 \in 0..Horizon /\ k \in 0..Horizon
      BY LimiterAssumption DEF Limiters
    <3> QED
      BY <3>1, InitRecord, Zenon
  <2> QED
    BY <2>1 DEF Holds, Splits
<1> QED
  BY <1>2, <1>3, InitRecord, Zenon DEF LogInv

\* consume of log.go: a request is admitted if and only if the limit is kept
\* with it over the window that ends now, for every limit, window and history;
\* the cleaner of that file waits two windows, and needs no hypothesis.
THEOREM SlidingLogIsExact == Spec => []SlidingLogExact
<1>1. Init => LogInv
  BY InitLog, Zenon
<1>2. LogInv /\ [Next]_vars => LogInv'
  <2> SUFFICES ASSUME LogInv, [Next]_vars PROVE LogInv'
    OBVIOUS
  <2>1. CASE UNCHANGED vars
    BY <2>1, Zenon DEF vars, LogInv, LogType, RecordType, Admitted, Holds, Splits
  <2> QED
    BY <2>1, LogStep
<1>3. LogInv => SlidingLogExact
  BY PrunedIs, Zenon DEF SlidingLogExact, SL!Allows
<1> QED
  BY <1>1, <1>2, <1>3, PTL DEF Spec

-----------------------------------------------------------------------------
(* RetryAfter is the minimum wait                                           *)

\* The bucket after a wait, if nothing else arrives.
LEMMA BalanceLater ==
  ASSUME now \in Nat, BucketType, NEW d \in Nat
  PROVE  /\ TB!Balance(now) \in 0..Full
         /\ TB!Balance(now + d) = IF TB!Balance(now) + d > Full THEN Full ELSE TB!Balance(now) + d
<1> DEFINE b == TB!GetOrCreate(now + d)
           sum == b.tokens + ((now + d) - b.lastRefill)
           tokens == IF sum > Full THEN Full ELSE sum
<1>1. /\ b \in [present : BOOLEAN, tokens : Nat, lastRefill : Nat, lastAccess : Nat]
      /\ b.tokens <= Full /\ b.lastRefill <= now + d
      /\ bucket.present => b = bucket
      /\ ~bucket.present => b.tokens = Full /\ b.lastRefill = now + d
  BY FullType DEF BucketType, TB!GetOrCreate
<1> HIDE DEF b
<1>2. tokens \in 0..Full
  BY <1>1, FullType
<1>3. TB!Refill(b, now + d).tokens = tokens
  <2>1. TB!Refill(b, now + d) = [b EXCEPT !.tokens = tokens, !.lastRefill = now + d, !.lastAccess = now + d]
    BY FullType, Zenon DEF TB!Refill
  <2> HIDE DEF tokens
  <2> QED
    BY <1>1, <1>2, <2>1, Zenon
<1>4. TB!Balance(now + d) = tokens
  BY <1>3, Zenon DEF TB!Balance, b
<1>5. CASE bucket.present
  BY <1>1, <1>4, <1>5, BalanceIs, FullType DEF BucketType
<1>6. CASE ~bucket.present
  BY <1>1, <1>4, <1>6, BalanceIs, FullType
<1> QED
  BY <1>5, <1>6, Zenon

\* A denial of the token bucket.
LEMMA TokenBucketWait ==
  ASSUME now \in Nat, BucketType, NEW n \in Costs, ~TB!Allows(n, now)
  PROVE  /\ \A d \in 0..(TB!RetryAfter(n, now) - 1) : ~TB!Allows(n, now + d)
         /\ n <= Capacity => TB!Allows(n, now + TB!RetryAfter(n, now))
<1>1. n \in Nat /\ Capacity \in Nat /\ Full \in Nat /\ n * Interval \in Nat
  BY CostType, FullType, LimiterAssumption, Zenon
<1>2. CASE n > Capacity
  BY <1>1, <1>2 DEF TB!Allows
<1>3. CASE n <= Capacity
  <2>1. TB!Balance(now) \in 0..Full /\ n * Interval <= Full
    BY <1>3, BalanceIs, CostType, Zenon
  <2>2. PICK r \in Nat : r = TB!RetryAfter(n, now) /\ r = n * Interval - TB!Balance(now) /\ r > 0
    BY <1>1, <1>3, <2>1 DEF TB!Allows, TB!RetryAfter
  <2>3. ASSUME NEW d \in 0..(r - 1) PROVE ~TB!Allows(n, now + d)
    <3>1. d \in Nat /\ d < r
      BY <2>2
    <3>2. TB!Balance(now + d) = IF TB!Balance(now) + d > Full THEN Full ELSE TB!Balance(now) + d
      BY <3>1, BalanceLater, Zenon
    <3>3. TB!Balance(now + d) <= TB!Balance(now) + d /\ TB!Balance(now + d) \in Int
      BY <1>1, <2>1, <3>1, <3>2
    <3> QED
      BY <1>1, <2>1, <2>2, <3>1, <3>3 DEF TB!Allows
  <2>4. TB!Balance(now + r) = n * Interval
    BY <1>1, <2>1, <2>2, BalanceLater
  <2> QED
    BY <1>1, <1>3, <2>2, <2>3, <2>4 DEF TB!Allows
<1> QED
  BY <1>1, <1>2, <1>3

\* A denial of the GCRA.
LEMMA GCRAWait ==
  ASSUME now \in Nat, EntryType, NEW n \in Costs, ~GC!Allows(n, now)
  PROVE  /\ \A d \in 0..(GC!RetryAfter(n, now) - 1) : ~GC!Allows(n, now + d)
         /\ n <= Capacity => GC!Allows(n, now + GC!RetryAfter(n, now))
<1>1. n \in Nat /\ Capacity \in Nat /\ Full \in Nat /\ n * Interval \in Nat /\ entry.tat \in Nat
  BY CostType, FullType, LimiterAssumption, Zenon DEF EntryType
<1>2. CASE n > Capacity
  BY <1>1, <1>2 DEF GC!Allows
<1>3. CASE n <= Capacity
  <2>1. PICK c \in Nat : c = n * Interval /\ c <= Full
    BY <1>1, <1>3, CostType, Zenon
  <2>2. entry.tat > now /\ entry.tat + c > now + Full
    BY <1>1, <1>3, <2>1 DEF GC!Allows, GC!Candidate, GC!LimitWindow, Full
  <2>3. GC!RetryAfter(n, now) = entry.tat + c - (now + Full)
    BY <1>1, <1>3, <2>1, <2>2 DEF GC!RetryAfter, GC!Candidate, GC!LimitWindow, Full
  <2>4. ASSUME NEW d \in Nat
        PROVE  GC!Allows(n, now + d) <=> (IF entry.tat > now + d THEN entry.tat ELSE now + d) + c <= now + d + Full
    BY <1>1, <1>3, <2>1, Zenon DEF GC!Allows, GC!Candidate, GC!LimitWindow, Full
  <2>5. PICK r \in Nat : r = GC!RetryAfter(n, now) /\ r = entry.tat + c - (now + Full)
    BY <1>1, <2>2, <2>3
  <2>6. ASSUME NEW d \in 0..(r - 1) PROVE ~GC!Allows(n, now + d)
    <3>1. d \in Nat /\ d < r
      BY <2>5
    <3>2. ~((IF entry.tat > now + d THEN entry.tat ELSE now + d) + c <= now + d + Full)
      BY <1>1, <2>1, <2>5, <3>1
    <3> QED
      BY <2>4, <3>1, <3>2, Zenon
  <2>7. GC!Allows(n, now + r)
    <3>1. (IF entry.tat > now + r THEN entry.tat ELSE now + r) + c <= now + r + Full
      BY <1>1, <2>1, <2>5
    <3> QED
      BY <2>4, <3>1, Zenon
  <2> QED
    BY <2>5, <2>6, <2>7, Zenon
<1> QED
  BY <1>1, <1>2, <1>3

\* A denial of the fixed window.
LEMMA FixedWindowWait ==
  ASSUME now \in Nat, FixedType, NEW n \in Costs, ~FW!Allows(n, now)
  PROVE  /\ \A d \in 0..(FW!RetryAfter(n, now) - 1) : ~FW!Allows(n, now + d)
         /\ n <= Limit => FW!Allows(n, now + FW!RetryAfter(n, now))
<1>1. n \in Nat /\ Limit \in Nat /\ Window \in Nat /\ Window > 0
  BY LimiterAssumption
<1>2. PICK e \in 0..(Window - 1) : e = now % Window
  BY IntoWindow, Zenon
<1>3. FW!WindowStart(now) = now - e
  BY <1>2, IntoWindow, Zenon
<1>4. PICK r \in Nat : r = FW!RetryAfter(n, now) /\ r = Window - e
  BY <1>1, <1>3 DEF FW!RetryAfter
<1>5. ASSUME NEW d \in 0..(r - 1) PROVE ~FW!Allows(n, now + d)
  <2>1. FW!WindowStart(now + d) = FW!WindowStart(now)
    <3>1. d \in Nat /\ e + d < Window
      BY <1>1, <1>4
    <3> QED
      BY <1>2, <3>1, SameWindow, Zenon
  <2> QED
    BY <2>1, Zenon DEF FW!Allows, FW!Count
<1>6. ASSUME n <= Limit PROVE FW!Allows(n, now + r)
  <2>1. PICK t \in Nat : t = now - e + Window /\ FW!WindowStart(t) = t
    BY <1>2, NextWindow, Zenon
  <2>2. now + r = t /\ t > now
    BY <1>1, <1>4, <2>1
  <2>3. counter.windowStart # t
    BY <2>2 DEF FixedType
  <2> QED
    BY <1>1, <1>6, <2>1, <2>2, <2>3 DEF FW!Allows, FW!Count
<1> QED
  BY <1>4, <1>5, <1>6, Zenon

\* The counters that a later time of the same window finds.
LEMMA RolledLater ==
  ASSUME CounterType, now \in Nat, NEW d \in Nat, (now % Window) + d < Window
  PROVE  /\ SC!Rolled(now + d).current = RolledCurrent /\ SC!Rolled(now + d).previous = RolledPrevious
         /\ SC!Elapsed(now + d) = SC!Elapsed(now) + d
<1>1. SC!WindowStart(now + d) = SC!WindowStart(now)
  BY SameWindow, Zenon
<1>2. SC!Elapsed(now + d) = SC!Elapsed(now) + d
  <2>1. SC!WindowStart(now) \in Int
    BY RollingIs DEF Rolling, Start
  <2> QED
    BY <1>1, <2>1 DEF SC!Elapsed
<1>3. CASE counters.present
  BY <1>1, <1>2, <1>3, Zenon DEF RolledCurrent, RolledPrevious, SC!Rolled, SC!GetOrCreate
<1>4. CASE ~counters.present
  <2>1. SC!Rolled(now + d) = SC!GetOrCreate(now + d) /\ SC!Rolled(now) = SC!GetOrCreate(now)
    BY <1>4, Zenon DEF SC!Rolled, SC!GetOrCreate, SC!Gone
  <2>2. /\ SC!GetOrCreate(now + d).current = 0 /\ SC!GetOrCreate(now).current = 0
        /\ SC!GetOrCreate(now + d).previous = 0 /\ SC!GetOrCreate(now).previous = 0
    BY <1>4, Zenon DEF SC!GetOrCreate, SC!Gone
  <2> QED
    BY <1>2, <2>1, <2>2, Zenon DEF RolledCurrent, RolledPrevious
<1> QED
  BY <1>3, <1>4, Zenon

\* Before the quotient of x by p has passed, x is not used up.
LEMMA BeforeQuotient ==
  ASSUME NEW p \in Nat, p > 0, NEW x \in Int, NEW d \in Nat, d <= x \div p - 1
  PROVE  d * p < x
<1>1. PICK q \in Int : q = x \div p
  OBVIOUS
<1>2. p * q <= x
  BY <1>1
<1>3. PICK c \in Nat : q = d + 1 + c
  <2>1. q - d - 1 \in Nat /\ q = d + 1 + (q - d - 1)
    BY <1>1
  <2> QED
    BY <2>1, Zenon
<1>4. p * q = d * p + p + p * c /\ p * c >= 0 /\ d * p \in Int /\ p * c \in Int
  BY <1>3
<1> QED
  BY <1>2, <1>4

\* A denial of the sliding counter.
LEMMA CounterWait ==
  ASSUME now \in Nat, CounterType, NEW n \in Costs, ~SC!Allows(n, now)
  PROVE  \A d \in 0..(SC!RetryAfter(n, now) - 1) : ~SC!Allows(n, now + d)
<1>1. n \in Nat /\ Limit \in Nat /\ Window \in Nat /\ Window > 0
  BY LimiterAssumption
<1>2. PICK e \in 0..(Window - 1) : e = now % Window /\ SC!Elapsed(now) = e
  <2>1. SC!WindowStart(now) = now - (now % Window) /\ now % Window \in 0..(Window - 1)
    BY IntoWindow, Zenon
  <2>2. PICK e \in 0..(Window - 1) : e = now % Window
    BY <2>1, Zenon
  <2> QED
    BY <2>1, <2>2 DEF SC!Elapsed
<1>3. PICK c \in Nat, p \in Nat : c = RolledCurrent /\ p = RolledPrevious
  BY <1>1, RollingIs DEF Rolling
<1>4. PICK l \in Int : l = Limit * Window /\ l - c * Window - n * Window = (Limit - n - c) * Window
  BY <1>1
<1>5. PICK a \in Int : a = Limit - n - c
  BY <1>1
<1>6. ASSUME NEW d \in Nat, e + d < Window, p * (Window - (e + d)) > a * Window
      PROVE  ~SC!Allows(n, now + d)
  <2>1. SC!Rolled(now + d).current = c /\ SC!Rolled(now + d).previous = p /\ SC!Elapsed(now + d) = e + d
    BY <1>2, <1>3, <1>6, RolledLater, Zenon
  <2>2. SC!Allows(n, now + d) <=> p * (Window - (e + d)) + c * Window + n * Window <= l
    BY <1>4, <2>1, Zenon DEF SC!Allows, SC!EffectiveTimesWindow
  <2>3. c * Window \in Int /\ n * Window \in Int /\ p * (Window - (e + d)) \in Int
    BY <1>1
  <2> QED
    BY <1>4, <1>5, <1>6, <2>2, <2>3
<1>7. p * (Window - e) > a * Window
  <2>1. SC!Allows(n, now) <=> p * (Window - e) + c * Window + n * Window <= l
    BY <1>2, <1>3, <1>4, Zenon DEF SC!Allows, SC!EffectiveTimesWindow, RolledCurrent, RolledPrevious
  <2>2. c * Window \in Int /\ n * Window \in Int /\ p * (Window - e) \in Int
    BY <1>1
  <2> QED
    BY <1>4, <1>5, <2>1, <2>2
<1>8. SC!RetryAfter(n, now) = IF a < 0 \/ p = 0 THEN Window - e
                              ELSE (Window * (p - a) - e * p) \div p
  BY <1>2, <1>3, <1>5, Zenon DEF SC!RetryAfter, RolledCurrent, RolledPrevious
<1>9. CASE a < 0 \/ p = 0
  <2>1. a < 0
    <3>1. p = 0 => 0 > a * Window
      <4>1. p = 0 => p * (Window - e) = 0
        BY <1>1
      <4> QED
        BY <1>7, <4>1, Zenon
    <3>2. a >= 0 => a * Window >= 0
      BY <1>1
    <3>3. a * Window \in Int
      BY <1>1
    <3> QED
      BY <1>9, <3>1, <3>2, <3>3
  <2>2. a * Window < 0
    BY <1>1, <2>1
  <2>3. ASSUME NEW d \in 0..(SC!RetryAfter(n, now) - 1) PROVE ~SC!Allows(n, now + d)
    <3>1. d \in Nat /\ e + d < Window
      BY <1>1, <1>8, <1>9
    <3>2. PICK w \in Nat : w = Window - (e + d)
      BY <1>1, <3>1
    <3>3. p * w >= 0 /\ p * w \in Int /\ a * Window \in Int
      BY <1>1
    <3> QED
      BY <1>6, <2>2, <3>1, <3>2, <3>3
  <2> QED
    BY <2>3, Zenon
<1>10. CASE a >= 0 /\ p > 0
  <2> DEFINE x == Window * (p - a) - e * p
  <2>1. x \in Int /\ x = p * (Window - e) - a * Window
    BY <1>1
  <2>2. ASSUME NEW d \in 0..(SC!RetryAfter(n, now) - 1) PROVE ~SC!Allows(n, now + d)
    <3>1. d \in Nat /\ d <= x \div p - 1
      <4>1. SC!RetryAfter(n, now) = x \div p
        BY <1>8, <1>10
      <4> QED
        BY <1>10, <2>1, <4>1
    <3> HIDE DEF x
    <3>2. d * p < x
      BY <1>10, <2>1, <3>1, BeforeQuotient
    <3>3. p * (Window - (e + d)) = p * (Window - e) - d * p /\ p * (Window - e) \in Int /\ d * p \in Int
      BY <1>1, <3>1
    <3>4. p * (Window - (e + d)) > a * Window
      <4>1. a * Window \in Int
        BY <1>1
      <4> QED
        BY <2>1, <3>2, <3>3, <4>1
    <3>5. e + d < Window
      <4> SUFFICES ASSUME e + d >= Window PROVE FALSE
        BY <1>1, <3>1
      <4>1. PICK v \in Nat : v = (e + d) - Window
        BY <1>1, <3>1
      <4>3. Window - (e + d) = -v
        BY <1>1, <3>1, <4>1
      <4>2. p * (-v) <= 0 /\ a * Window >= 0 /\ a * Window \in Int /\ p * (-v) \in Int
        BY <1>1, <1>10
      <4> QED
        BY <3>4, <4>2, <4>3
    <3> QED
      BY <1>6, <3>1, <3>4, <3>5
  <2> QED
    BY <2>2
<1> QED
  BY <1>9, <1>10

\* A denial of the sliding log.
LEMMA LogWait ==
  ASSUME LogInv, NEW n \in Costs, ~SL!Allows(n, now)
  PROVE  \A d \in 0..(SL!RetryAfter(n, now) - 1) : ~SL!Allows(n, now + d)
<1> SUFFICES ASSUME NEW d \in 0..(SL!RetryAfter(n, now) - 1) PROVE ~SL!Allows(n, now + d)
  BY Zenon
<1>1. PICK ts \in Seq(Nat) : ts = keyLog.timestamps
  BY Zenon DEF LogInv, LogType, LogRecords
<1>2. /\ Window \in Nat /\ now \in Nat /\ Len(ts) \in Nat
      /\ \A i \in 1..Len(ts) : ts[i] \in Nat /\ ts[i] <= now
  BY <1>1, LimiterAssumption DEF LogInv, LogType, LogRecords
<1>3. PICK f \in 1..(Len(ts) + 1) : Splits(ts, now - Window, f)
  <2>1. Window \in 0..Window
    BY <1>2
  <2>2. Holds(ts, now - Window, Admitted("log", 0, Window))
    BY <1>1, <2>1, Zenon DEF LogInv
  <2> QED
    BY <2>2, Zenon DEF Holds
<1>4. SL!Pruned(now) = SubSeq(ts, f, Len(ts))
  <2>1. now - Window \in Int
    BY <1>2
  <2>2. SL!Search(now - Window) = f
    BY <1>1, <1>3, <2>1, SearchFinds, Zenon
  <2> QED
    BY <1>1, <2>2, Zenon DEF SL!Pruned
<1>5. f <= Len(ts)
  <2> SUFFICES ASSUME f > Len(ts) PROVE FALSE
    BY <1>2
  <2>1. SL!Pruned(now) = << >>
    BY <1>2, <1>4
  <2>2. SL!RetryAfter(n, now) = 0
    BY <2>1, Zenon DEF SL!RetryAfter
  <2> QED
    BY <2>2
<1>6. SL!Pruned(now) # << >> /\ SL!Pruned(now)[1] = ts[f]
  <2>1. SubSeq(ts, f, Len(ts)) \in Seq(Nat) /\ Len(SubSeq(ts, f, Len(ts))) = Len(ts) - f + 1
    BY <1>2, <1>5
  <2>2. Len(SubSeq(ts, f, Len(ts))) > 0 /\ 1 \in 1..(Len(ts) - f + 1) /\ f + 1 - 1 = f
    BY <1>2, <1>5, <2>1
  <2>3. SubSeq(ts, f, Len(ts))[1] = ts[f]
    BY <1>2, <1>5, <2>1, <2>2
  <2>4. PICK p \in Seq(Nat) : p = SubSeq(ts, f, Len(ts)) /\ Len(p) > 0
    BY <2>1, <2>2, Zenon
  <2>5. p # << >>
    <3> SUFFICES ASSUME p = << >> PROVE FALSE
      BY Zenon
    <3>1. Len(p) = 0
      BY Zenon
    <3> QED
      BY <2>4, <3>1
  <2> QED
    BY <1>4, <2>3, <2>4, <2>5, Zenon
<1>7. SL!RetryAfter(n, now) = ts[f] + Window - now /\ ts[f] \in Nat /\ ts[f] <= now
  BY <1>2, <1>5, <1>6 DEF SL!RetryAfter
<1>8. d \in Nat /\ d < ts[f] + Window - now
  BY <1>2, <1>7
<1>9. PICK k \in 0..Window : now - k = (now + d) - Window
  <2>1. Window - d \in 0..Window /\ now - (Window - d) = (now + d) - Window
    BY <1>2, <1>7, <1>8
  <2> QED
    BY <2>1, Zenon
<1>10. PICK g \in 1..(Len(ts) + 1) : Splits(ts, now - k, g)
  BY <1>1, Zenon DEF LogInv, Holds
<1>11. g = f
  <2>1. ts[f] >= now - k
    BY <1>2, <1>7, <1>8, <1>9
  <2>2. f >= g
    BY <1>2, <1>5, <1>10, <2>1 DEF Splits
  <2>3. g \in 1..Len(ts)
    BY <1>2, <1>5, <2>2
  <2>4. ts[g] >= now - k /\ ts[g] \in Nat
    BY <1>2, <1>10, <2>3 DEF Splits
  <2>5. ts[g] >= now - Window
    BY <1>2, <2>4
  <2>6. g >= f
    BY <1>3, <2>3, <2>5, Zenon DEF Splits
  <2> QED
    BY <1>2, <2>2, <2>6
<1>12. SL!Pruned(now + d) = SL!Pruned(now)
  <2>1. (now + d) - Window \in Int /\ Splits(ts, (now + d) - Window, f)
    <3>1. (now + d) - Window \in Int
      BY <1>2, <1>8
    <3> QED
      BY <1>9, <1>10, <1>11, <3>1, Zenon
  <2>2. SL!Search((now + d) - Window) = f
    BY <1>1, <2>1, SearchFinds
  <2> QED
    BY <1>1, <1>4, <2>2, Zenon DEF SL!Pruned
<1> QED
  BY <1>12, Zenon DEF SL!Allows

\* The types of all five, which no cleaner can disturb.
WaitInv == tested \in Groups /\ BucketType /\ EntryType /\ FixedType /\ CounterType /\ LogInv

\* Every step keeps the bucket well-formed.
LEMMA BucketStep ==
  ASSUME now \in Nat, BucketType, Next
  PROVE  BucketType'
<1>1. Full \in Nat /\ TB!Full = Full
  BY FullType, Zenon
<1>2. CASE bucket' = bucket /\ now' \in Nat /\ now' >= now
  BY <1>2 DEF BucketType
<1>3. CASE bucket' = TB!Gone /\ now' = now
  BY <1>1, <1>3 DEF BucketType, TB!Gone
<1>4. ASSUME NEW t \in 0..Full, now' = now,
             bucket' = [present |-> TRUE, tokens |-> t, lastRefill |-> now, lastAccess |-> now]
      PROVE  BucketType'
  BY <1>1, <1>4 DEF BucketType
<1>5. ASSUME NEW n \in Costs, TB!AllowN(n), now' = now PROVE BucketType'
  <2>1. CASE n > Capacity
    <3>1. bucket' = TB!GetOrCreate(now)
      BY <1>5, <2>1, Zenon DEF TB!AllowN
    <3> QED
      BY <1>1, <1>5, <3>1 DEF TB!GetOrCreate, BucketType
  <2>2. CASE ~(n > Capacity)
    <3>1. PICK r : r = TB!Refill(TB!GetOrCreate(now), now)
      BY Zenon
    <3>2. r = [present |-> TRUE, tokens |-> TB!Balance(now), lastRefill |-> now, lastAccess |-> now]
      BY <3>1, BalanceIs, Zenon
    <3>3. PICK c \in Nat : c = (IF TB!Allows(n, now) THEN n * Interval ELSE 0)
      BY CostType, Zenon
    <3>4. bucket' = [r EXCEPT !.tokens = @ - c]
      BY <1>5, <2>2, <3>1, <3>3, Zenon DEF TB!AllowN
    <3>5. bucket' = [present |-> TRUE, tokens |-> TB!Balance(now) - c, lastRefill |-> now, lastAccess |-> now]
      BY <3>2, <3>4, Zenon
    <3>6. TB!Balance(now) - c \in 0..Full
      <4>1. TB!Balance(now) \in 0..Full
        BY BalanceIs, Zenon
      <4> QED
        BY <1>1, <3>3, <4>1, CostType DEF TB!Allows
    <3> QED
      BY <1>4, <1>5, <3>5, <3>6, Zenon
  <2> QED
    BY <2>1, <2>2, Zenon
<1>6. CASE TB!Peek /\ now' = now
  BY <1>4, <1>6, BalanceIs, Zenon DEF TB!Peek
<1>7. ASSUME NEW n \in Costs, Request(n) PROVE BucketType'
  BY <1>2, <1>5, <1>7 DEF Request, On
<1>8. CASE Peek
  BY <1>2, <1>6, <1>8 DEF Peek, On
<1>9. CASE Reset
  BY <1>3, <1>9, Zenon DEF Reset, TB!Reset
<1>10. CASE Evict
  BY <1>2, <1>3, <1>10 DEF Evict, TB!Evict
<1>11. CASE Tick
  BY <1>2, <1>11 DEF Tick
<1> QED
  BY <1>7, <1>8, <1>9, <1>10, <1>11 DEF Next

\* Every step keeps the tat within a burst of the last access.
LEMMA EntryStep ==
  ASSUME now \in Nat, EntryType, Next
  PROVE  EntryType'
<1> DEFINE E == [present : BOOLEAN, tat : Nat, lastAccess : Nat]
<1>1. Full \in Nat
  BY FullType, Zenon
<1>2. CASE entry' = entry /\ now' \in Nat /\ now' >= now
  BY <1>2 DEF EntryType
<1>3. CASE entry' = GC!Gone /\ now' = now
  BY <1>1, <1>3 DEF EntryType, GC!Gone
<1>4. PICK g \in E : /\ g = GC!GetOrCreate /\ g.present /\ g.tat = entry.tat
                     /\ g.lastAccess >= entry.lastAccess /\ g.lastAccess <= now
  <2>1. CASE entry.present
    BY <2>1 DEF EntryType, GC!GetOrCreate
  <2>2. CASE ~entry.present
    <3>1. GC!GetOrCreate = [present |-> TRUE, tat |-> 0, lastAccess |-> now]
      BY <2>2, Zenon DEF GC!GetOrCreate, GC!Gone
    <3>2. GC!GetOrCreate \in E /\ GC!GetOrCreate.present /\ GC!GetOrCreate.tat = 0 /\ GC!GetOrCreate.lastAccess = now
      BY <3>1, Zenon
    <3> QED
      BY <2>2, <3>2 DEF EntryType
  <2> QED
    BY <2>1, <2>2, Zenon
<1>5. ASSUME NEW n \in Costs, GC!AllowN(n), now' = now PROVE EntryType'
  <2>1. CASE n > Capacity
    BY <1>2, <1>5, <2>1 DEF GC!AllowN
  <2>2. CASE ~(n > Capacity)
    <3>1. PICK t \in Nat : t = (IF GC!Allows(n, now) THEN GC!Candidate(n, now) ELSE g.tat) /\ t <= now + Full
      <4>1. g.tat \in Nat /\ g.tat <= now + Full /\ entry.tat \in Nat
        BY <1>1, <1>4 DEF EntryType
      <4>2. GC!Candidate(n, now) \in Nat
        BY <4>1, CostType DEF GC!Candidate
      <4>3. GC!Allows(n, now) => GC!Candidate(n, now) <= now + Full
        BY Zenon DEF GC!Allows, GC!LimitWindow, Full
      <4> QED
        BY <4>1, <4>2, <4>3, Zenon
    <3>2. entry' = [g EXCEPT !.lastAccess = now, !.tat = t]
      BY <1>4, <1>5, <2>2, <3>1, Zenon DEF GC!AllowN
    <3>3. entry' \in E /\ entry'.present /\ entry'.tat = t /\ entry'.lastAccess = now
      BY <1>4, <3>2, Zenon
    <3> QED
      BY <1>5, <3>1, <3>3 DEF EntryType
  <2> QED
    BY <2>1, <2>2, Zenon
<1>6. CASE GC!Peek /\ now' = now
  <2>1. entry' = g
    BY <1>4, <1>6, Zenon DEF GC!Peek
  <2> QED
    BY <1>1, <1>4, <1>6, <2>1 DEF EntryType
<1>7. ASSUME NEW n \in Costs, Request(n) PROVE EntryType'
  BY <1>2, <1>5, <1>7 DEF Request, On
<1>8. CASE Peek
  BY <1>2, <1>6, <1>8 DEF Peek, On
<1>9. CASE Reset
  BY <1>3, <1>9, Zenon DEF Reset, GC!Reset
<1>10. CASE Evict
  BY <1>2, <1>3, <1>10 DEF Evict, GC!Evict
<1>11. CASE Tick
  BY <1>2, <1>11 DEF Tick
<1> QED
  BY <1>7, <1>8, <1>9, <1>10, <1>11 DEF Next

\* Every step keeps the count of the fixed window within the limit.
LEMMA FixedTypeStep ==
  ASSUME now \in Nat, FixedType, Next
  PROVE  FixedType'
<1> DEFINE F == [present : BOOLEAN, count : Nat, windowStart : Nat, lastAccess : Nat]
<1>1. Limit \in Nat /\ FW!WindowStart(now) \in Nat /\ FW!WindowStart(now) <= now
  <2>1. FW!WindowStart(now) \in Nat
    BY LimiterAssumption DEF FW!WindowStart
  <2>2. FW!WindowStart(now) = now - (now % Window) /\ now % Window \in 0..(Window - 1)
    BY IntoWindow, Zenon
  <2>3. PICK e \in 0..(Window - 1) : e = now % Window
    BY <2>2, Zenon
  <2> QED
    BY <2>1, <2>2, <2>3, LimiterAssumption
<1>2. CASE counter' = counter /\ now' \in Nat /\ now' >= now
  BY <1>2 DEF FixedType
<1>3. CASE counter' = FW!Gone /\ now' = now
  BY <1>1, <1>3 DEF FixedType, FW!Gone
<1>4. PICK g \in F : /\ g = FW!GetOrCreate /\ g.present /\ g.count <= Limit
                     /\ g.windowStart <= g.lastAccess /\ g.lastAccess <= now
  <2>1. CASE counter.present
    BY <2>1, Zenon DEF FixedType, FW!GetOrCreate
  <2>2. CASE ~counter.present
    <3>1. FW!GetOrCreate = [present |-> TRUE, count |-> 0, windowStart |-> FW!WindowStart(now), lastAccess |-> now]
      BY <2>2, Zenon DEF FW!GetOrCreate
    <3>2. /\ FW!GetOrCreate \in F /\ FW!GetOrCreate.present /\ FW!GetOrCreate.count = 0
          /\ FW!GetOrCreate.windowStart = FW!WindowStart(now) /\ FW!GetOrCreate.lastAccess = now
      BY <1>1, <3>1, Zenon
    <3> QED
      BY <1>1, <3>2
  <2> QED
    BY <2>1, <2>2, Zenon
<1>5. ASSUME NEW n \in Costs, FW!AllowN(n), now' = now PROVE FixedType'
  <2>1. PICK c \in 0..Limit : c = FW!Count(now) + (IF FW!Allows(n, now) THEN n ELSE 0)
    <3>1. FW!Count(now) \in 0..Limit /\ n \in Nat
      BY <1>1, LimiterAssumption DEF FixedType, FW!Count
    <3> QED
      BY <1>1, <3>1 DEF FW!Allows
  <2>2. counter' = [g EXCEPT !.count = c, !.windowStart = FW!WindowStart(now), !.lastAccess = now]
    BY <1>4, <1>5, <2>1, Zenon DEF FW!AllowN
  <2>3. /\ counter' \in F /\ counter'.present /\ counter'.count = c
        /\ counter'.windowStart = FW!WindowStart(now) /\ counter'.lastAccess = now
    <3>1. c \in Nat
      BY <1>1
    <3> QED
      BY <1>1, <1>4, <2>2, <3>1, Zenon
  <2> QED
    BY <1>1, <1>5, <2>1, <2>3 DEF FixedType
<1>6. CASE FW!Peek /\ now' = now
  BY <1>4, <1>6, Zenon DEF FW!Peek, FixedType
<1>7. ASSUME NEW n \in Costs, Request(n) PROVE FixedType'
  BY <1>2, <1>5, <1>7 DEF Request, On
<1>8. CASE Peek
  BY <1>2, <1>6, <1>8 DEF Peek, On
<1>9. CASE Reset
  BY <1>3, <1>9, Zenon DEF Reset, FW!Reset
<1>10. CASE Evict
  BY <1>2, <1>3, <1>10 DEF Evict, FW!Evict
<1>11. CASE Tick
  BY <1>2, <1>11 DEF Tick
<1> QED
  BY <1>7, <1>8, <1>9, <1>10, <1>11 DEF Next

\* The RetryAfter of every denial, in all five consume functions, is a wait
\* before which the same request is denied again, and for token bucket, GCRA
\* and fixed window one after which it is admitted: for every configuration,
\* history of the key and instant, without a hypothesis on the cleaners.
THEOREM DenialsTellMinimumWait == Spec => []RetryAfterIsMinimum
<1>1. Init => WaitInv
  <2> SUFFICES ASSUME Init PROVE WaitInv
    OBVIOUS
  <2>1. now = 0 /\ Full \in Nat /\ Limit \in Nat /\ tested \in Groups
    BY FullType, LimiterAssumption, ZenonT(60) DEF Init
  <2>2. BucketType /\ EntryType /\ FixedType
    BY <2>1 DEF Init, TB!Init, TB!Gone, GC!Init, GC!Gone, FW!Init, FW!Gone, BucketType, EntryType, FixedType
  <2>3. CounterType
    BY <2>1, LimiterAssumption DEF Init, SC!Init, SC!Gone, CounterType, CounterRecords
  <2> QED
    BY <2>1, <2>2, <2>3, InitLog, Zenon DEF WaitInv
<1>2. WaitInv /\ [Next]_vars => WaitInv'
  <2> SUFFICES ASSUME WaitInv, [Next]_vars PROVE WaitInv'
    OBVIOUS
  <2>1. CASE UNCHANGED vars
    BY <2>1 DEF vars, WaitInv, BucketType, EntryType, FixedType, CounterType,
                LogInv, LogType, RecordType, Admitted, Holds, Splits
  <2>2. CASE Next
    <3>1. now \in Nat /\ BucketType /\ EntryType /\ FixedType /\ CounterType /\ LogInv
      BY Zenon DEF WaitInv, LogInv
    <3>2. tested' = tested
      BY <2>2, ZenonT(60) DEF Next, Request, Peek, Reset, Evict, Tick
    <3> QED
      BY <2>2, <3>1, <3>2, BucketStep, EntryStep, FixedTypeStep, CounterTypeStep, LogStep, Zenon DEF WaitInv
  <2> QED
    BY <2>1, <2>2, ZenonT(60)
<1>3. WaitInv => RetryAfterIsMinimum
  <2> SUFFICES ASSUME WaitInv, NEW l \in tested, NEW n \in Costs, Denied(l, n)
               PROVE  /\ \A d \in 0..(RetryAfter(l, n, now) - 1) : ~Allows(l, n, now + d)
                      /\ l \in {"tokenbucket", "gcra"} /\ n <= Capacity => Allows(l, n, now + RetryAfter(l, n, now))
                      /\ l = "fixedwindow" /\ n <= Limit => Allows(l, n, now + RetryAfter(l, n, now))
    BY Zenon DEF RetryAfterIsMinimum
  <2>1. now \in Nat /\ BucketType /\ EntryType /\ FixedType /\ CounterType /\ LogInv
    BY Zenon DEF WaitInv, LogInv
  <2>2. CASE l = "tokenbucket"
    BY <2>1, <2>2, TokenBucketWait, Zenon DEF Denied, Allows, RetryAfter
  <2>3. CASE l = "gcra"
    BY <2>1, <2>3, GCRAWait, Zenon DEF Denied, Allows, RetryAfter
  <2>4. CASE l = "fixedwindow"
    BY <2>1, <2>4, FixedWindowWait, Zenon DEF Denied, Allows, RetryAfter
  <2>5. CASE l = "log"
    BY <2>1, <2>5, LogWait, Zenon DEF Denied, Allows, RetryAfter
  <2>6. CASE l = "counter"
    BY <2>1, <2>6, CounterWait, Zenon DEF Denied, Allows, RetryAfter
  <2>7. l \in Limiters
    BY Zenon DEF WaitInv, Groups, Limiters
  <2> QED
    BY <2>2, <2>3, <2>4, <2>5, <2>6, <2>7 DEF Limiters
<1> QED
  BY <1>1, <1>2, <1>3, PTL DEF Spec
=============================================================================
