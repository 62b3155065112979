-------------------------- MODULE AccountingProofs --------------------------
(***************************************************************************)
(* Components that keep accounts, for every configuration: the windows of  *)
(* a circuit breaker's metrics, and the deadlines and the budget of        *)
(* retries.                                                                *)
(***************************************************************************)
EXTENDS MetricsWindow, RetryPolicy, SumTheorems

\* What proves a step that names no prover.
USE SMTT(30), Z3T(30), Zenon

-----------------------------------------------------------------------------
(* The count window                                                         *)

Entries == [outcome : Outcomes, at : Nat]

\* The places in the log of the outcomes the ring holds.
KeptPlaces == {i \in DOMAIN log : i > Len(log) - Size}

\* The slot that was written d records ago.
Back(d) == IF d <= head THEN head - d ELSE head - d + Size

CountInv ==
  /\ log \in Seq(Entries) /\ ring \in [0..(Size - 1) -> Outcomes] /\ head \in 0..(Size - 1)
  /\ cTotal = IF Len(log) < Size THEN Len(log) ELSE Size
  /\ \A d \in 1..Size : d <= Len(log) => ring[Back(d)] = log[Len(log) - d + 1].outcome
  /\ cFailures = Cardinality(Failed(KeptPlaces))

\* The head moves round the ring.
LEMMA NextHead ==
  ASSUME head \in 0..(Size - 1)
  PROVE  (head + 1) % Size = IF head + 1 = Size THEN 0 ELSE head + 1
<1>1. PICK s \in Nat : s = Size /\ s > 0
  BY WindowAssumption
<1>2. PICK h \in Nat : h = head + 1 /\ h <= s
  BY <1>1
<1>3. PICK q \in Int, r \in Int : q = h \div s /\ r = h % s
  BY <1>1, <1>2
<1>4. h = s * q + r /\ 0 <= r /\ r < s
  BY <1>1, <1>2, <1>3
<1>5. CASE h = s
  <2>1. q = 1
    BY <1>1, <1>4, <1>5
  <2> QED
    BY <1>1, <1>2, <1>3, <1>4, <1>5, <2>1
<1>6. CASE h < s
  <2>1. q = 0
    BY <1>1, <1>4, <1>2, <1>6
  <2> QED
    BY <1>1, <1>2, <1>3, <1>4, <1>6, <2>1
<1> QED
  BY <1>2, <1>5, <1>6

\* The kept places are an interval.
LEMMA KeptInterval ==
  ASSUME log \in Seq(Entries)
  PROVE  /\ KeptPlaces = (IF Len(log) < Size THEN 1 ELSE Len(log) - Size + 1)..Len(log)
         /\ IsFiniteSet(KeptPlaces) /\ IsFiniteSet(Failed(KeptPlaces))
         /\ Cardinality(KeptPlaces) = IF Len(log) < Size THEN Len(log) ELSE Size
<1>1. PICK l \in Nat : l = Len(log) /\ DOMAIN log = 1..l
  OBVIOUS
<1>2. PICK a \in Nat : a = (IF l < Size THEN 1 ELSE l - Size + 1) /\ a > 0
  BY <1>1, WindowAssumption
<1>3. KeptPlaces = a..l
  BY <1>1, <1>2, WindowAssumption DEF KeptPlaces
<1>4. IsFiniteSet(a..l) /\ Cardinality(a..l) = IF a > l THEN 0 ELSE l - a + 1
  BY FS_Interval
<1>5. Failed(KeptPlaces) \in SUBSET KeptPlaces
  BY Zenon DEF Failed
<1>6. IsFiniteSet(Failed(KeptPlaces))
  BY <1>3, <1>4, <1>5, FS_Subset, Zenon
<1>7. (IF a > l THEN 0 ELSE l - a + 1) = IF l < Size THEN l ELSE Size
  <2>1. Size \in Nat /\ Size > 0
    BY WindowAssumption
  <2>2. CASE l < Size
    BY <1>2, <2>1, <2>2
  <2>3. CASE l >= Size
    BY <1>2, <2>1, <2>3
  <2> QED
    BY <2>1, <2>2, <2>3
<1> QED
  BY <1>1, <1>2, <1>3, <1>4, <1>6, <1>7, Zenon

\* A record appends an outcome to the log.
LEMMA LogGrows ==
  ASSUME log \in Seq(Entries), NEW e \in Entries, log' = Append(log, e)
  PROVE  /\ log' \in Seq(Entries) /\ Len(log') = Len(log) + 1 /\ Len(log) \in Nat
         /\ log'[Len(log) + 1] = e /\ \A i \in 1..Len(log) : log'[i] = log[i]
         /\ DOMAIN log = 1..Len(log) /\ DOMAIN log' = 1..(Len(log) + 1)
OBVIOUS

\* The failure count of the ring follows a record.
LEMMA FailuresFollow ==
  ASSUME CountInv, NEW e \in Entries, log' = Append(log, e),
         cFailures' = cFailures + One(e.outcome) - (IF cTotal = Size THEN One(ring[head]) ELSE 0)
  PROVE  cFailures' = Cardinality(Failed(KeptPlaces))'
<1>1. PICK l \in Nat : l = Len(log) /\ Size \in Nat /\ Size > 0
  BY WindowAssumption DEF CountInv
<1>2. /\ log \in Seq(Entries) /\ log' \in Seq(Entries) /\ Len(log') = l + 1
      /\ log'[l + 1] = e /\ \A i \in 1..l : log'[i] = log[i]
  BY <1>1, LogGrows, Zenon DEF CountInv
<1>3. PICK K : K = KeptPlaces /\ K = (IF l < Size THEN 1 ELSE l - Size + 1)..l
  BY <1>1, <1>2, KeptInterval, Zenon
<1>4. PICK m \in Nat : m = l + 1 /\ KeptPlaces' = (IF m < Size THEN 1 ELSE m - Size + 1)..m
  <2>1. PICK m \in Nat : m = l + 1 /\ m = Len(log') /\ DOMAIN log' = 1..m
    BY <1>1, <1>2
  <2>2. KeptPlaces' = {i \in 1..m : i > m - Size}
    BY <2>1, Zenon DEF KeptPlaces
  <2>3. KeptPlaces' = (IF m < Size THEN 1 ELSE m - Size + 1)..m
    BY <1>1, <2>1, <2>2
  <2> QED
    BY <2>1, <2>3, Zenon
<1>5. PICK F : F = Failed(K) /\ IsFiniteSet(F) /\ cFailures = Cardinality(F) /\ F \subseteq K
  BY <1>2, <1>3, KeptInterval, Zenon DEF CountInv, Failed
<1>6. l + 1 \notin F /\ Cardinality(F) \in Nat
  BY <1>1, <1>3, <1>5, FS_CardinalityType
<1>7. PICK G : /\ IsFiniteSet(G) /\ l + 1 \notin G
               /\ G = {i \in KeptPlaces' \ {l + 1} : log[i].outcome = "failure"}
               /\ Cardinality(G) = Cardinality(F) - (IF cTotal = Size THEN One(ring[head]) ELSE 0)
  <2>1. CASE l < Size
    <3>1. cTotal # Size
      BY <1>1, <2>1 DEF CountInv
    <3>2. KeptPlaces' \ {l + 1} = K
      BY <1>1, <1>3, <1>4, <2>1
    <3>3. F = {i \in K : log[i].outcome = "failure"} /\ Cardinality(F) - 0 = Cardinality(F)
      BY <1>5, <1>6 DEF Failed
    <3> QED
      BY <1>5, <1>6, <3>1, <3>2, <3>3, Zenon
  <2>2. CASE l >= Size
    <3>1. cTotal = Size
      BY <1>1, <2>2 DEF CountInv
    <3>2. PICK o \in Nat : o = l - Size + 1
      BY <1>1, <2>2
    <3>3. o \in K /\ KeptPlaces' \ {l + 1} = K \ {o}
      BY <1>1, <1>3, <1>4, <2>2, <3>2
    <3>4. ring[head] = log[o].outcome
      <4>1. Size \in 1..Size /\ Size <= Len(log) /\ Back(Size) = head
        BY <1>1, <2>2 DEF Back, CountInv
      <4> QED
        BY <1>1, <3>2, <4>1, Zenon DEF CountInv
    <3>5. {i \in K \ {o} : log[i].outcome = "failure"} = F \ {o}
      BY <1>5, Zenon DEF Failed
    <3>6. o \in F <=> log[o].outcome = "failure"
      BY <1>5, <3>3, Zenon DEF Failed
    <3>7. IsFiniteSet(F \ {o}) /\ Cardinality(F \ {o}) = IF o \in F THEN Cardinality(F) - 1 ELSE Cardinality(F)
      BY <1>5, FS_RemoveElement, Zenon
    <3>8. Cardinality(F \ {o}) = Cardinality(F) - One(ring[head])
      BY <1>6, <3>4, <3>6, <3>7 DEF One
    <3> QED
      BY <1>6, <3>1, <3>3, <3>5, <3>7, <3>8, Zenon
  <2> QED
    BY <1>1, <2>1, <2>2
<1>8. Failed(KeptPlaces)' = IF e.outcome = "failure" THEN G \cup {l + 1} ELSE G
  <2>1. l + 1 \in KeptPlaces' /\ \A i \in KeptPlaces' \ {l + 1} : i \in 1..l
    BY <1>1, <1>4
  <2>2. \A i \in KeptPlaces' : i \in Failed(KeptPlaces)' <=> log'[i].outcome = "failure"
    BY Zenon DEF Failed
  <2>3. Failed(KeptPlaces)' \subseteq KeptPlaces'
    BY Zenon DEF Failed
  <2> QED
    BY <1>2, <1>7, <2>1, <2>2, <2>3
<1>9. Cardinality(G \cup {l + 1}) = Cardinality(G) + 1 /\ Cardinality(G) \in Int
  <2>1. IsFiniteSet(G) /\ l + 1 \notin G
    BY <1>7, Zenon
  <2>2. Cardinality(G \cup {l + 1}) = Cardinality(G) + 1
    BY <2>1, FS_AddElement, Zenon
  <2>3. Cardinality(G) \in Nat
    BY <2>1, FS_CardinalityType, Zenon
  <2> QED
    BY <2>2, <2>3
<1>10. Cardinality(Failed(KeptPlaces)') = Cardinality(G) + One(e.outcome)
  BY <1>8, <1>9 DEF One
<1> QED
  BY <1>5, <1>6, <1>7, <1>9, <1>10 DEF One

\* record(): the ring still holds the last outcomes.
LEMMA CountRecordStep ==
  ASSUME CountInv, NEW o \in Outcomes, CountRecord(o), NEW t \in Nat, log' = Append(log, [outcome |-> o, at |-> t])
  PROVE  CountInv'
<1>1. PICK e \in Entries : e = [outcome |-> o, at |-> t] /\ e.outcome = o
  BY DEF Entries
<1>2. PICK l \in Nat : l = Len(log) /\ Size \in Nat /\ Size > 0
  BY WindowAssumption DEF CountInv
<1>3. /\ log \in Seq(Entries) /\ log' \in Seq(Entries) /\ Len(log') = l + 1
      /\ log'[l + 1] = e /\ \A i \in 1..l : log'[i] = log[i]
  BY <1>1, <1>2, LogGrows, Zenon DEF CountInv
<1>4. ring' \in [0..(Size - 1) -> Outcomes] /\ ring \in [0..(Size - 1) -> Outcomes] /\ head \in 0..(Size - 1)
      /\ ring' = [ring EXCEPT ![head] = o]
  BY Zenon DEF CountRecord, CountInv
<1>5. head' = (IF head + 1 = Size THEN 0 ELSE head + 1) /\ head' \in 0..(Size - 1)
  BY <1>2, <1>4, NextHead DEF CountRecord
<1>6. cTotal' = IF l + 1 < Size THEN l + 1 ELSE Size
  BY <1>2 DEF CountRecord, CountInv
<1>7. ASSUME NEW d \in 1..Size, d <= l + 1 PROVE ring'[Back(d)'] = log'[l + 1 - d + 1].outcome
  <2>1. CASE d = 1
    <3>1. Back(d)' = head
      BY <1>2, <1>4, <1>5, <2>1 DEF Back
    <3> QED
      BY <1>1, <1>2, <1>3, <1>4, <2>1, <3>1
  <2>2. CASE d > 1
    <3>1. PICK c \in 1..Size : c = d - 1 /\ c <= l /\ c < Size
      BY <1>2, <1>7, <2>2
    <3>2. Back(d)' = Back(c) /\ Back(c) # head /\ Back(c) \in 0..(Size - 1)
      BY <1>2, <1>4, <1>5, <3>1 DEF Back
    <3>3. ring[Back(c)] = log[l - c + 1].outcome
      BY <1>2, <3>1, Zenon DEF CountInv
    <3>4. l - c + 1 \in 1..l /\ l + 1 - d + 1 = l - c + 1
      BY <1>2, <3>1
    <3> QED
      BY <1>3, <1>4, <3>2, <3>3, <3>4, Zenon
  <2>3. d = 1 \/ d > 1
    BY <1>2
  <2> QED
    BY <2>1, <2>2, <2>3, Zenon
<1>8. cFailures' = Cardinality(Failed(KeptPlaces))'
  BY <1>1, FailuresFollow, Zenon DEF CountRecord
<1>9. \A d \in 1..Size : d <= Len(log') => ring'[Back(d)'] = log'[Len(log') - d + 1].outcome
  BY <1>3, <1>7
<1> QED
  BY <1>3, <1>4, <1>5, <1>6, <1>8, <1>9, Zenon DEF CountInv

-----------------------------------------------------------------------------
(* The time window                                                          *)

\* The members of X whose time is in the half-open interval from a to b.
Within(X, at, a, b) == {x \in X : a <= at[x] /\ at[x] < b}

\* A product, one factor larger or split in two.
LEMMA Product ==
  ASSUME NEW a \in Int, NEW b \in Int, NEW w \in Int
  PROVE  a * w \in Int /\ (a + b) * w = a * w + b * w /\ 0 * w = 0 /\ 1 * w = w
OBVIOUS

\* A larger number of buckets spans at least as long.
LEMMA ProductGrows ==
  ASSUME NEW a \in Int, NEW b \in Int, a <= b, NEW w \in Nat
  PROVE  a * w <= b * w
<1>1. PICK d \in Nat : b = a + d
  <2>1. b - a \in Nat /\ b = a + (b - a)
    OBVIOUS
  <2> QED
    BY <2>1, Zenon
<1>2. b * w = a * w + d * w /\ a * w \in Int /\ d * w \in Int
  BY <1>1, Product
<1>3. d * w >= 0
  OBVIOUS
<1> QED
  BY <1>2, <1>3

\* Two adjacent intervals.
LEMMA WithinSplits ==
  ASSUME NEW X, IsFiniteSet(X), NEW at, \A x \in X : at[x] \in Int,
         NEW a \in Int, NEW b \in Int, NEW c \in Int, a <= b, b <= c
  PROVE  /\ Cardinality(Within(X, at, a, c)) = Cardinality(Within(X, at, a, b)) + Cardinality(Within(X, at, b, c))
         /\ Cardinality(Within(X, at, a, b)) \in Nat /\ Cardinality(Within(X, at, b, c)) \in Nat
<1>1. PICK P, Q : P = Within(X, at, a, b) /\ Q = Within(X, at, b, c)
  BY Zenon
<1>2. Within(X, at, a, c) = P \cup Q /\ P \cap Q = {} /\ P \in SUBSET X /\ Q \in SUBSET X
  BY <1>1 DEF Within
<1>3. IsFiniteSet(P) /\ IsFiniteSet(Q)
  BY <1>2, FS_Subset, Zenon
<1>4. Cardinality(P) \in Nat /\ Cardinality(Q) \in Nat
  BY <1>3, FS_CardinalityType, Zenon
<1>5. Cardinality(P \cup Q) = Cardinality(P) + Cardinality(Q) - Cardinality(P \cap Q)
  BY <1>3, FS_Union, Zenon
<1>6. Cardinality(P \cap Q) = 0
  BY <1>2, FS_EmptySet, Zenon
<1> QED
  BY <1>1, <1>2, <1>4, <1>5, <1>6

\* f counts the members of X in each of the n adjacent intervals of width w from s on.
CountsFrom(f, X, at, s, w, n) == \A k \in 1..n : f[k] = Cardinality(Within(X, at, s + (k - 1) * w, s + k * w))

\* Counts of adjacent buckets add up to the count of their whole span.
LEMMA CountsAdd ==
  ASSUME NEW X, IsFiniteSet(X), NEW at, \A x \in X : at[x] \in Int, NEW s \in Int, NEW w \in Nat, NEW n \in Nat,
         NEW f, CountsFrom(f, X, at, s, w, n), NEW m \in 0..n
  PROVE  SumFunctionOnSet(f, 1..m) = Cardinality(Within(X, at, s, s + m * w))
<1> DEFINE Bad == {j \in 0..n : SumFunctionOnSet(f, 1..j) # Cardinality(Within(X, at, s, s + j * w))}
<1>1. SUFFICES ASSUME Bad # {} PROVE FALSE
  BY Zenon
<1>2. \A j \in 0..n : s + j * w \in Int
  OBVIOUS
<1>3. \A k \in 1..n : f[k] \in Int
  <2>1. ASSUME NEW k \in 1..n PROVE f[k] \in Int
    <3>1. Within(X, at, s + (k - 1) * w, s + k * w) \in SUBSET X
      BY Zenon DEF Within
    <3> QED
      BY <3>1, FS_Subset, FS_CardinalityType DEF CountsFrom
  <2> QED
    BY <2>1, Zenon
<1>4. PICK j \in Bad : \A i \in Bad : j <= i
  <2>1. Bad \in SUBSET Nat
    OBVIOUS
  <2> QED
    BY <1>1, <2>1, LeastNumber, Zenon
<1>5. j # 0
  <2>1. SUFFICES ASSUME j = 0 PROVE FALSE
    BY Zenon
  <2>2. s + 0 * w = s
    BY Product
  <2>3. Within(X, at, s, s) = {}
    BY DEF Within
  <2>4. 1..0 = {}
    OBVIOUS
  <2>5. SumFunctionOnSet(f, 1..0) = 0
    BY <2>4, SumNone, Zenon
  <2> QED
    BY <2>1, <2>2, <2>3, <2>5, FS_EmptySet, Zenon
<1>6. PICK i \in 0..n : i + 1 = j /\ j - 1 = i /\ j \in 1..n /\ i \notin Bad
  <2>1. j - 1 \in 0..n /\ (j - 1) + 1 = j /\ ~(j <= j - 1) /\ j \in 1..n
    BY <1>5
  <2> QED
    BY <1>4, <2>1, Zenon
<1>7. SumFunctionOnSet(f, 1..i) = Cardinality(Within(X, at, s, s + i * w))
  BY <1>6, Zenon
<1>8. SumFunctionOnSet(f, 1..j) = SumFunctionOnSet(f, 1..i) + f[j]
  <2>1. \A k \in 1..j : f[k] \in Int
    BY <1>3, <1>6
  <2> QED
    BY <1>6, <2>1, SumInterval
<1>9. f[j] = Cardinality(Within(X, at, s + i * w, s + j * w))
  BY <1>6, Zenon DEF CountsFrom
<1>10. PICK p \in Int, q \in Int : p = s + i * w /\ q = s + j * w /\ s <= p /\ p <= q
  <2>1. i * w \in Int /\ j * w = i * w + w /\ i * w >= 0
    BY <1>6, Product
  <2> QED
    BY <2>1
<1> HIDE DEF Bad
<1>11. Cardinality(Within(X, at, s, q)) = Cardinality(Within(X, at, s, p)) + Cardinality(Within(X, at, p, q))
  BY <1>10, WithinSplits
<1> QED
  BY <1>4, <1>7, <1>8, <1>9, <1>10, <1>11, Zenon DEF Bad

\* The starts of the buckets, one width apart.
Layout(st) ==
  /\ st \in [1..NumBuckets -> Int]
  /\ \A i \in 1..NumBuckets : st[i] = st[NumBuckets] + (i - NumBuckets) * BucketWidth

\* Each bucket counts the members of X whose time is in it, and total all of them.
CountsOk(st, g, total, X, at) ==
  /\ IsFiniteSet(X) /\ \A x \in X : at[x] \in Int /\ at[x] < st[NumBuckets] + BucketWidth
  /\ \A i \in 1..NumBuckets : g[i] = Cardinality(Within(X, at, st[i], st[i] + BucketWidth))
  /\ total = Cardinality(Within(X, at, st[1], st[NumBuckets] + BucketWidth))

\* Where the buckets start, from the oldest on.
LEMMA FromOldest ==
  ASSUME NEW st, Layout(st)
  PROVE  /\ st[1] \in Int /\ st[NumBuckets] \in Int /\ st[NumBuckets] + BucketWidth = st[1] + NumBuckets * BucketWidth
         /\ \A i \in 1..NumBuckets : st[i] = st[1] + (i - 1) * BucketWidth /\ st[i] + BucketWidth = st[1] + i * BucketWidth
<1>1. PICK n \in Nat, w \in Nat : n = NumBuckets /\ w = BucketWidth /\ n > 0 /\ w > 0
  BY WindowAssumption
<1>2. st \in [1..n -> Int] /\ \A i \in 1..n : st[i] = st[n] + (i - n) * w
  BY <1>1, Zenon DEF Layout
<1>3. st[1] \in Int /\ st[n] \in Int /\ st[1] = st[n] + (1 - n) * w
  BY <1>1, <1>2
<1>4. ASSUME NEW i \in 1..n PROVE st[i] = st[1] + (i - 1) * w /\ st[i] + w = st[1] + i * w
  <2>1. PICK a \in Int, b \in Int, c \in Int : a = i - 1 /\ b = 1 - n /\ c = i - n /\ c = a + b /\ i = a + 1
    OBVIOUS
  <2>2. c * w = a * w + b * w /\ i * w = a * w + w /\ a * w \in Int /\ b * w \in Int
    BY <2>1, Product
  <2>3. st[i] = st[n] + c * w /\ st[1] = st[n] + b * w
    BY <1>2, <1>3, <2>1, Zenon
  <2> QED
    BY <1>3, <2>1, <2>2, <2>3
<1>5. n \in 1..n
  BY <1>1
<1> QED
  BY <1>1, <1>3, <1>4, <1>5, Zenon

\* The oldest m buckets hold what their span holds, and all of them the total.
LEMMA BucketsAdd ==
  ASSUME NEW st, Layout(st), NEW g, NEW total, NEW X, NEW at, CountsOk(st, g, total, X, at)
  PROVE  /\ \A m \in 0..NumBuckets :
              SumFunctionOnSet(g, 1..m) = Cardinality(Within(X, at, st[1], st[1] + m * BucketWidth))
         /\ total = SumFunctionOnSet(g, 1..NumBuckets)
<1>1. PICK n \in Nat, w \in Nat : n = NumBuckets /\ w = BucketWidth
  BY WindowAssumption, Zenon
<1>2. PICK s \in Int : s = st[1] /\ st[n] + w = s + n * w
  BY <1>1, FromOldest, Zenon
<1>3. CountsFrom(g, X, at, s, w, n)
  <2>1. ASSUME NEW k \in 1..n PROVE st[k] = s + (k - 1) * w /\ st[k] + w = s + k * w
    BY <1>1, <1>2, FromOldest, Zenon
  <2>2. \A k \in 1..n : g[k] = Cardinality(Within(X, at, st[k], st[k] + w))
    BY <1>1, Zenon DEF CountsOk
  <2> QED
    BY <2>1, <2>2, Zenon DEF CountsFrom
<1>4. IsFiniteSet(X) /\ \A x \in X : at[x] \in Int
  BY Zenon DEF CountsOk
<1>5. \A m \in 0..n : SumFunctionOnSet(g, 1..m) = Cardinality(Within(X, at, s, s + m * w))
  <2>1. ASSUME NEW m \in 0..n PROVE SumFunctionOnSet(g, 1..m) = Cardinality(Within(X, at, s, s + m * w))
    BY <1>3, <1>4, CountsAdd
  <2> QED
    BY <2>1, Zenon
<1>6. total = Cardinality(Within(X, at, s, s + n * w)) /\ n \in 0..n
  BY <1>1, <1>2 DEF CountsOk
<1> QED
  BY <1>1, <1>2, <1>5, <1>6, Zenon

\* The starts and the counts after slide() by n buckets.
ShiftStarts(st, n) == [i \in 1..NumBuckets |-> st[NumBuckets] + (i + n - NumBuckets) * BucketWidth]
ShiftCounts(g, n) == [i \in 1..NumBuckets |-> IF i + n <= NumBuckets THEN g[i + n] ELSE 0]

\* slide() by n buckets keeps the layout.
LEMMA SlidLayout ==
  ASSUME NEW st, Layout(st), NEW n \in Nat, NEW nst, nst = ShiftStarts(st, n)
  PROVE  /\ Layout(nst) /\ nst[NumBuckets] = st[NumBuckets] + n * BucketWidth
         /\ \A i \in 1..NumBuckets : i + n <= NumBuckets => nst[i] = st[i + n]
<1>1. PICK N \in Nat, w \in Nat : N = NumBuckets /\ w = BucketWidth /\ N > 0
  BY WindowAssumption
<1>2. PICK z \in Int : z = st[N]
  BY <1>1, FromOldest, Zenon
<1>3. \A i \in 1..N : nst[i] = z + (i + n - N) * w /\ nst[i] \in Int
  BY <1>1, <1>2 DEF ShiftStarts
<1>4. nst[N] = z + n * w /\ N \in 1..N
  <2>1. N \in 1..N /\ N + n - N = n
    BY <1>1
  <2> QED
    BY <1>3, <2>1, Zenon
<1>5. ASSUME NEW i \in 1..N PROVE nst[i] = nst[N] + (i - N) * w
  <2>1. PICK a \in Int, b \in Int : a = i - N /\ b = i + n - N /\ b = n + a
    OBVIOUS
  <2>2. b * w = n * w + a * w /\ n * w \in Int /\ a * w \in Int
    BY <2>1, Product
  <2> QED
    BY <1>3, <1>4, <2>1, <2>2
<1>6. nst \in [1..N -> Int]
  BY <1>1, <1>3, Zenon DEF ShiftStarts
<1>7. ASSUME NEW i \in 1..N, i + n <= N PROVE nst[i] = st[i + n]
  <2>1. PICK j \in 1..N : j = i + n
    BY <1>1, <1>7
  <2>2. st[j] = z + (j - N) * w
    BY <1>1, <1>2, Zenon DEF Layout
  <2>3. nst[i] = z + (j - N) * w
    BY <1>3, <2>1
  <2> QED
    BY <2>1, <2>2, <2>3, Zenon
<1> QED
  BY <1>1, <1>2, <1>4, <1>5, <1>6, <1>7, Zenon DEF Layout

\* slide() by n buckets: what it subtracts is what it evicts.
LEMMA SlidCounts ==
  ASSUME NEW st, Layout(st), NEW g, NEW total, NEW X, NEW at, CountsOk(st, g, total, X, at), NEW n \in Nat,
         NEW nst, nst = ShiftStarts(st, n), NEW ng, ng = ShiftCounts(g, n),
         NEW e, e = IF n < NumBuckets THEN n ELSE NumBuckets
  PROVE  CountsOk(nst, ng, total - SumFunctionOnSet(g, 1..e), X, at)
<1>1. PICK N \in Nat, w \in Nat : N = NumBuckets /\ w = BucketWidth /\ N > 0 /\ w > 0
  BY WindowAssumption
<1>2. PICK s \in Int, z \in Int : s = st[1] /\ z = st[N] /\ z + w = s + N * w
  BY <1>1, FromOldest, Zenon
<1>3. Layout(nst) /\ nst[N] = z + n * w /\ \A i \in 1..N : i + n <= N => nst[i] = st[i + n]
  <2>1. /\ Layout(nst) /\ nst[NumBuckets] = st[NumBuckets] + n * BucketWidth
        /\ \A i \in 1..NumBuckets : i + n <= NumBuckets => nst[i] = st[i + n]
    BY SlidLayout
  <2> QED
    BY <1>1, <1>2, <2>1, Zenon
<1>4. nst[1] \in Int /\ nst[N] \in Int /\ nst[N] + w = nst[1] + N * w /\ nst \in [1..N -> Int]
  BY <1>1, <1>3, FromOldest, Zenon DEF Layout
<1>5. IsFiniteSet(X) /\ \A x \in X : at[x] \in Int /\ at[x] < z + w
  BY <1>1, <1>2, Zenon DEF CountsOk
<1>6. PICK nw \in Nat, Nw \in Nat : nw = n * w /\ Nw = N * w /\ nst[1] = s + nw /\ nst[N] = z + nw /\ z + w = s + Nw
  <2>1. PICK nw \in Nat, Nw \in Nat : nw = n * w /\ Nw = N * w
    BY <1>1
  <2>2. nst[N] = z + nw
    BY <1>3, <2>1, Zenon
  <2>3. z + w = s + Nw
    BY <1>2, <2>1, Zenon
  <2>4. nst[N] + w = nst[1] + Nw
    BY <1>4, <2>1, Zenon
  <2>5. nst[1] = s + nw
    BY <1>1, <1>4, <2>2, <2>3, <2>4
  <2> QED
    BY <2>1, <2>2, <2>3, <2>5, Zenon
<1>7. \A x \in X : at[x] < nst[N] + w
  BY <1>1, <1>3, <1>4, <1>5, <1>6
<1>8. ASSUME NEW i \in 1..N PROVE ng[i] = Cardinality(Within(X, at, nst[i], nst[i] + w))
  <2>1. CASE i + n <= N
    <3>1. PICK j \in 1..N : j = i + n
      BY <1>1, <2>1
    <3>2. ng[i] = g[j] /\ nst[i] = st[j]
      BY <1>1, <1>3, <2>1, <3>1, Zenon DEF ShiftCounts
    <3> QED
      BY <1>1, <3>2, Zenon DEF CountsOk
  <2>2. CASE i + n > N
    <3>1. ng[i] = 0
      BY <1>1, <2>2 DEF ShiftCounts
    <3>2. PICK a \in Int : a = nst[i] /\ a >= z + w
      <4>1. PICK k \in Int : k = i + n - N /\ 1 <= k
        BY <2>2
      <4>2. PICK kw \in Int : kw = k * w /\ w <= kw
        BY <1>1, <4>1, ProductGrows, Product
      <4>3. nst[i] = z + kw
        BY <1>1, <1>2, <4>1, <4>2, Zenon DEF ShiftStarts
      <4> QED
        BY <1>1, <1>2, <4>2, <4>3
    <3>3. Within(X, at, a, a + w) = {}
      BY <1>1, <1>2, <1>5, <3>2 DEF Within
    <3> QED
      BY <3>1, <3>2, <3>3, FS_EmptySet, Zenon
  <2> QED
    BY <1>1, <2>1, <2>2
<1>9. total - SumFunctionOnSet(g, 1..e) = Cardinality(Within(X, at, nst[1], nst[N] + w))
  <2>1. e \in 0..N /\ e \in Nat /\ e <= n /\ e <= N
    BY <1>1
  <2>2. PICK p \in Int : p = s + e * w /\ s <= p /\ p <= z + w
    <3>1. e * w <= N * w
      BY <1>1, <2>1, ProductGrows
    <3>2. PICK ew \in Nat : ew = e * w
      BY <1>1, <2>1
    <3>3. ew <= Nw
      BY <1>6, <3>1, <3>2, Zenon
    <3> QED
      BY <1>1, <1>2, <1>6, <3>2, <3>3
  <2>3. SumFunctionOnSet(g, 1..e) = Cardinality(Within(X, at, s, p))
    BY <1>1, <1>2, <2>1, <2>2, BucketsAdd
  <2>4. total = Cardinality(Within(X, at, s, z + w))
    BY <1>1, <1>2, Zenon DEF CountsOk
  <2>5. /\ Cardinality(Within(X, at, s, z + w)) = Cardinality(Within(X, at, s, p)) + Cardinality(Within(X, at, p, z + w))
        /\ Cardinality(Within(X, at, s, p)) \in Nat /\ Cardinality(Within(X, at, p, z + w)) \in Nat
    <3>1. PICK q \in Int : q = z + w
      BY <1>1
    <3>2. IsFiniteSet(X) /\ (\A y \in X : at[y] \in Int) /\ s <= p /\ p <= q
      BY <1>5, <2>2, <3>1, Zenon
    <3> QED
      BY <3>1, <3>2, WithinSplits, Zenon
  <2>6. Within(X, at, p, z + w) = Within(X, at, nst[1], nst[N] + w)
    <3>1. CASE n < N
      <4>1. p = nst[1]
        BY <1>1, <1>6, <2>2, <3>1, Zenon
      <4> QED
        BY <1>1, <1>5, <1>7, <2>2, <4>1, Zenon DEF Within
    <3>2. CASE n >= N
      <4>1. p = z + w
        BY <1>1, <1>2, <2>2, <3>2
      <4>2. nst[1] >= z + w
        <5>1. N * w <= n * w
          BY <1>1, <3>2, ProductGrows
        <5>2. Nw <= nw
          BY <1>6, <5>1, Zenon
        <5> QED
          BY <1>1, <1>2, <1>6, <5>2
      <4>3. Within(X, at, p, z + w) = {} /\ Within(X, at, nst[1], nst[N] + w) = {}
        BY <1>1, <1>4, <1>5, <4>1, <4>2 DEF Within
      <4> QED
        BY <4>3, Zenon
    <3> QED
      BY <1>1, <3>1, <3>2
  <2> QED
    BY <2>3, <2>4, <2>5, <2>6
<1> QED
  BY <1>1, <1>5, <1>7, <1>8, <1>9, Zenon DEF CountsOk

\* x joins the members, in the newest bucket, which counts one more.
JoinsNewest(st, g, ng, X, x, at, nat) ==
  /\ x \notin X /\ (\A y \in X : nat[y] = at[y]) /\ nat[x] \in Int
  /\ st[NumBuckets] <= nat[x] /\ nat[x] < st[NumBuckets] + BucketWidth
  /\ \A i \in 1..NumBuckets : ng[i] = IF i = NumBuckets THEN g[i] + 1 ELSE g[i]

\* The newest bucket counts one more.
LEMMA RecordCounts ==
  ASSUME NEW st, Layout(st), NEW g, NEW total, NEW X, NEW at, CountsOk(st, g, total, X, at),
         NEW x, NEW nat, NEW ng, JoinsNewest(st, g, ng, X, x, at, nat)
  PROVE  CountsOk(st, ng, total + 1, X \cup {x}, nat)
<1>1. PICK N \in Nat, w \in Nat : N = NumBuckets /\ w = BucketWidth /\ N > 0 /\ w > 0
  BY WindowAssumption
<1>2. PICK s \in Int, z \in Int : s = st[1] /\ z = st[N] /\ z + w = s + N * w
  BY <1>1, FromOldest, Zenon
<1>3. PICK t \in Int : t = nat[x] /\ z <= t /\ t < z + w
  BY <1>1, <1>2, Zenon DEF JoinsNewest
<1>4. IsFiniteSet(X) /\ \A y \in X : at[y] \in Int /\ at[y] < z + w
  BY <1>1, <1>2, Zenon DEF CountsOk
<1>5. IsFiniteSet(X \cup {x}) /\ \A y \in X \cup {x} : nat[y] \in Int /\ nat[y] < z + w
  BY <1>3, <1>4, FS_AddElement, Zenon DEF JoinsNewest
<1>6. ASSUME NEW a \in Int, NEW b \in Int
      PROVE  Cardinality(Within(X \cup {x}, nat, a, b)) =
               Cardinality(Within(X, at, a, b)) + (IF a <= t /\ t < b THEN 1 ELSE 0)
  <2>1. PICK P : P = Within(X, at, a, b) /\ P \in SUBSET X /\ x \notin P
    BY Zenon DEF Within, JoinsNewest
  <2>2. IsFiniteSet(P)
    BY <1>4, <2>1, FS_Subset, Zenon
  <2>3. Cardinality(P) \in Nat /\ Cardinality(P \cup {x}) = Cardinality(P) + 1
    BY <2>1, <2>2, FS_CardinalityType, FS_AddElement, Zenon
  <2>4. Within(X \cup {x}, nat, a, b) = IF a <= t /\ t < b THEN P \cup {x} ELSE P
    BY <1>3, <2>1, Zenon DEF Within, JoinsNewest
  <2> QED
    BY <2>1, <2>3, <2>4
<1>7. ASSUME NEW i \in 1..N PROVE ng[i] = Cardinality(Within(X \cup {x}, nat, st[i], st[i] + w))
  <2>1. PICK a \in Int : a = st[i] /\ a + w \in Int
    BY <1>1 DEF Layout
  <2>2. g[i] = Cardinality(Within(X, at, a, a + w)) /\ g[i] \in Nat
    <3>1. g[i] = Cardinality(Within(X, at, a, a + w))
      BY <1>1, <2>1, Zenon DEF CountsOk
    <3>2. Within(X, at, a, a + w) \in SUBSET X
      BY Zenon DEF Within
    <3> QED
      BY <1>4, <3>1, <3>2, FS_Subset, FS_CardinalityType, Zenon
  <2>3. (a <= t /\ t < a + w) <=> i = N
    <3>1. CASE i = N
      BY <1>2, <1>3, <2>1, <3>1, Zenon
    <3>2. CASE i < N
      <4>1. PICK k \in Int : k = i - N /\ k <= 0 - 1
        BY <1>1, <3>2
      <4>2. a = z + k * w
        BY <1>1, <1>2, <2>1, <4>1, Zenon DEF Layout
      <4>3. k * w <= (0 - 1) * w /\ (0 - 1) * w = 0 - w /\ k * w \in Int
        BY <1>1, <4>1, ProductGrows
      <4>4. a + w <= z
        BY <1>1, <1>2, <4>2, <4>3
      <4> QED
        BY <1>3, <2>1, <3>2, <4>4
    <3> QED
      BY <1>1, <3>1, <3>2
  <2>4. Cardinality(Within(X \cup {x}, nat, a, a + w)) = g[i] + (IF i = N THEN 1 ELSE 0)
    <3>1. PICK b \in Int : b = a + w
      BY <2>1, Zenon
    <3>2. Cardinality(Within(X \cup {x}, nat, a, b)) = Cardinality(Within(X, at, a, b)) + (IF a <= t /\ t < b THEN 1 ELSE 0)
      BY <1>6, Zenon
    <3> QED
      BY <2>2, <2>3, <3>1, <3>2, Zenon
  <2>5. ng[i] = g[i] + (IF i = N THEN 1 ELSE 0)
    BY <1>1, <2>2 DEF JoinsNewest
  <2> QED
    BY <2>1, <2>4, <2>5, Zenon
<1>8. total + 1 = Cardinality(Within(X \cup {x}, nat, s, z + w))
  <2>1. s <= z
    <3>1. N * w = w + (N - 1) * w /\ (N - 1) * w >= 0 /\ (N - 1) * w \in Int /\ N * w \in Int
      BY <1>1
    <3> QED
      BY <1>1, <1>2, <3>1
  <2>2. total = Cardinality(Within(X, at, s, z + w)) /\ z + w \in Int
    BY <1>1, <1>2 DEF CountsOk
  <2>3. Cardinality(Within(X \cup {x}, nat, s, z + w)) = Cardinality(Within(X, at, s, z + w)) + 1
    <3>1. PICK b \in Int : b = z + w
      BY <2>2, Zenon
    <3>2. Cardinality(Within(X \cup {x}, nat, s, b)) = Cardinality(Within(X, at, s, b)) + (IF s <= t /\ t < b THEN 1 ELSE 0)
      BY <1>6, Zenon
    <3>3. s <= t /\ t < b
      BY <1>2, <1>3, <2>1, <3>1
    <3> QED
      BY <3>1, <3>2, <3>3, Zenon
  <2> QED
    BY <2>2, <2>3, Zenon
<1> QED
  BY <1>1, <1>2, <1>5, <1>7, <1>8, Zenon DEF CountsOk

BucketRecords == [start : Int, failures : Nat, requests : Nat]

Starts(bs) == [i \in 1..NumBuckets |-> bs[i].start]
RequestCounts(bs) == [i \in 1..NumBuckets |-> bs[i].requests]
FailureCounts(bs) == [i \in 1..NumBuckets |-> bs[i].failures]
Times == [i \in DOMAIN log |-> log[i].at]

\* Buckets bs and totals f and r summarise the log.
WindowOk(bs, f, r) ==
  /\ bs \in [1..NumBuckets -> BucketRecords] /\ Layout(Starts(bs))
  /\ CountsOk(Starts(bs), RequestCounts(bs), r, DOMAIN log, Times)
  /\ CountsOk(Starts(bs), FailureCounts(bs), f, Failed(DOMAIN log), Times)

TimeInv ==
  /\ now \in Nat /\ log \in Seq(Entries)
  /\ WindowOk(buckets, tFailures, tRequests) /\ buckets[NumBuckets].start <= now

\* slide() stops at the bucket that holds the present.
LEMMA RollsIs ==
  ASSUME TimeInv
  PROVE  \E n \in Nat : /\ n = Rolls(buckets, now)
                        /\ buckets[NumBuckets].start + n * BucketWidth <= now
                        /\ now < buckets[NumBuckets].start + n * BucketWidth + BucketWidth
<1>1. PICK w \in Nat, late \in Nat, z \in Int :
        w = BucketWidth /\ w > 0 /\ z = buckets[NumBuckets].start /\ late = now - z /\ now \in Nat
  <2>1. NumBuckets \in 1..NumBuckets
    BY WindowAssumption
  <2>2. PICK z \in Int : z = buckets[NumBuckets].start
    BY <2>1, Zenon DEF TimeInv, WindowOk, BucketRecords
  <2>3. PICK late \in Nat : late = now - z /\ now \in Nat
    BY <2>2 DEF TimeInv
  <2>4. PICK w \in Nat : w = BucketWidth /\ w > 0
    BY WindowAssumption
  <2> QED
    BY <2>2, <2>3, <2>4, Zenon
<1>2. PICK n \in Nat : n = IF late < w THEN 0 ELSE late \div w
  BY <1>1
<1>3. n = Rolls(buckets, now)
  BY <1>1, <1>2, Zenon DEF Rolls
<1>4. PICK nw \in Int : nw = n * w /\ nw <= late /\ late < nw + w
  <2>1. CASE late < w
    BY <1>1, <1>2, <2>1
  <2>2. CASE late >= w
    <3>1. n = late \div w
      BY <1>1, <1>2, <2>2
    <3>2. n * w = w * n /\ w * n <= late /\ late < w * n + w /\ w * n \in Int
      BY <1>1, <3>1
    <3> QED
      BY <3>2, Zenon
  <2> QED
    BY <1>1, <2>1, <2>2
<1>5. z + nw <= now /\ now < z + nw + w
  BY <1>1, <1>4
<1> QED
  BY <1>1, <1>2, <1>3, <1>4, <1>5, Zenon

\* counts(): slide() keeps the summary and makes the newest bucket the present one.
LEMMA SlideStep ==
  ASSUME TimeInv
  PROVE  /\ WindowOk(Slid(buckets, now), SlidFailures, SlidRequests)
         /\ Slid(buckets, now)[NumBuckets].start <= now /\ now < Slid(buckets, now)[NumBuckets].start + BucketWidth
<1>1. PICK N \in Nat, w \in Nat : N = NumBuckets /\ w = BucketWidth /\ N > 0 /\ N \in 1..N
  BY WindowAssumption
<1>2. PICK n \in Nat : /\ n = Rolls(buckets, now)
                       /\ buckets[N].start + n * w <= now /\ now < buckets[N].start + n * w + w
  BY <1>1, RollsIs, Zenon
<1>3. PICK st : st = Starts(buckets) /\ Layout(st) /\ st[N] = buckets[N].start
  BY <1>1 DEF TimeInv, WindowOk, Starts
<1>4. PICK bs : bs = Slid(buckets, now) /\ buckets \in [1..N -> BucketRecords]
  BY <1>1, Zenon DEF TimeInv, WindowOk
<1>5. PICK nst : nst = ShiftStarts(st, n)
  BY Zenon
<1>6. Layout(nst) /\ nst[N] = st[N] + n * w /\ \A i \in 1..N : i + n <= N => nst[i] = st[i + n]
  <2>1. /\ Layout(nst) /\ nst[NumBuckets] = st[NumBuckets] + n * BucketWidth
        /\ \A i \in 1..NumBuckets : i + n <= NumBuckets => nst[i] = st[i + n]
    BY <1>3, <1>5, SlidLayout
  <2> QED
    BY <1>1, <2>1, Zenon
<1>7. ASSUME NEW i \in 1..N
      PROVE  /\ bs[i] \in BucketRecords /\ bs[i].start = nst[i]
             /\ bs[i].requests = ShiftCounts(RequestCounts(buckets), n)[i]
             /\ bs[i].failures = ShiftCounts(FailureCounts(buckets), n)[i]
  <2>1. CASE i + n <= N
    <3>1. PICK j \in 1..N : j = i + n
      BY <1>1, <2>1
    <3>2. bs[i] = buckets[j]
      BY <1>1, <1>2, <1>4, <2>1, <3>1, Zenon DEF Slid
    <3>3. nst[i] = buckets[j].start
      BY <1>1, <1>3, <1>6, <2>1, <3>1, Zenon DEF Starts
    <3>4. ShiftCounts(RequestCounts(buckets), n)[i] = buckets[j].requests
      BY <1>1, <2>1, <3>1, Zenon DEF ShiftCounts, RequestCounts
    <3>5. ShiftCounts(FailureCounts(buckets), n)[i] = buckets[j].failures
      BY <1>1, <2>1, <3>1, Zenon DEF ShiftCounts, FailureCounts
    <3> QED
      BY <1>4, <3>2, <3>3, <3>4, <3>5, Zenon
  <2>2. CASE ~(i + n <= N)
    <3>1. PICK a : a = buckets[N].start + (i + n - N) * w
      BY Zenon
    <3>2. bs[i] = [start |-> a, failures |-> 0, requests |-> 0]
      BY <1>1, <1>2, <1>4, <2>2, <3>1, Zenon DEF Slid
    <3>3. nst[i] = a
      BY <1>1, <1>3, <1>5, <3>1, Zenon DEF ShiftStarts
    <3>4. nst[i] \in Int
      BY <1>1, <1>6, Zenon DEF Layout
    <3>5. ShiftCounts(RequestCounts(buckets), n)[i] = 0 /\ ShiftCounts(FailureCounts(buckets), n)[i] = 0
      BY <1>1, <2>2, Zenon DEF ShiftCounts
    <3> QED
      BY <3>2, <3>3, <3>4, <3>5 DEF BucketRecords
  <2> QED
    BY <2>1, <2>2, Zenon
<1>8. bs \in [1..N -> BucketRecords]
  <2>1. bs = [i \in 1..N |-> bs[i]]
    BY <1>1, <1>4, Zenon DEF Slid
  <2> QED
    BY <1>7, <2>1, Zenon
<1>9. Starts(bs) = nst
  <2>1. nst = [i \in 1..N |-> nst[i]]
    BY <1>1, <1>6, Zenon DEF Layout
  <2> QED
    BY <1>1, <1>7, <2>1, Zenon DEF Starts
<1>10. RequestCounts(bs) = ShiftCounts(RequestCounts(buckets), n) /\ FailureCounts(bs) = ShiftCounts(FailureCounts(buckets), n)
  <2>1. RequestCounts(bs) = ShiftCounts(RequestCounts(buckets), n)
    BY <1>1, <1>7, Zenon DEF RequestCounts, ShiftCounts
  <2>2. FailureCounts(bs) = ShiftCounts(FailureCounts(buckets), n)
    BY <1>1, <1>7, Zenon DEF FailureCounts, ShiftCounts
  <2> QED
    BY <2>1, <2>2, Zenon
<1>11. PICK e : e = IF n < NumBuckets THEN n ELSE NumBuckets
  BY Zenon
<1>12. /\ SlidRequests = tRequests - SumFunctionOnSet(RequestCounts(buckets), 1..e)
       /\ SlidFailures = tFailures - SumFunctionOnSet(FailureCounts(buckets), 1..e)
  BY <1>2, <1>11, Zenon DEF SlidRequests, SlidFailures, RequestsOf, FailuresOf, RequestCounts, FailureCounts, Evicted
<1>13. CountsOk(nst, RequestCounts(bs), SlidRequests, DOMAIN log, Times)
  <2>1. CountsOk(st, RequestCounts(buckets), tRequests, DOMAIN log, Times)
    BY <1>3, Zenon DEF TimeInv, WindowOk
  <2> QED
    BY <1>3, <1>5, <1>10, <1>11, <1>12, <2>1, SlidCounts, Zenon
<1>14. CountsOk(nst, FailureCounts(bs), SlidFailures, Failed(DOMAIN log), Times)
  <2>1. CountsOk(st, FailureCounts(buckets), tFailures, Failed(DOMAIN log), Times)
    BY <1>3, Zenon DEF TimeInv, WindowOk
  <2> QED
    BY <1>3, <1>5, <1>10, <1>11, <1>12, <2>1, SlidCounts, Zenon
<1>15. WindowOk(bs, SlidFailures, SlidRequests)
  BY <1>1, <1>6, <1>8, <1>9, <1>13, <1>14, Zenon DEF WindowOk
<1>16. bs[N].start = buckets[N].start + n * w
  BY <1>1, <1>3, <1>6, <1>7, Zenon
<1> QED
  BY <1>1, <1>2, <1>4, <1>15, <1>16, Zenon

\* record(): the outcome goes to the newest bucket, once slide() is done.
LEMMA TimeRecordStep ==
  ASSUME TimeInv, NEW o \in Outcomes, TimeRecord(o), log' = Append(log, [outcome |-> o, at |-> now]), now' = now
  PROVE  TimeInv'
<1>1. PICK N \in Nat, w \in Nat : N = NumBuckets /\ w = BucketWidth /\ N > 0 /\ N \in 1..N
  BY WindowAssumption
<1>2. PICK bs, f, r : bs = Slid(buckets, now) /\ f = SlidFailures /\ r = SlidRequests
  BY Zenon
<1>3. WindowOk(bs, f, r) /\ bs[N].start <= now /\ now < bs[N].start + w
  BY <1>1, <1>2, SlideStep, Zenon
<1>4. now \in Nat /\ log \in Seq(Entries)
  BY Zenon DEF TimeInv
<1>5. PICK e \in Entries : e = [outcome |-> o, at |-> now] /\ e.outcome = o /\ e.at = now
  BY <1>4 DEF Entries
<1>6. PICK l \in Nat : l = Len(log)
  BY <1>4
<1>7. /\ log' \in Seq(Entries) /\ DOMAIN log = 1..l /\ DOMAIN log' = 1..(l + 1)
      /\ log'[l + 1] = e /\ \A i \in 1..l : log'[i] = log[i]
  BY <1>4, <1>5, <1>6, LogGrows, Zenon
<1>8. PICK x \in Nat : x = l + 1 /\ x \notin DOMAIN log /\ x \notin Failed(DOMAIN log) /\ DOMAIN log' = DOMAIN log \cup {x}
  <2>1. l + 1 \in Nat /\ l + 1 \notin DOMAIN log /\ DOMAIN log' = DOMAIN log \cup {l + 1}
    BY <1>7
  <2> QED
    BY <2>1, Zenon DEF Failed
<1>9. Times'[x] = now /\ (\A y \in DOMAIN log : Times'[y] = Times[y]) /\ Failed(DOMAIN log) \subseteq DOMAIN log
  BY <1>5, <1>7, <1>8, Zenon DEF Times, Failed
<1>10. PICK b \in BucketRecords : b = bs[N]
  BY <1>1, <1>3, Zenon DEF WindowOk
<1>11. PICK c : c = [b EXCEPT !.requests = @ + 1, !.failures = @ + One(o)]
  BY Zenon
<1>12. /\ c \in BucketRecords /\ c.start = b.start /\ c.requests = b.requests + 1
       /\ c.failures = IF o = "failure" THEN b.failures + 1 ELSE b.failures
  <2>1. PICK k \in Nat : k = One(o) /\ k = IF o = "failure" THEN 1 ELSE 0
    BY Zenon DEF One
  <2>2. b.failures \in Nat /\ b.requests \in Nat
    BY Zenon DEF BucketRecords
  <2>3. PICK p \in Nat, q \in Nat : p = b.requests + 1 /\ q = b.failures + k
    BY <2>1, <2>2
  <2>4. c = [b EXCEPT !.requests = p, !.failures = q]
    BY <1>11, <2>1, <2>3, Zenon DEF BucketRecords
  <2>5. c \in BucketRecords /\ c.start = b.start /\ c.requests = p /\ c.failures = q
    BY <2>4, Zenon DEF BucketRecords
  <2> QED
    BY <2>1, <2>2, <2>3, <2>5
<1>13. bs \in [1..N -> BucketRecords] /\ buckets' = [bs EXCEPT ![N] = c]
  <2>1. bs \in [1..N -> BucketRecords]
    BY <1>1, <1>3, Zenon DEF WindowOk
  <2>2. buckets' = [bs EXCEPT ![N].requests = @ + 1, ![N].failures = @ + One(o)]
    BY <1>1, <1>2, Zenon DEF TimeRecord
  <2> QED
    BY <1>10, <1>11, <2>1, <2>2, Zenon DEF BucketRecords
<1>14. PICK st : st = Starts(bs) /\ st = Starts(buckets') /\ Layout(st) /\ st[N] = bs[N].start
  <2>1. \A i \in 1..N : buckets'[i].start = bs[i].start
    BY <1>10, <1>12, <1>13, Zenon
  <2>2. Starts(buckets') = Starts(bs)
    BY <1>1, <2>1, Zenon DEF Starts
  <2> QED
    BY <1>1, <1>3, <2>2, Zenon DEF WindowOk, Starts
<1>15. CountsOk(st, RequestCounts(buckets'), r + 1, DOMAIN log', Times')
  <2>1. CountsOk(st, RequestCounts(bs), r, DOMAIN log, Times)
    BY <1>3, <1>14, Zenon DEF WindowOk
  <2>2. PICK g, ng : g = RequestCounts(bs) /\ ng = RequestCounts(buckets')
    BY Zenon
  <2>3. \A i \in 1..NumBuckets : ng[i] = IF i = NumBuckets THEN g[i] + 1 ELSE g[i]
    BY <1>1, <1>10, <1>12, <1>13, <2>2, Zenon DEF RequestCounts
  <2>4. PICK at, nat : at = Times /\ nat = Times'
    BY ZenonT(60)
  <2>5. nat[x] \in Int /\ st[NumBuckets] <= nat[x] /\ nat[x] < st[NumBuckets] + BucketWidth /\ \A y \in DOMAIN log : nat[y] = at[y]
    BY <1>1, <1>3, <1>4, <1>9, <1>14, <2>4
  <2>6. PICK X : X = DOMAIN log /\ JoinsNewest(st, g, ng, X, x, at, nat)
    BY <1>8, <2>3, <2>5, Zenon DEF JoinsNewest
  <2>7. CountsOk(st, g, r, X, at)
    BY <2>1, <2>2, <2>4, <2>6, Zenon
  <2>8. CountsOk(st, ng, r + 1, X \cup {x}, nat)
    BY <1>14, <2>6, <2>7, RecordCounts, Zenon
  <2> QED
    BY <1>8, <2>2, <2>4, <2>6, <2>8, Zenon
<1>16. CountsOk(st, FailureCounts(buckets'), f + One(o), Failed(DOMAIN log)', Times')
  <2>1. CountsOk(st, FailureCounts(bs), f, Failed(DOMAIN log), Times)
    BY <1>3, <1>14, Zenon DEF WindowOk
  <2>2. PICK g, ng, at, nat, X : g = FailureCounts(bs) /\ ng = FailureCounts(buckets') /\ at = Times /\ nat = Times' /\ X = Failed(DOMAIN log)
    BY Zenon
  <2>3. \A y \in X : nat[y] = at[y]
    BY <1>9, <2>2, Zenon
  <2>4. CASE o = "failure"
    <3>1. \A i \in 1..NumBuckets : ng[i] = IF i = NumBuckets THEN g[i] + 1 ELSE g[i]
      BY <1>1, <1>10, <1>12, <1>13, <2>2, <2>4, Zenon DEF FailureCounts
    <3>2. nat[x] \in Int /\ st[NumBuckets] <= nat[x] /\ nat[x] < st[NumBuckets] + BucketWidth
      BY <1>1, <1>3, <1>4, <1>9, <1>14, <2>2
    <3>3. CountsOk(st, ng, f + 1, X \cup {x}, nat)
      <4>1. JoinsNewest(st, g, ng, X, x, at, nat)
        BY <1>8, <2>2, <2>3, <3>1, <3>2, Zenon DEF JoinsNewest
      <4>2. CountsOk(st, g, f, X, at)
        BY <2>1, <2>2, Zenon
      <4> QED
        BY <1>14, <4>1, <4>2, RecordCounts, Zenon
    <3>4. Failed(DOMAIN log)' = X \cup {x}
      BY <1>5, <1>7, <1>8, <2>2, <2>4, Zenon DEF Failed
    <3> QED
      BY <2>2, <2>4, <3>3, <3>4, ZenonT(60) DEF One
  <2>5. CASE o # "failure"
    <3>1. \A i \in 1..NumBuckets : ng[i] = g[i]
      BY <1>1, <1>10, <1>12, <1>13, <2>2, <2>5, Zenon DEF FailureCounts
    <3>2. Failed(DOMAIN log)' = X
      BY <1>5, <1>7, <1>8, <2>2, <2>5, Zenon DEF Failed
    <3>3. \A p, q : Within(X, nat, p, q) = Within(X, at, p, q)
      BY <2>3, Zenon DEF Within
    <3>4. f + 0 = f
      <4>1. Within(X, at, st[1], st[NumBuckets] + BucketWidth) \in SUBSET X /\ IsFiniteSet(X)
        BY <2>1, <2>2, Zenon DEF Within, CountsOk
      <4>2. f \in Nat
        BY <2>1, <2>2, <4>1, FS_Subset, FS_CardinalityType, ZenonT(60) DEF CountsOk
      <4> QED
        BY <4>2
    <3>5. CountsOk(st, g, f, X, at)
      BY <2>1, <2>2
    <3>6. CountsOk(st, ng, f, X, nat)
      BY <2>3, <3>1, <3>3, <3>5, Zenon DEF CountsOk
    <3> QED
      BY <2>2, <2>5, <3>2, <3>4, <3>6, Zenon DEF One
  <2> QED
    BY <2>4, <2>5, Zenon
<1>17. buckets' \in [1..N -> BucketRecords] /\ buckets'[N].start <= now'
  BY <1>1, <1>3, <1>10, <1>12, <1>13, Zenon
<1>18. tFailures' = f + One(o) /\ tRequests' = r + 1
  BY <1>2, Zenon DEF TimeRecord
<1>19. WindowOk(buckets, tFailures, tRequests)'
  BY <1>1, <1>14, <1>15, <1>16, <1>17, <1>18, Zenon DEF WindowOk
<1> QED
  BY <1>1, <1>4, <1>7, <1>17, <1>19, Zenon DEF TimeInv

\* counts() changes what the window keeps, not what the log says.
LEMMA TimeCountsStep ==
  ASSUME TimeInv, TimeCounts, UNCHANGED <<now, log>>
  PROVE  TimeInv'
<1>1. WindowOk(buckets', tFailures', tRequests') /\ buckets'[NumBuckets].start <= now
  BY SlideStep, Zenon DEF TimeCounts
<1>2. WindowOk(buckets, tFailures, tRequests)'
  BY <1>1, Zenon DEF WindowOk, Times, Failed
<1> QED
  BY <1>1, <1>2, Zenon DEF TimeInv

\* The layout of newTimeWindow and reset, and an empty log.
FreshTime == now \in Nat /\ log = <<>> /\ buckets = FreshBuckets(now) /\ tFailures = 0 /\ tRequests = 0

\* A window just made or reset, its buckets aligned backwards from now, satisfies the invariant.
LEMMA FreshWindow == FreshTime => TimeInv
<1> SUFFICES ASSUME FreshTime PROVE TimeInv
  BY Zenon
<1> USE DEF FreshTime
<1>1. PICK N \in Nat, w \in Nat : N = NumBuckets /\ w = BucketWidth /\ N > 0 /\ N \in 1..N
  BY WindowAssumption
<1>2. log \in Seq(Entries) /\ DOMAIN log = {} /\ Failed(DOMAIN log) = {}
  BY DEF Failed
<1>3. ASSUME NEW i \in 1..N
      PROVE  /\ buckets[i] \in BucketRecords /\ buckets[i].start = now + (i - N) * w
             /\ buckets[i].requests = 0 /\ buckets[i].failures = 0
  <2>1. PICK a \in Int : a = now - (N - i) * w /\ a = now + (i - N) * w
    <3>1. (N - i) * w \in Int /\ (i - N) * w \in Int /\ (i - N) * w = 0 - (N - i) * w
      BY <1>1
    <3> QED
      BY <3>1
  <2>2. buckets[i] = [start |-> a, failures |-> 0, requests |-> 0]
    BY <1>1, <2>1, Zenon DEF FreshBuckets
  <2> QED
    BY <2>1, <2>2 DEF BucketRecords
<1>4. buckets \in [1..N -> BucketRecords]
  <2>1. buckets = [i \in 1..N |-> buckets[i]]
    BY <1>1, Zenon DEF FreshBuckets
  <2> QED
    BY <1>3, <2>1, Zenon
<1>5. buckets[N].start = now
  <2>1. buckets[N].start = now + (N - N) * w /\ N - N = 0 /\ 0 * w = 0
    BY <1>1, <1>3
  <2> QED
    BY <2>1
<1>6. Layout(Starts(buckets))
  <2>1. \A i \in 1..N : Starts(buckets)[i] = now + (i - N) * w /\ Starts(buckets)[i] \in Int
    BY <1>1, <1>3, Zenon DEF Starts, BucketRecords
  <2>2. Starts(buckets)[N] = now
    BY <1>1, <1>5, Zenon DEF Starts
  <2>3. Starts(buckets) \in [1..N -> Int]
    BY <1>1, <2>1, Zenon DEF Starts
  <2> QED
    BY <1>1, <2>1, <2>2, <2>3, Zenon DEF Layout
<1>7. IsFiniteSet({}) /\ Cardinality({}) = 0 /\ \A at, a, b : Within({}, at, a, b) = {}
  BY FS_EmptySet, Zenon DEF Within
<1>8. \A at : CountsOk(Starts(buckets), RequestCounts(buckets), 0, {}, at) /\ CountsOk(Starts(buckets), FailureCounts(buckets), 0, {}, at)
  BY <1>1, <1>3, <1>7, ZenonT(60) DEF CountsOk, RequestCounts, FailureCounts
<1>9. WindowOk(buckets, 0, 0)
  BY <1>1, <1>2, <1>4, <1>6, <1>8, Zenon DEF WindowOk
<1> QED
  BY <1>1, <1>2, <1>5, <1>9 DEF TimeInv

\* An empty ring and an empty log.
FreshCount == log = <<>> /\ ring = EmptyRing /\ head = 0 /\ cFailures = 0 /\ cTotal = 0

\* A ring just made or reset satisfies the invariant.
LEMMA FreshRing == FreshCount => CountInv
<1> SUFFICES ASSUME FreshCount PROVE CountInv
  OBVIOUS
<1> USE DEF FreshCount
<1>1. Size \in Nat /\ Size > 0 /\ 0 \in 0..(Size - 1)
  BY WindowAssumption
<1>2. log \in Seq(Entries) /\ Len(log) = 0 /\ Failed(KeptPlaces) = {}
  BY DEF Failed, KeptPlaces
<1>3. ring \in [0..(Size - 1) -> Outcomes]
  BY Zenon DEF EmptyRing, Outcomes
<1> QED
  BY <1>1, <1>2, <1>3, FS_EmptySet DEF CountInv

\* Every operation of the two windows keeps both summaries.
LEMMA WindowsStep ==
  ASSUME CountInv, TimeInv, [Next]_vars
  PROVE  CountInv' /\ TimeInv'
<1>1. now \in Nat
  BY Zenon DEF TimeInv
<1>2. ASSUME UNCHANGED <<countWin, log>> PROVE CountInv'
  BY <1>2, Zenon DEF CountInv, countWin, Back, KeptPlaces, Failed
<1>3. ASSUME UNCHANGED <<timeWin, log>>, now' \in Nat, now <= now' PROVE TimeInv'
  <2>1. WindowOk(buckets, tFailures, tRequests)'
    BY <1>3, Zenon DEF TimeInv, WindowOk, timeWin, Times, Failed
  <2>2. buckets'[NumBuckets].start <= now'
    <3>1. NumBuckets \in 1..NumBuckets
      BY WindowAssumption
    <3>2. buckets[NumBuckets].start \in Int /\ buckets[NumBuckets].start <= now
      BY <3>1, Zenon DEF TimeInv, WindowOk, BucketRecords
    <3> QED
      BY <1>1, <1>3, <3>2 DEF timeWin
  <2> QED
    BY <1>3, <2>1, <2>2, Zenon DEF TimeInv
<1>4. ASSUME NEW o \in Outcomes, Record(o) PROVE CountInv' /\ TimeInv'
  BY <1>1, <1>4, CountRecordStep, TimeRecordStep, Zenon DEF Record
<1>5. CASE Counts
  BY <1>2, <1>5, TimeCountsStep, Zenon DEF Counts
<1>6. CASE Reset
  <2>1. CountInv'
    <3>1. FreshCount'
      BY <1>6, Zenon DEF Reset, FreshCount
    <3> QED
      BY <3>1, FreshRing, PTL
  <2>2. TimeInv'
    <3>1. FreshTime'
      BY <1>1, <1>6, Zenon DEF Reset, FreshTime
    <3> QED
      BY <3>1, FreshWindow, PTL
  <2> QED
    BY <2>1, <2>2, Zenon
<1>7. CASE Tick
  BY <1>1, <1>2, <1>3, <1>7 DEF Tick
<1>8. CASE UNCHANGED vars
  BY <1>1, <1>2, <1>3, <1>8 DEF vars
<1> QED
  BY <1>4, <1>5, <1>6, <1>7, <1>8, Zenon DEF Next

\* Both windows start as newCountWindow and newTimeWindow make them.
LEMMA WindowsStart == Init => CountInv /\ TimeInv
<1>1. Init => FreshCount /\ FreshTime
  BY DEF Init, FreshCount, FreshTime
<1> QED
  BY <1>1, FreshRing, FreshWindow, Zenon

\* countWindow's counters are those of the last Size outcomes, for every size.
THEOREM CountWindowIsExact == Spec => []CountWindowExact
<1>1. CountInv => CountWindowExact
  <2>1. SUFFICES ASSUME CountInv PROVE CountWindowExact
    OBVIOUS
  <2>2. Cardinality(KeptPlaces) = IF Len(log) < Size THEN Len(log) ELSE Size
    BY <2>1, KeptInterval, Zenon DEF CountInv
  <2>3. cTotal = Cardinality(KeptPlaces) /\ cFailures = Cardinality(Failed(KeptPlaces))
    BY <2>1, <2>2, Zenon DEF CountInv
  <2> QED
    BY <2>3, Zenon DEF CountWindowExact, KeptPlaces
<1> QED
  BY <1>1, WindowsStart, WindowsStep, PTL DEF Spec

\* timeWindow's running totals are the sums over its buckets, which are contiguous.
THEOREM TimeTotalsAreSums == Spec => []TimeTotalsMatchBuckets
<1>1. TimeInv => TimeTotalsMatchBuckets
  <2>1. SUFFICES ASSUME TimeInv PROVE TimeTotalsMatchBuckets
    OBVIOUS
  <2>2. PICK st : st = Starts(buckets) /\ Layout(st)
    BY <2>1, Zenon DEF TimeInv, WindowOk
  <2>3. tRequests = RequestsOf(buckets, 1..NumBuckets)
    <3>1. CountsOk(st, RequestCounts(buckets), tRequests, DOMAIN log, Times)
      BY <2>1, <2>2, Zenon DEF TimeInv, WindowOk
    <3> QED
      BY <2>2, <3>1, BucketsAdd, Zenon DEF RequestsOf, RequestCounts
  <2>4. tFailures = FailuresOf(buckets, 1..NumBuckets)
    <3>1. CountsOk(st, FailureCounts(buckets), tFailures, Failed(DOMAIN log), Times)
      BY <2>1, <2>2, Zenon DEF TimeInv, WindowOk
    <3> QED
      BY <2>2, <3>1, BucketsAdd, Zenon DEF FailuresOf, FailureCounts
  <2>5. ASSUME NEW i \in 1..(NumBuckets - 1) PROVE buckets[i + 1].start = buckets[i].start + BucketWidth
    <3>1. PICK j \in 1..NumBuckets : j = i + 1 /\ i = j - 1 /\ i \in 1..NumBuckets
      BY WindowAssumption
    <3>2. st[j] = st[1] + (j - 1) * BucketWidth /\ st[i] + BucketWidth = st[1] + i * BucketWidth
      BY <2>2, <3>1, FromOldest, Zenon
    <3>3. st[j] = st[i] + BucketWidth
      BY <3>1, <3>2, Zenon
    <3> QED
      BY <2>2, <3>1, <3>3, Zenon DEF Starts
  <2> QED
    BY <2>3, <2>4, <2>5, Zenon DEF TimeTotalsMatchBuckets
<1> QED
  BY <1>1, WindowsStart, WindowsStep, PTL DEF Spec

\* The members of X from time a on.
Since(X, at, a) == {x \in X : at[x] >= a}

\* What the window covers lies between two sets of log entries.
LEMMA SpanBounds ==
  ASSUME NEW X, IsFiniteSet(X), NEW at, \A x \in X : at[x] \in Int, NEW lo \in Int, NEW hi \in Int, NEW old \in Int, NEW top \in Int,
         old <= lo, hi <= old, \A x \in X : at[x] < top
  PROVE  /\ Cardinality(Since(X, at, lo)) <= Cardinality(Within(X, at, old, top))
         /\ Cardinality(Within(X, at, old, top)) <= Cardinality(Since(X, at, hi))
<1>1. Within(X, at, old, top) \in SUBSET Since(X, at, hi) /\ Since(X, at, lo) \in SUBSET Within(X, at, old, top)
  BY DEF Within, Since
<1>2. IsFiniteSet(Since(X, at, hi)) /\ IsFiniteSet(Within(X, at, old, top))
  <2>1. Since(X, at, hi) \in SUBSET X /\ Within(X, at, old, top) \in SUBSET X
    BY Zenon DEF Within, Since
  <2> QED
    BY <2>1, FS_Subset, Zenon
<1> QED
  BY <1>1, <1>2, FS_Subset, Zenon

\* counts() covers the window's duration to within the bucket that is filling
\* (metrics.go:171), for every number and width of buckets.
THEOREM TimeWindowCoversSpan == Spec => []TimeWindowSpan
<1>1. TimeInv => TimeWindowSpan
  <2>1. SUFFICES ASSUME TimeInv PROVE TimeWindowSpan
    OBVIOUS
  <2>2. PICK bs : bs = Slid(buckets, now) /\ WindowOk(bs, SlidFailures, SlidRequests)
                  /\ bs[NumBuckets].start <= now /\ now < bs[NumBuckets].start + BucketWidth
    BY <2>1, SlideStep, Zenon
  <2>3. PICK N \in Nat, w \in Nat, t \in Nat : N = NumBuckets /\ w = BucketWidth /\ t = now /\ N > 0
    BY <2>1, WindowAssumption DEF TimeInv
  <2>4. PICK st : st = Starts(bs) /\ Layout(st) /\ st[N] <= t /\ t < st[N] + w
    BY <2>2, <2>3 DEF WindowOk, Starts
  <2>5. PICK old \in Int, z \in Int, Nw \in Nat : old = st[1] /\ z = st[N] /\ Nw = N * w /\ z + w = old + Nw
    <3>1. st[1] \in Int /\ st[N] \in Int /\ st[N] + w = st[1] + N * w /\ N * w \in Nat
      BY <2>3, <2>4, FromOldest
    <3> QED
      BY <3>1, Zenon
  <2>6. PICK lo \in Int, hi \in Int, top \in Int : lo = t - Nw + w /\ hi = t - Nw + 1 /\ top = z + w /\ old <= lo /\ hi <= old
    BY <2>3, <2>4, <2>5
  <2>7. log \in Seq(Entries) /\ \A i \in DOMAIN log : log[i].at \in Nat /\ Times[i] = log[i].at
    <3>1. log \in Seq(Entries)
      BY <2>1, Zenon DEF TimeInv
    <3>2. ASSUME NEW i \in DOMAIN log PROVE log[i].at \in Nat /\ Times[i] = log[i].at
      <4>1. log[i] \in Entries
        BY <3>1
      <4> QED
        BY <4>1, Zenon DEF Entries, Times
    <3> QED
      BY <3>1, <3>2, Zenon
  <2>8. /\ Younger(Nw - w + 1) = Since(DOMAIN log, Times, lo)
        /\ Younger(Nw) = Since(DOMAIN log, Times, hi)
    BY <2>3, <2>6, <2>7 DEF Younger, Since
  <2>9. /\ Failed(Younger(Nw - w + 1)) = Since(Failed(DOMAIN log), Times, lo)
        /\ Failed(Younger(Nw)) = Since(Failed(DOMAIN log), Times, hi)
    BY <2>8, Zenon DEF Failed, Since
  <2>10. ASSUME NEW X, NEW g, NEW total, CountsOk(st, g, total, X, Times)
         PROVE  Cardinality(Since(X, Times, lo)) <= total /\ total <= Cardinality(Since(X, Times, hi))
    <3>1. PICK at : at = Times
      BY Zenon
    <3>2. IsFiniteSet(X) /\ (\A x \in X : at[x] \in Int) /\ (\A x \in X : at[x] < top) /\ total = Cardinality(Within(X, at, old, top))
      BY <2>3, <2>5, <2>6, <2>10, <3>1, Zenon DEF CountsOk
    <3>3. /\ Cardinality(Since(X, at, lo)) <= Cardinality(Within(X, at, old, top))
          /\ Cardinality(Within(X, at, old, top)) <= Cardinality(Since(X, at, hi))
      BY <2>6, <3>2, SpanBounds, Zenon
    <3> QED
      BY <3>1, <3>2, <3>3, Zenon
  <2>11. /\ CountsOk(st, RequestCounts(bs), SlidRequests, DOMAIN log, Times)
         /\ CountsOk(st, FailureCounts(bs), SlidFailures, Failed(DOMAIN log), Times)
    BY <2>2, <2>4, Zenon DEF WindowOk
  <2>12. /\ Cardinality(Younger(Nw - w + 1)) <= SlidRequests /\ SlidRequests <= Cardinality(Younger(Nw))
         /\ Cardinality(Failed(Younger(Nw - w + 1))) <= SlidFailures /\ SlidFailures <= Cardinality(Failed(Younger(Nw)))
    BY <2>8, <2>9, <2>10, <2>11, Zenon
  <2> QED
    BY <2>3, <2>5, <2>12, Zenon DEF TimeWindowSpan
<1> QED
  BY <1>1, WindowsStart, WindowsStep, PTL DEF Spec

-----------------------------------------------------------------------------
(* Retries: the budget                                                      *)

BudgetFull == BudgetBurst * UnitsPerToken
MaxRate == IF ArrivalRate > MinRate THEN ArrivalRate ELSE MinRate

BudgetFields == {"tokens", "rate", "haveReq", "lastReq", "lastFill"}
BudgetType(b) ==
  /\ DOMAIN b = BudgetFields /\ b.tokens \in 0..BudgetFull /\ b.rate \in 0..ArrivalRate
  /\ b.lastReq \in Nat /\ b.lastReq <= retryNow /\ b.lastFill \in Nat /\ b.lastFill <= retryNow

LogType == retryLog \in Seq([at : Nat, cost : Int])

Costs == [k \in DOMAIN retryLog |-> retryLog[k].cost]

\* What was spent since an entry and what is left came from a full bucket and
\* the refill since.
Earned ==
  \A i \in 1..Len(retryLog) :
    Spent(i, Len(retryLog)) + budget.tokens <= BudgetFull + (budget.lastFill - retryLog[i].at) * MaxRate

BudgetInv == retryNow \in Nat /\ BudgetType(budget) /\ LogType /\ Earned /\ RetriesWithinBudget

\* The bucket's size and the greatest rate are naturals.
LEMMA BudgetNats == BudgetFull \in Nat /\ MaxRate \in Nat /\ MinRate <= MaxRate /\ ArrivalRate <= MaxRate
<1>1. BudgetFull \in Nat
  BY RetryAssumption DEF BudgetFull
<1> QED
  BY <1>1, RetryAssumption DEF MaxRate

\* The refill brings no more than the greatest rate over the time since the
\* last one (refillLocked).
LEMMA RefillBounds ==
  ASSUME retryNow \in Nat, BudgetType(budget)
  PROVE  /\ BudgetType(Refill(budget)) /\ Refill(budget).lastFill = retryNow
         /\ Refill(budget).tokens <= budget.tokens + (retryNow - budget.lastFill) * MaxRate
<1>1. PICK t \in Nat, l \in Nat, clock \in Nat, m \in Nat :
        t = budget.tokens /\ t <= BudgetFull /\ l = budget.lastFill /\ clock = retryNow /\ l <= clock /\ m = MaxRate
  BY BudgetNats DEF BudgetType
<1>2. PICK r \in Nat : r = RefillRate(budget) /\ r <= m
  BY <1>1, BudgetNats, RetryAssumption DEF BudgetType, RefillRate
<1>3. PICK e \in Nat : e = clock - l
  BY <1>1
<1>4. PICK g \in Nat, h \in Nat : g = e * r /\ h = e * m /\ g <= h
  BY <1>2, <1>3, <1>1
<1>5. CASE clock <= l
  <2>1. Refill(budget) = budget /\ l = clock
    BY <1>1, <1>5 DEF Refill
  <2>2. (retryNow - budget.lastFill) * MaxRate = h
    BY <1>1, <1>3, <1>4, ZenonT(60)
  <2> QED
    BY <1>1, <1>4, <2>1, <2>2
<1>6. CASE clock > l
  <2>1. PICK n \in 0..BudgetFull : n = AtMost(t + g, BudgetFull) /\ n <= t + g
    BY <1>1, <1>4, BudgetNats DEF AtMost
  <2>2. PICK b : b = [budget EXCEPT !.lastFill = clock, !.tokens = n]
    BY Zenon
  <2>3. Refill(budget) = b
    <3>1. (retryNow - budget.lastFill) * RefillRate(budget) = g
      BY <1>1, <1>2, <1>3, <1>4, Zenon
    <3>2. ~(retryNow <= budget.lastFill)
      BY <1>1, <1>6
    <3>3. AtMost(budget.tokens + (retryNow - budget.lastFill) * RefillRate(budget), BudgetBurst * UnitsPerToken) = n
      BY <1>1, <2>1, <3>1, Zenon DEF BudgetFull
    <3> QED
      BY <1>1, <2>2, <3>2, <3>3, Zenon DEF Refill
  <2>4. BudgetType(b) /\ b.lastFill = clock /\ b.tokens = n
    BY <1>1, <2>1, <2>2 DEF BudgetType, BudgetFields
  <2>5. (retryNow - budget.lastFill) * MaxRate = h
    BY <1>1, <1>3, <1>4, Zenon
  <2> QED
    BY <1>1, <1>4, <2>1, <2>3, <2>4, <2>5
<1> QED
  BY <1>1, <1>5, <1>6

\* What an entry adds to the sums.
LEMMA EntryAdded ==
  ASSUME LogType, NEW n \in Nat, n = Len(retryLog), NEW t \in Nat, NEW x \in Int,
         retryLog' = Append(retryLog, [at |-> t, cost |-> x])
  PROVE  /\ LogType' /\ Len(retryLog') = n + 1
         /\ \A i \in 1..n : retryLog'[i] = retryLog[i] /\ retryLog[i].at \in Nat
         /\ retryLog'[n + 1].at = t
         /\ \A i, j \in 1..n : Spent(i, j) \in Int /\ Spent(i, j)' = Spent(i, j)
         /\ \A i \in 1..n : Spent(i, n + 1)' = Spent(i, n) + x
         /\ Spent(n + 1, n + 1)' = x
<1>1. DOMAIN retryLog = 1..n
  BY DEF LogType
<1>2. PICK r \in [at : Nat, cost : Int] : r = [at |-> t, cost |-> x]
  BY Zenon
<1>3. /\ retryLog' \in Seq([at : Nat, cost : Int]) /\ Len(retryLog') = n + 1 /\ DOMAIN retryLog' = 1..(n + 1)
      /\ retryLog'[n + 1] = r /\ \A i \in 1..n : retryLog'[i] = retryLog[i]
  BY <1>1, <1>2 DEF LogType
<1>4. \A i \in 1..n : retryLog[i].at \in Nat /\ retryLog[i].cost \in Int
  <2>1. PICK R : R = [at : Nat, cost : Int]
    BY Zenon
  <2>2. retryLog \in Seq(R)
    BY <2>1, Zenon DEF LogType
  <2>3. \A i \in 1..n : retryLog[i] \in R
    BY <2>2
  <2> QED
    BY <2>1, <2>3, Zenon
<1>5. PICK f, g : f = Costs /\ g = Costs'
  BY Zenon
<1>6. (\A k \in 1..n : f[k] \in Int /\ g[k] = f[k]) /\ g[n + 1] = x
  <2>1. \A k \in 1..n : f[k] = retryLog[k].cost
    BY <1>1, <1>5, Zenon DEF Costs
  <2>2. \A k \in 1..(n + 1) : g[k] = retryLog'[k].cost
    BY <1>3, <1>5, Zenon DEF Costs
  <2>3. r.cost = x
    BY <1>2, Zenon
  <2>4. n + 1 \in 1..(n + 1) /\ \A k \in 1..n : k \in 1..(n + 1)
    OBVIOUS
  <2>5. g[n + 1] = x
    BY <1>3, <2>2, <2>3, <2>4, Zenon
  <2>6. ASSUME NEW k \in 1..n PROVE g[k] = f[k]
    <3>1. g[k] = retryLog'[k].cost
      BY <2>2, <2>4, Zenon
    <3>2. retryLog'[k] = retryLog[k]
      BY <1>3, Zenon
    <3> QED
      BY <2>1, <3>1, <3>2, Zenon
  <2> QED
    BY <1>4, <2>1, <2>5, <2>6, Zenon
<1>7. \A i, j : Spent(i, j) = SumFunctionOnSet(f, i..j) /\ Spent(i, j)' = SumFunctionOnSet(g, i..j)
  BY <1>5, Zenon DEF Spent, Costs
<1>8. ASSUME NEW i \in 1..n, NEW j \in 1..n
      PROVE  SumFunctionOnSet(f, i..j) \in Int /\ SumFunctionOnSet(g, i..j) = SumFunctionOnSet(f, i..j)
  <2>0. \A k \in i..j : k \in 1..n
    OBVIOUS
  <2>1. \A k \in i..j : f[k] \in Int /\ g[k] = f[k]
    BY <1>6, <2>0, Zenon
  <2>2. i \in Int /\ j \in Int
    OBVIOUS
  <2> QED
    BY <2>1, <2>2, SumInterval, SumSame
<1>9. ASSUME NEW i \in 1..(n + 1)
      PROVE  SumFunctionOnSet(g, i..(n + 1)) = SumFunctionOnSet(g, i..n) + x
  <2>0. (\A k \in i..(n + 1) : k \in 1..n \/ k = n + 1) /\ i \in Int /\ n + 1 \in Int /\ i <= n + 1 /\ n + 1 - 1 = n
    OBVIOUS
  <2>1. (\A k \in i..(n + 1) : g[k] \in Int) /\ i \in Int /\ n + 1 \in Int /\ i <= n + 1 /\ n + 1 - 1 = n
    BY <1>6, <2>0, Zenon
  <2>2. SumFunctionOnSet(g, i..(n + 1)) = SumFunctionOnSet(g, i..(n + 1 - 1)) + g[n + 1]
    BY <2>1, SumInterval
  <2> QED
    BY <1>6, <2>1, <2>2, ZenonT(60)
<1>10. SumFunctionOnSet(g, (n + 1)..n) = 0
  <2>1. (\A k \in (n + 1)..n : g[k] \in Int) /\ n + 1 \in Int /\ n \in Int /\ n + 1 > n
    OBVIOUS
  <2> QED
    BY <2>1, SumInterval
<1>11. \A i \in 1..n : SumFunctionOnSet(g, i..(n + 1)) = SumFunctionOnSet(f, i..n) + x
  BY <1>8, <1>9
<1>12. SumFunctionOnSet(g, (n + 1)..(n + 1)) = x
  <2>1. n + 1 \in 1..(n + 1)
    OBVIOUS
  <2>2. SumFunctionOnSet(g, (n + 1)..(n + 1)) = SumFunctionOnSet(g, (n + 1)..n) + x
    BY <1>9, <2>1, ZenonT(60)
  <2> QED
    BY <1>10, <2>2
<1>13. LogType' /\ retryLog'[n + 1].at = t
  BY <1>2, <1>3 DEF LogType
<1> QED
  BY <1>3, <1>4, <1>7, <1>8, <1>11, <1>12, <1>13, Zenon

\* The sums of a log are numbers.
LEMMA SpentType ==
  ASSUME LogType, NEW n \in Nat, n = Len(retryLog), NEW i \in 1..n, NEW j \in 1..n
  PROVE  Spent(i, j) \in Int /\ retryLog[i].at \in Nat
<1>1. PICK R : R = [at : Nat, cost : Int]
  BY Zenon
<1>2. retryLog \in Seq(R) /\ DOMAIN retryLog = 1..n
  BY <1>1 DEF LogType
<1>3. \A k \in 1..n : retryLog[k] \in R
  BY <1>2
<1>4. PICK f : f = Costs
  BY Zenon
<1>5. \A k \in i..j : f[k] \in Int
  BY <1>1, <1>2, <1>3, <1>4 DEF Costs
<1>6. i \in Int /\ j \in Int
  OBVIOUS
<1>7. SumFunctionOnSet(f, i..j) \in Int
  BY <1>5, <1>6, SumInterval, Zenon
<1> QED
  BY <1>1, <1>3, <1>4, <1>7, Zenon DEF Spent, Costs

\* Time that passes earns the greatest rate at most.
LEMMA EarnedSince ==
  ASSUME NEW m \in Nat, NEW a \in Int, NEW l \in Int, NEW clock \in Int
  PROVE  (clock - a) * m = (l - a) * m + (clock - l) * m
OBVIOUS

Enters(x) ==
  /\ retryLog' = Append(retryLog, [at |-> retryNow, cost |-> x])
  /\ budget'.lastFill = retryNow /\ budget'.tokens + x <= Refill(budget).tokens

\* A retry is paid for, or tokens are deposited: an entry of the log (CanRetry, Deposit).
LEMMA EntryStep ==
  ASSUME BudgetInv, retryNow' = retryNow, NEW x \in Int,
         BudgetType(budget)', Enters(x)
  PROVE  BudgetInv'
<1>1. PICK n \in Nat, clock \in Nat, m \in Nat, f \in Nat :
        n = Len(retryLog) /\ clock = retryNow /\ m = MaxRate /\ f = BudgetFull
  BY BudgetNats DEF BudgetInv, LogType
<1>2. PICK t0 \in Nat, l \in Nat, t1 \in Nat, t2 \in Nat :
        /\ t0 = budget.tokens /\ l = budget.lastFill /\ t1 = Refill(budget).tokens /\ t2 = budget'.tokens
        /\ t1 <= f /\ t2 + x <= t1
  <2>1. BudgetType(Refill(budget))
    BY RefillBounds, Zenon DEF BudgetInv
  <2>2. budget.tokens \in Nat /\ budget.lastFill \in Nat /\ Refill(budget).tokens \in 0..f /\ budget'.tokens \in Nat
    BY <1>1, <2>1 DEF BudgetInv, BudgetType, BudgetFull
  <2>3. Refill(budget).tokens \in Nat /\ Refill(budget).tokens <= f
    BY <1>1, <2>2
  <2> QED
    BY <2>2, <2>3, Zenon DEF Enters
<1>3. PICK h \in Int : h = (clock - l) * m /\ t1 <= t0 + h
  <2>1. Refill(budget).tokens <= budget.tokens + (retryNow - budget.lastFill) * MaxRate
    BY RefillBounds, Zenon DEF BudgetInv
  <2> QED
    BY <1>1, <1>2, <2>1
<1>4. /\ LogType' /\ Len(retryLog') = n + 1
      /\ \A i \in 1..n : retryLog'[i] = retryLog[i] /\ retryLog[i].at \in Nat
      /\ retryLog'[n + 1].at = clock
      /\ \A i, j \in 1..n : Spent(i, j) \in Int /\ Spent(i, j)' = Spent(i, j)
      /\ \A i \in 1..n : Spent(i, n + 1)' = Spent(i, n) + x
      /\ Spent(n + 1, n + 1)' = x
  <2>1. LogType /\ n = Len(retryLog) /\ retryLog' = Append(retryLog, [at |-> clock, cost |-> x])
    BY <1>1, Zenon DEF BudgetInv, Enters
  <2> QED
    BY <2>1, EntryAdded, ZenonT(60)
<1>5. ASSUME NEW i \in 1..n
      PROVE  /\ Spent(i, n + 1)' \in Int /\ (clock - retryLog[i].at) * m \in Int
             /\ Spent(i, n + 1)' + t2 <= f + (clock - retryLog[i].at) * m
  <2>1. PICK a \in Nat, s \in Int : a = retryLog[i].at /\ s = Spent(i, n)
    <3>1. n \in 1..n
      BY <1>1, <1>5
    <3> QED
      BY <1>4, <3>1, Zenon
  <2>2. PICK p \in Int, q \in Int : p = (l - a) * m /\ q = (clock - a) * m
    OBVIOUS
  <2>3. q = p + h
    BY <1>3, <2>2, EarnedSince
  <2>4. s + t0 <= f + p
    BY <1>1, <1>2, <2>1, <2>2, Zenon DEF BudgetInv, Earned
  <2>5. s + x + t2 <= f + q
    BY <1>2, <1>3, <2>3, <2>4
  <2>6. Spent(i, n + 1)' = s + x
    BY <1>4, <2>1, Zenon
  <2> QED
    BY <2>1, <2>2, <2>5, <2>6
<1>6. x + t2 <= f /\ x <= f
  BY <1>1, <1>2
<1>7. Earned'
  <2>1. ASSUME NEW i \in 1..(n + 1)
        PROVE  Spent(i, n + 1)' + t2 <= f + (clock - retryLog'[i].at) * m
    <3>1. CASE i \in 1..n
      BY <1>4, <1>5, <3>1, Zenon
    <3>2. CASE i = n + 1
      <4>1. (clock - retryLog'[i].at) * m = 0
        BY <1>1, <1>4, <3>2
      <4>2. Spent(i, n + 1)' = x
        BY <1>4, <3>2, Zenon
      <4> QED
        BY <1>1, <1>6, <4>1, <4>2
    <3> QED
      BY <1>1, <3>1, <3>2
  <2> QED
    BY <1>1, <1>2, <1>4, <2>1, ZenonT(60) DEF Earned, Enters
<1>8. RetriesWithinBudget'
  <2> DEFINE Afforded(i, j) == Spent(i, j) <= BudgetFull + (retryLog[j].at - retryLog[i].at) * MaxRate
  <2>1. ASSUME NEW i \in 1..(n + 1), NEW j \in 1..(n + 1), i <= j PROVE Afforded(i, j)'
    <3>1. CASE j \in 1..n
      <4>1. i \in 1..n /\ i \in DOMAIN retryLog /\ j \in DOMAIN retryLog
        BY <1>1, <2>1, <3>1 DEF BudgetInv, LogType
      <4>2. Afforded(i, j)
        BY <2>1, <4>1, Zenon DEF BudgetInv, RetriesWithinBudget, BudgetFull, MaxRate
      <4> QED
        BY <1>4, <3>1, <4>1, <4>2, Zenon
    <3>2. CASE j = n + 1 /\ i \in 1..n
      <4>1. PICK s \in Int, q \in Int : s = Spent(i, j)' /\ q = (clock - retryLog[i].at) * m /\ s + t2 <= f + q
        BY <1>5, <3>2, Zenon
      <4>2. s <= f + q
        BY <4>1
      <4>3. retryLog'[j].at = clock /\ retryLog'[i].at = retryLog[i].at
        BY <1>4, <3>2, Zenon
      <4> QED
        BY <1>1, <4>1, <4>2, <4>3, Zenon
    <3>3. CASE j = n + 1 /\ i = n + 1
      <4>1. (retryLog'[j].at - retryLog'[i].at) * m = 0
        BY <1>1, <1>4, <3>3
      <4>2. Spent(i, j)' = x /\ x <= f
        BY <1>4, <1>6, <3>3, ZenonT(60)
      <4> QED
        BY <1>1, <4>1, <4>2
    <3> QED
      BY <1>1, <2>1, <3>1, <3>2, <3>3
  <2>2. DOMAIN retryLog' = 1..(n + 1)
    BY <1>4 DEF LogType
  <2> QED
    BY <2>1, <2>2, ZenonT(60) DEF RetriesWithinBudget, BudgetFull, MaxRate
<1> QED
  BY <1>1, <1>4, <1>7, <1>8, Zenon DEF BudgetInv

\* The bucket is refilled, or left alone, and nothing is paid (RecordAttempt, a refusal).
LEMMA QuietStep ==
  ASSUME BudgetInv, retryNow' = retryNow, retryLog' = retryLog, BudgetType(budget)',
         \/ budget'.tokens = budget.tokens /\ budget'.lastFill = budget.lastFill
         \/ budget'.tokens = Refill(budget).tokens /\ budget'.lastFill = retryNow
  PROVE  BudgetInv'
<1>1. LogType' /\ RetriesWithinBudget' /\ \A i, j : Spent(i, j)' = Spent(i, j)
  BY ZenonT(60) DEF BudgetInv, LogType, RetriesWithinBudget, Spent
<1>2. CASE budget'.tokens = budget.tokens /\ budget'.lastFill = budget.lastFill
  BY <1>1, <1>2, Zenon DEF BudgetInv, Earned
<1>3. CASE budget'.tokens = Refill(budget).tokens /\ budget'.lastFill = retryNow
  <2>1. PICK n \in Nat, clock \in Nat, m \in Nat, f \in Nat :
          n = Len(retryLog) /\ clock = retryNow /\ m = MaxRate /\ f = BudgetFull
    BY BudgetNats DEF BudgetInv, LogType
  <2>2. PICK t0 \in Nat, l \in Nat, t1 \in Nat :
          t0 = budget.tokens /\ l = budget.lastFill /\ t1 = budget'.tokens /\ t1 <= t0 + (clock - l) * m
    <3>1. BudgetType(Refill(budget)) /\ Refill(budget).tokens <= budget.tokens + (retryNow - budget.lastFill) * MaxRate
      BY RefillBounds, Zenon DEF BudgetInv
    <3>2. budget.tokens \in Nat /\ budget.lastFill \in Nat /\ budget'.tokens \in Nat
      BY <3>1 DEF BudgetInv, BudgetType
    <3> QED
      BY <1>3, <2>1, <3>1, <3>2, Zenon
  <2>3. ASSUME NEW i \in 1..n
        PROVE  Spent(i, n) + t1 <= f + (clock - retryLog[i].at) * m
    <3>1. PICK a \in Nat, s \in Int : a = retryLog[i].at /\ s = Spent(i, n)
      BY <2>1, <2>3, SpentType DEF BudgetInv
    <3>2. PICK p \in Int, h \in Int, q \in Int : p = (l - a) * m /\ h = (clock - l) * m /\ q = (clock - a) * m
      OBVIOUS
    <3>3. q = p + h
      BY <3>2, EarnedSince
    <3>4. s + t0 <= f + p
      BY <2>1, <2>2, <3>1, <3>2, Zenon DEF BudgetInv, Earned
    <3>5. t1 <= t0 + h
      BY <2>2, <3>2, Zenon
    <3>6. s + t1 <= f + q
      BY <3>3, <3>4, <3>5
    <3> QED
      BY <3>1, <3>2, <3>6, Zenon
  <2>4. Earned'
    BY <1>1, <1>3, <2>1, <2>2, <2>3, Zenon DEF Earned
  <2> QED
    BY <1>1, <2>4, Zenon DEF BudgetInv
<1> QED
  BY <1>2, <1>3, Zenon

\* A call arrives: the estimate of the rate stays below that of one a tick (RecordAttempt).
LEMMA ArrivalStep ==
  ASSUME BudgetInv, RecordAttempt, retryNow' = retryNow, retryLog' = retryLog PROVE BudgetInv'
<1>1. PICK b : b = Refill(budget) /\ BudgetType(b) /\ b.lastFill = retryNow
  BY RefillBounds, ZenonT(60) DEF BudgetInv
<1>2. PICK clock \in Nat, rate \in Nat, top \in Nat :
        clock = retryNow /\ rate = b.rate /\ top = ArrivalRate /\ rate <= top
  BY <1>1, RetryAssumption DEF BudgetInv, BudgetType
<1>3. PICK seen : seen = [b EXCEPT !.haveReq = TRUE, !.lastReq = retryNow]
  BY Zenon
<1>4. /\ DOMAIN seen = BudgetFields /\ seen.tokens = b.tokens /\ seen.rate = b.rate
      /\ seen.lastReq = clock /\ seen.lastFill = b.lastFill
  BY <1>1, <1>2, <1>3, Zenon DEF BudgetType, BudgetFields
<1>5. PICK r \in 0..top : budget' = seen \/ budget' = [seen EXCEPT !.rate = r]
  <2>1. CASE ~b.haveReq \/ retryNow - b.lastReq <= 0
    <3>1. budget' = seen
      BY <1>1, <1>3, <2>1, Zenon DEF RecordAttempt
    <3> QED
      BY <1>2, <3>1
  <2>2. CASE ~(~b.haveReq \/ retryNow - b.lastReq <= 0)
    <3>1. PICK inst \in Nat : inst = ArrivalRate \div (retryNow - b.lastReq) /\ inst <= top
      <4>1. PICK dt \in Nat : dt = retryNow - b.lastReq /\ dt > 0
        BY <1>1, <1>2, <2>2 DEF BudgetType
      <4>2. PICK k \in Nat : k = top \div dt /\ k <= top
        BY <4>1
      <4> QED
        BY <1>2, <4>1, <4>2, Zenon
    <3>2. PICK r \in AtMost(rate, inst)..(rate + inst - AtMost(rate, inst)) : budget' = [seen EXCEPT !.rate = r]
      BY <1>1, <1>2, <1>3, <2>2, <3>1, Zenon DEF RecordAttempt
    <3>3. r \in 0..top
      BY <1>2, <3>1 DEF AtMost
    <3> QED
      BY <3>2, <3>3, Zenon
  <2> QED
    BY <2>1, <2>2, Zenon
<1>6. /\ DOMAIN budget' = BudgetFields /\ budget'.tokens = b.tokens /\ budget'.rate \in {rate, r}
      /\ budget'.lastReq = clock /\ budget'.lastFill = clock
  BY <1>1, <1>2, <1>4, <1>5, Zenon DEF BudgetFields
<1>7. BudgetType(budget)'
  BY <1>1, <1>2, <1>5, <1>6, Zenon DEF BudgetType, BudgetFull
<1> QED
  BY <1>1, <1>2, <1>6, <1>7, QuietStep, ZenonT(60)

\* Tokens are deposited (Deposit).
LEMMA DepositStep == ASSUME BudgetInv, Deposit(1) PROVE BudgetInv'
<1>1. PICK b : b = Refill(budget) /\ BudgetType(b) /\ b.lastFill = retryNow
  BY RefillBounds, Zenon DEF BudgetInv
<1>2. PICK t \in Nat, f \in Nat : t = b.tokens /\ f = BudgetFull /\ t <= f
  BY <1>1, BudgetNats DEF BudgetType
<1>3. PICK u \in Nat : u = AtMost(t + 1, f) /\ u <= f /\ u + (-1) <= t
  BY <1>2 DEF AtMost
<1>4. budget' = [b EXCEPT !.tokens = u]
  BY <1>1, <1>2, <1>3, Zenon DEF Deposit, BudgetFull
<1>5. BudgetType(budget)' /\ budget'.lastFill = retryNow /\ budget'.tokens = u /\ retryNow' = retryNow
  <2>1. retryNow' = retryNow
    BY Zenon DEF Deposit
  <2> QED
    BY <1>1, <1>2, <1>3, <1>4, <2>1 DEF BudgetType, BudgetFields, BudgetFull
<1>6. PICK x \in Int : x = 0 - 1 /\ u + x <= t
  BY <1>2, <1>3
<1>7. retryLog' = Append(retryLog, [at |-> retryNow, cost |-> x])
  BY <1>6, Zenon DEF Deposit
<1> QED
  BY <1>1, <1>2, <1>5, <1>6, <1>7, EntryStep, Zenon DEF Enters

\* A call at the head of its loop pays for a retry, or ends (CanRetry).
LEMMA PayStep == ASSUME BudgetInv, NEW c \in RetryCalls, TryAttempt(c) PROVE BudgetInv'
<1>1. PICK b : b = Refill(budget) /\ BudgetType(b) /\ b.lastFill = retryNow
  BY RefillBounds, Zenon DEF BudgetInv
<1>2. retryNow' = retryNow /\ retryNow \in Nat
  BY Zenon DEF TryAttempt, BudgetInv
<1>3. CASE UNCHANGED <<budget, retryLog>>
  <2>1. BudgetType(budget)'
    BY <1>2, <1>3, Zenon DEF BudgetInv, BudgetType, BudgetFull
  <2> QED
    BY <1>2, <1>3, <2>1, QuietStep, Zenon
<1>4. CASE budget' = b /\ UNCHANGED retryLog
  <2>1. BudgetType(budget)'
    BY <1>1, <1>2, <1>4, Zenon DEF BudgetType, BudgetFull
  <2> QED
    BY <1>1, <1>2, <1>4, <2>1, QuietStep, Zenon
<1>5. CASE /\ Affordable(b) /\ budget' = [b EXCEPT !.tokens = @ - UnitsPerToken]
           /\ retryLog' = Append(retryLog, [at |-> retryNow, cost |-> UnitsPerToken])
  <2>1. PICK t \in Nat, u \in Nat : t = b.tokens /\ u = t - UnitsPerToken /\ u <= BudgetFull
    <3>1. b.tokens \in 0..BudgetFull /\ b.tokens >= UnitsPerToken
      BY <1>1, <1>5, Zenon DEF BudgetType, Affordable
    <3> QED
      BY <3>1, BudgetNats, RetryAssumption
  <2>2. budget' = [b EXCEPT !.tokens = u]
    BY <1>5, <2>1, Zenon
  <2>3. BudgetType(budget)' /\ budget'.lastFill = retryNow /\ budget'.tokens = u
    BY <1>1, <1>2, <2>1, <2>2 DEF BudgetType, BudgetFields, BudgetFull
  <2>4. u + UnitsPerToken <= t /\ UnitsPerToken \in Int
    BY <2>1, RetryAssumption
  <2> QED
    BY <1>1, <1>2, <1>5, <2>1, <2>3, <2>4, EntryStep, Zenon DEF Enters
<1> QED
  BY <1>1, <1>3, <1>4, <1>5, Zenon DEF TryAttempt

(***************************************************************************)
(* The budget holds off a retry storm, for every number of calls, attempts *)
(* and strategies and every size and rate of the budget: over any stretch  *)
(* of time the retries cost no more than a full bucket, what was deposited *)
(* and the greatest refill (budget.go refillLocked, CanRetry, Deposit).    *)
(***************************************************************************)
THEOREM BudgetHoldsRetries == RetrySpec => []RetriesWithinBudget
<1>1. RetryInit => BudgetInv
  <2> SUFFICES ASSUME RetryInit PROVE BudgetInv
    BY Zenon
  <2>1. /\ retryNow = 0 /\ retryLog = <<>>
        /\ budget = [tokens |-> BudgetFull, rate |-> 0, haveReq |-> FALSE, lastReq |-> 0, lastFill |-> 0]
    BY ZenonT(60) DEF RetryInit, BudgetFull
  <2>2. BudgetType(budget)
    BY <2>1, BudgetNats, RetryAssumption DEF BudgetType, BudgetFields
  <2>3. LogType /\ Len(retryLog) = 0 /\ DOMAIN retryLog = {}
    BY <2>1 DEF LogType
  <2> QED
    BY <2>1, <2>2, <2>3 DEF BudgetInv, Earned, RetriesWithinBudget
<1>2. BudgetInv /\ [RetryNext]_retryVars => BudgetInv'
  <2> SUFFICES ASSUME BudgetInv, [RetryNext]_retryVars PROVE BudgetInv'
    BY Zenon
  <2>1. ASSUME NEW c \in RetryCalls, StartDo(c) PROVE BudgetInv'
    BY <2>1, ArrivalStep, Zenon DEF StartDo
  <2>2. CASE \/ \E c \in RetryCalls : FnEnds(c) \/ FnFails(c) \/ Wake(c) \/ CancelRetry(c)
             \/ UNCHANGED retryVars
    <3>1. UNCHANGED <<retryNow, budget, retryLog>>
      BY <2>2, Zenon DEF FnEnds, FnFails, Wake, CancelRetry, retryVars
    <3> QED
      BY <3>1, ZenonT(60) DEF BudgetInv, BudgetType, LogType, Earned, RetriesWithinBudget, Spent
  <2>3. CASE RetryTick
    <3>1. retryNow' = retryNow + 1 /\ UNCHANGED <<budget, retryLog>>
      BY <2>3, Zenon DEF RetryTick
    <3>2. retryNow' \in Nat /\ BudgetType(budget)'
      BY <3>1 DEF BudgetInv, BudgetType, BudgetFull
    <3> QED
      BY <3>1, <3>2, ZenonT(60) DEF BudgetInv, LogType, Earned, RetriesWithinBudget, Spent
  <2> QED
    BY <2>1, <2>2, <2>3, DepositStep, PayStep, Zenon DEF RetryNext
<1>3. BudgetInv => RetriesWithinBudget
  BY Zenon DEF BudgetInv
<1> QED
  BY <1>1, <1>2, <1>3, PTL DEF RetrySpec

-----------------------------------------------------------------------------
(* Retries: the deadlines of the attempts                                   *)

CallFields == {"pc", "attempt", "began", "deadline", "until", "cancelled"}

\* A call in its loop: what is left of its attempts and of its time.
InTime(me) ==
  /\ me.pc \in {"new", "try", "running", "sleeping", "over"} /\ me.attempt \in Nat /\ me.deadline \in Nat
  /\ me.pc \in {"try", "running", "sleeping"} => retryNow <= me.deadline /\ me.attempt < MaxAttempts

\* An attempt that runs: its deadline, and what that leaves for the others.
Shares(me) ==
  me.pc = "running" =>
    /\ me.began \in Nat /\ me.until \in Nat /\ me.until <= me.deadline
    /\ divide /\ me.deadline - me.began >= MaxAttempts - me.attempt =>
         me.deadline - me.until >= (MaxAttempts - me.attempt - 1) * (me.until - me.began)

DeadlineInv ==
  /\ retryNow \in Nat /\ DOMAIN attempts = RetryCalls
  /\ \A c \in RetryCalls : DOMAIN attempts[c] = CallFields /\ InTime(attempts[c]) /\ Shares(attempts[c])

\* A share of what remains leaves as much to each of the others (attempt_budget.go Slice).
LEMMA FairShare ==
  ASSUME NEW r \in Nat, NEW l \in Nat, l > 0, NEW d \in Nat, d <= r \div l
  PROVE  (l - 1) * d <= r - d
<1>1. PICK q \in Nat : q = r \div l /\ l * q <= r
  OBVIOUS
<1>2. l * d <= l * q
  BY <1>1
<1>3. (l - 1) * d = l * d - d
  OBVIOUS
<1> QED
  BY <1>1, <1>2, <1>3

\* The time that an attempt gets is not more than what remains, and not more
\* than its share, if it has one.
LEMMA DurationBounds ==
  ASSUME NEW me, me.deadline \in Nat, me.attempt \in Nat, me.attempt < MaxAttempts,
         retryNow \in Nat, retryNow < me.deadline
  PROVE  /\ AttemptDuration(me) \in Nat /\ AttemptDuration(me) <= me.deadline - retryNow
         /\ divide /\ Slice(me) > 0 => AttemptDuration(me) <= Slice(me)
<1> DEFINE D == {me.deadline - retryNow} \cup (IF divide /\ Slice(me) > 0 THEN {Slice(me)} ELSE {})
                  \cup (IF PerAttempt > 0 THEN {PerAttempt} ELSE {})
<1>1. PICK r \in Nat : r = me.deadline - retryNow
  OBVIOUS
<1>2. PICK s \in Nat : s = Slice(me)
  <2>1. PICK l \in Nat : l = MaxAttempts - me.attempt /\ l > 0
    BY RetryAssumption
  <2> QED
    BY <1>1, <2>1 DEF Slice
<1>3. PICK p \in Nat : p = PerAttempt
  BY RetryAssumption, Zenon
<1>4. D \subseteq {r, s, p} /\ r \in D /\ (divide /\ Slice(me) > 0 => s \in D)
  BY <1>1, <1>2, <1>3, Zenon
<1>5. \E x \in D : \A y \in D : x <= y
  BY <1>1, <1>2, <1>3, <1>4
<1>6. Min(D) \in D /\ \A y \in D : Min(D) <= y
  BY <1>5, Zenon DEF Min
<1> HIDE DEF D
<1> QED
  BY <1>1, <1>2, <1>4, <1>6, ZenonT(60) DEF AttemptDuration, D

\* What one call does leaves the others as they are.
LEMMA CallStep ==
  ASSUME DeadlineInv, UNCHANGED <<divide, retryNow>>, NEW c \in RetryCalls, DOMAIN attempts' = RetryCalls,
         \A d \in RetryCalls : d # c => attempts'[d] = attempts[d],
         DOMAIN attempts'[c] = CallFields, InTime(attempts'[c]), Shares(attempts'[c])
  PROVE  DeadlineInv'
<1>1. ASSUME NEW d \in RetryCalls PROVE (DOMAIN attempts[d] = CallFields /\ InTime(attempts[d]) /\ Shares(attempts[d]))'
  <2>1. CASE d = c
    BY <2>1, Zenon DEF InTime, Shares
  <2>2. CASE d # c
    <3>1. DOMAIN attempts[d] = CallFields /\ InTime(attempts[d]) /\ Shares(attempts[d]) /\ attempts'[d] = attempts[d]
      BY <2>2, Zenon DEF DeadlineInv
    <3> QED
      BY <3>1, Zenon DEF InTime, Shares
  <2> QED
    BY <2>1, <2>2, Zenon
<1> QED
  BY <1>1, Zenon DEF DeadlineInv

\* A call is over, or begins (Policy.Do).
LEMMA OverAndStart ==
  ASSUME DeadlineInv, UNCHANGED <<divide, retryNow>>, NEW c \in RetryCalls,
         \/ attempts' = [attempts EXCEPT ![c] = Over]
         \/ attempts' = [attempts EXCEPT ![c] = [NotCalled EXCEPT !.pc = "try", !.deadline = retryNow + Overall]]
  PROVE  DeadlineInv'
<1>1. PICK r : /\ attempts' = [attempts EXCEPT ![c] = r] /\ DOMAIN r = CallFields
               /\ r.pc = "over" \/ (r.pc = "try" /\ retryNow <= r.deadline)
               /\ r.attempt = 0 /\ r.deadline \in Nat
  <2>1. DOMAIN Over = CallFields /\ Over.pc = "over" /\ Over.attempt = 0 /\ Over.deadline \in Nat
    BY Zenon DEF Over, NotCalled, CallFields
  <2>2. PICK s : s = [NotCalled EXCEPT !.pc = "try", !.deadline = retryNow + Overall]
    BY Zenon
  <2>3. DOMAIN s = CallFields /\ s.pc = "try" /\ s.deadline = retryNow + Overall /\ s.attempt = 0
    BY <2>2, Zenon DEF NotCalled, CallFields
  <2>4. retryNow + Overall \in Nat /\ retryNow <= retryNow + Overall
    BY RetryAssumption DEF DeadlineInv
  <2>5. CASE attempts' = [attempts EXCEPT ![c] = Over]
    BY <2>1, <2>5, Zenon
  <2>6. CASE attempts' = [attempts EXCEPT ![c] = s]
    BY <2>3, <2>4, <2>6, Zenon
  <2> QED
    BY <2>2, <2>5, <2>6, Zenon
<1>2. DOMAIN attempts' = RetryCalls /\ attempts'[c] = r /\ \A d \in RetryCalls : d # c => attempts'[d] = attempts[d]
  BY <1>1, Zenon DEF DeadlineInv
<1>3. InTime(r) /\ Shares(r)
  BY <1>1, RetryAssumption DEF InTime, Shares
<1> QED
  BY <1>1, <1>2, <1>3, CallStep, Zenon

\* An attempt starts, with the deadline that AttemptDuration gives it.
LEMMA AttemptStarts ==
  ASSUME DeadlineInv, UNCHANGED <<divide, retryNow>>, NEW c \in RetryCalls,
         attempts[c].pc = "try", ~Done(attempts[c]),
         attempts' = [attempts EXCEPT ![c].pc = "running", ![c].until = retryNow + AttemptDuration(attempts[c]),
                                      ![c].began = retryNow]
  PROVE  DeadlineInv'
<1>1. PICK a \in Nat, l \in Nat, dl \in Nat, clock \in Nat :
        /\ a = attempts[c].attempt /\ a < MaxAttempts /\ l = MaxAttempts - a /\ l > 0
        /\ dl = attempts[c].deadline /\ clock = retryNow /\ clock < dl
  BY RetryAssumption DEF DeadlineInv, InTime, Done
<1>2. PICK t \in Nat : t = AttemptDuration(attempts[c]) /\ t <= dl - clock /\ (divide /\ Slice(attempts[c]) > 0 => t <= Slice(attempts[c]))
  BY <1>1, DurationBounds, Zenon
<1>3. /\ DOMAIN attempts' = RetryCalls /\ \A d \in RetryCalls : d # c => attempts'[d] = attempts[d]
      /\ DOMAIN attempts'[c] = CallFields /\ attempts'[c].pc = "running" /\ attempts'[c].until = clock + t
      /\ attempts'[c].began = clock /\ attempts'[c].attempt = a /\ attempts'[c].deadline = dl
  BY <1>1, <1>2, Zenon DEF DeadlineInv, CallFields
<1>4. InTime(attempts'[c])
  BY <1>1, <1>3 DEF InTime
<1>5. ASSUME divide, dl - clock >= l PROVE (l - 1) * t <= dl - clock - t
  <2>1. PICK r \in Nat, q \in Nat : r = dl - clock /\ q = r \div l /\ q > 0
    BY <1>1, <1>5
  <2>2. Slice(attempts[c]) = q
    BY <1>1, <2>1, Zenon DEF Slice
  <2>3. t <= r \div l
    BY <1>2, <1>5, <2>1, <2>2, ZenonT(60)
  <2> QED
    BY <1>1, <2>1, <2>3, FairShare, Zenon
<1>6. Shares(attempts'[c])
  BY <1>1, <1>2, <1>3, <1>5 DEF Shares
<1> QED
  BY <1>3, <1>4, <1>6, CallStep, ZenonT(60)

(***************************************************************************)
(* No attempt and no backoff outlasts the caller's deadline, and with      *)
(* attempt budgeting an attempt leaves every later one as much as it got,  *)
(* for every number of attempts, timeouts, backoff strategy and calls      *)
(* (retry.go Do, attempt_budget.go).                                       *)
(***************************************************************************)
THEOREM AttemptsKeepDeadline == RetrySpec => []AttemptsShareDeadline
<1>1. RetryInit => DeadlineInv
  <2> SUFFICES ASSUME RetryInit PROVE DeadlineInv
    OBVIOUS
  <2>1. retryNow = 0 /\ attempts = [c \in RetryCalls |-> NotCalled]
    BY Zenon DEF RetryInit
  <2>2. DOMAIN NotCalled = CallFields /\ NotCalled.pc = "new" /\ NotCalled.attempt = 0 /\ NotCalled.deadline = 0
    BY Zenon DEF NotCalled, CallFields
  <2>3. InTime(NotCalled) /\ Shares(NotCalled)
    BY <2>2 DEF InTime, Shares
  <2> QED
    BY <2>1, <2>2, <2>3, Zenon DEF DeadlineInv
<1>2. DeadlineInv /\ [RetryNext]_retryVars => DeadlineInv'
  <2> SUFFICES ASSUME DeadlineInv, [RetryNext]_retryVars PROVE DeadlineInv'
    OBVIOUS
  <2>1. ASSUME NEW c \in RetryCalls, StartDo(c) \/ FnEnds(c) PROVE DeadlineInv'
    BY <2>1, OverAndStart, Zenon DEF StartDo, FnEnds
  <2>2. ASSUME NEW c \in RetryCalls, TryAttempt(c) PROVE DeadlineInv'
    <3>1. UNCHANGED <<divide, retryNow>> /\ attempts[c].pc = "try"
      BY <2>2, Zenon DEF TryAttempt
    <3>2. \/ attempts' = [attempts EXCEPT ![c] = Over]
          \/ /\ ~Done(attempts[c])
             /\ attempts' = [attempts EXCEPT ![c].pc = "running", ![c].until = retryNow + AttemptDuration(attempts[c]),
                                             ![c].began = retryNow]
      BY <2>2, Zenon DEF TryAttempt
    <3> QED
      BY <3>1, <3>2, OverAndStart, AttemptStarts, Zenon
  <2>3. ASSUME NEW c \in RetryCalls, FnFails(c) PROVE DeadlineInv'
    <3>1. PICK d : attempts' = [attempts EXCEPT ![c].attempt = @ + 1, ![c].began = 0,
                                           ![c].until = IF d = 0 THEN 0 ELSE retryNow + AtMost(d, MaxDelay),
                                           ![c].pc = IF d = 0 THEN "try" ELSE "sleeping"]
      BY <2>3, Zenon DEF FnFails
    <3>2. UNCHANGED <<divide, retryNow>> /\ attempts[c].pc = "running" /\ attempts[c].attempt < MaxAttempts - 1
      BY <2>3, Zenon DEF FnFails
    <3>3. /\ DOMAIN attempts' = RetryCalls /\ \A e \in RetryCalls : e # c => attempts'[e] = attempts[e]
          /\ DOMAIN attempts'[c] = CallFields /\ attempts'[c].pc \in {"try", "sleeping"}
          /\ attempts'[c].attempt = attempts[c].attempt + 1 /\ attempts'[c].deadline = attempts[c].deadline
      BY <3>1, ZenonT(60) DEF DeadlineInv, CallFields
    <3>4. PICK a \in Nat : /\ a = attempts[c].attempt /\ attempts[c].deadline \in Nat
                           /\ retryNow <= attempts[c].deadline
      BY <3>2, Zenon DEF DeadlineInv, InTime
    <3>5. a + 1 \in Nat /\ a + 1 < MaxAttempts
      BY <3>2, <3>4, RetryAssumption
    <3>6. InTime(attempts'[c])
      BY <3>3, <3>4, <3>5, Zenon DEF InTime
    <3>7. Shares(attempts'[c])
      BY <3>3, Zenon DEF Shares
    <3> QED
      BY <3>2, <3>3, <3>6, <3>7, CallStep, Zenon
  <2>4. ASSUME NEW c \in RetryCalls, Wake(c) PROVE DeadlineInv'
    <3>1. UNCHANGED <<divide, retryNow>> /\ attempts[c].pc = "sleeping"
      BY <2>4, Zenon DEF Wake
    <3>2. CASE attempts' = [attempts EXCEPT ![c].pc = "try", ![c].until = 0]
      <4>1. /\ DOMAIN attempts' = RetryCalls /\ \A e \in RetryCalls : e # c => attempts'[e] = attempts[e]
            /\ DOMAIN attempts'[c] = CallFields /\ attempts'[c].pc = "try"
            /\ attempts'[c].attempt = attempts[c].attempt /\ attempts'[c].deadline = attempts[c].deadline
        BY <3>2, Zenon DEF DeadlineInv, CallFields
      <4>2. InTime(attempts'[c]) /\ Shares(attempts'[c])
        BY <3>1, <4>1, Zenon DEF DeadlineInv, InTime, Shares
      <4> QED
        BY <3>1, <4>1, <4>2, CallStep, Zenon
    <3> QED
      BY <2>4, <3>1, <3>2, OverAndStart, Zenon DEF Wake
  <2>5. ASSUME NEW c \in RetryCalls, CancelRetry(c) PROVE DeadlineInv'
    <3>1. UNCHANGED <<divide, retryNow>> /\ attempts' = [attempts EXCEPT ![c].cancelled = TRUE]
      BY <2>5, Zenon DEF CancelRetry
    <3>2. /\ DOMAIN attempts' = RetryCalls /\ \A e \in RetryCalls : e # c => attempts'[e] = attempts[e]
          /\ DOMAIN attempts'[c] = CallFields /\ attempts'[c].pc = attempts[c].pc
          /\ attempts'[c].attempt = attempts[c].attempt /\ attempts'[c].deadline = attempts[c].deadline
          /\ attempts'[c].began = attempts[c].began /\ attempts'[c].until = attempts[c].until
      BY <3>1, Zenon DEF DeadlineInv, CallFields
    <3>3. InTime(attempts'[c]) /\ Shares(attempts'[c])
      BY <3>2, Zenon DEF DeadlineInv, InTime, Shares
    <3> QED
      BY <3>1, <3>2, <3>3, CallStep, Zenon
  <2>6. CASE RetryTick
    <3>1. retryNow' = retryNow + 1 /\ UNCHANGED <<divide, attempts>> /\ retryNow \in Nat
      BY <2>6, Zenon DEF RetryTick, DeadlineInv
    <3>2. \A c \in RetryCalls : attempts[c].pc # "try" /\ (attempts[c].pc \in {"running", "sleeping"} => ~(retryNow >= attempts[c].deadline))
      BY <2>6, ZenonT(60) DEF RetryTick, Done
    <3>3. ASSUME NEW c \in RetryCalls PROVE InTime(attempts[c])' /\ Shares(attempts[c])'
      BY <3>1, <3>2 DEF DeadlineInv, InTime, Shares
    <3> QED
      BY <3>1, <3>3 DEF DeadlineInv
  <2>7. CASE Deposit(1) \/ UNCHANGED retryVars
    <3>1. UNCHANGED <<divide, retryNow, attempts>>
      BY <2>7, Zenon DEF Deposit, retryVars
    <3> QED
      BY <3>1, Zenon DEF DeadlineInv, InTime, Shares
  <2> QED
    BY <2>1, <2>2, <2>3, <2>4, <2>5, <2>6, <2>7, Zenon DEF RetryNext
<1>3. DeadlineInv => AttemptsShareDeadline
  BY Zenon DEF DeadlineInv, InTime, Shares, AttemptsShareDeadline
<1> QED
  BY <1>1, <1>2, <1>3, PTL DEF RetrySpec
=============================================================================
