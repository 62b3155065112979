---------------------------- MODULE SumTheorems ----------------------------
(***************************************************************************)
(* Sums over finite sets.  The counters of this code are sums that are     *)
(* kept up to date one addition at a time: requests admitted in a window,  *)
(* failures in the buckets of a circuit breaker, tokens taken by the calls *)
(* of a leaky bucket, retries of a budget.  The models state what such a   *)
(* counter should be with SumFunctionOnSet; the lemmas below say how that  *)
(* sum changes when the set or one of the summands does.  A sum is defined *)
(* by recursion on the set, and what it computes is proved by taking the   *)
(* smallest set, or the smallest interval, on which the claim would fail.  *)
(***************************************************************************)
EXTENDS Integers, FiniteSets, Functions, FiniteSetTheorems, WellFoundedInduction, TLAPS

\* Every non-empty set of naturals has a least member.
LEMMA LeastNumber ==
  ASSUME NEW T \in SUBSET Nat, T # {}
  PROVE  \E n \in T : \A m \in T : n <= m
<1>1. PICK n \in T : \A m \in T : ~(<<m, n>> \in OpToRel(<, Nat))
  BY WFMin, NatLessThanWellFounded, Zenon
<1>2. ASSUME NEW m \in T PROVE n <= m
  <2>1. <<m, n>> \in Nat \X Nat /\ ~(m < n /\ <<m, n>> \in Nat \X Nat)
    BY <1>1 DEF OpToRel
  <2> QED
    BY <2>1
<1> QED
  BY <1>2

\* The member a sum adds first, one step of the sum, and the table of all the sums
\* over the subsets of S that the library's definition chooses.
Pick(s) == CHOOSE x \in s : TRUE

SumStep(f, g, s) == IF s = {} THEN 0 ELSE f[Pick(s)] + g[s \ {Pick(s)}]

Fold(f, S) == CHOOSE g : g = [s \in SUBSET S |-> SumStep(f, g, s)]

\* The library's sum is the entry of S in that table.
LEMMA SumIs ==
  ASSUME NEW f, NEW S
  PROVE SumFunctionOnSet(f, S) = Fold(f, S)[S]
BY DEF SumFunctionOnSet, FoldFunctionOnSet, MapThenFoldSet, Fold, SumStep, Pick

\* A set without one of its members is smaller by one.
LEMMA OneLess ==
  ASSUME NEW S, IsFiniteSet(S), NEW x \in S
  PROVE  /\ IsFiniteSet(S \ {x}) /\ Cardinality(S) \in Nat /\ Cardinality(S) > 0
         /\ Cardinality(S \ {x}) = Cardinality(S) - 1
<1>1. Cardinality(S) \in Nat /\ Cardinality(S) # 0
  BY FS_CardinalityType, FS_EmptySet
<1> QED
  BY <1>1, FS_RemoveElement

\* The member a sum adds first is one of the set.
LEMMA PickIn ==
  ASSUME NEW s, s # {}
  PROVE Pick(s) \in s
BY DEF Pick

\* A table of sums exists for every finite set of integer summands.
LEMMA FoldExists ==
  ASSUME NEW S, IsFiniteSet(S), NEW f, \A x \in S : f[x] \in Int
  PROVE \E g \in [SUBSET S -> Int] : \A s \in SUBSET S : g[s] = SumStep(f, g, s)
<1> DEFINE D == SUBSET S
           Upto(g, n) == \A s \in D : Cardinality(s) <= n => g[s] = SumStep(f, g, s)
           Bad == {n \in Nat : ~ \E g \in [D -> Int] : Upto(g, n)}
<1>1. \A s \in D : IsFiniteSet(s) /\ Cardinality(s) \in Nat /\ Cardinality(s) <= Cardinality(S)
  BY FS_Subset, FS_CardinalityType
<1>2. ASSUME NEW s \in D, s # {}
      PROVE  /\ s \ {Pick(s)} \in D /\ Cardinality(s \ {Pick(s)}) = Cardinality(s) - 1
             /\ f[Pick(s)] \in Int /\ Cardinality(s) > 0
  <2>1. Pick(s) \in s /\ IsFiniteSet(s)
    BY <1>1, <1>2, PickIn
  <2>2. Cardinality(s \ {Pick(s)}) = Cardinality(s) - 1
    BY <2>1, FS_RemoveElement, Zenon
  <2>3. Cardinality(s) # 0
    BY <1>2, <2>1, FS_EmptySet
  <2> QED
    BY <1>1, <2>1, <2>2, <2>3
<1>3. 0 \notin Bad
  <2> DEFINE g == [s \in D |-> 0]
  <2>1. \A s \in D : Cardinality(s) <= 0 => s = {}
    BY <1>1, FS_EmptySet
  <2>2. Upto(g, 0)
    BY <2>1 DEF SumStep
  <2>3. g \in [D -> Int]
    OBVIOUS
  <2> QED
    BY <2>2, <2>3
<1>4. ASSUME NEW n \in Nat, n \notin Bad PROVE n + 1 \notin Bad
  <2>1. PICK g \in [D -> Int] : Upto(g, n)
    BY <1>4, Zenon
  <2> DEFINE h == [s \in D |-> IF Cardinality(s) <= n THEN g[s] ELSE SumStep(f, g, s)]
  <2>2. h \in [D -> Int]
    BY <1>2 DEF SumStep
  <2>3. ASSUME NEW s \in D, Cardinality(s) <= n + 1 PROVE h[s] = SumStep(f, h, s)
    <3>1. h[s] = SumStep(f, g, s)
      BY <2>1
    <3>2. CASE s = {}
      BY <3>1, <3>2 DEF SumStep
    <3>3. CASE s # {}
      <4>1. Cardinality(s \ {Pick(s)}) <= n
        BY <1>1, <1>2, <2>3, <3>3
      <4>2. h[s \ {Pick(s)}] = g[s \ {Pick(s)}]
        BY <1>2, <3>3, <4>1
      <4> QED
        BY <3>1, <3>3, <4>2 DEF SumStep
    <3> QED
      BY <3>2, <3>3
  <2> QED
    BY <2>2, <2>3, Zenon
<1>5. Bad = {}
  <2> SUFFICES ASSUME Bad # {} PROVE FALSE
    BY Zenon
  <2>1. PICK n \in Bad : \A m \in Bad : n <= m
    BY LeastNumber, Zenon
  <2>2. n \in Nat /\ n # 0
    BY <1>3, Zenon
  <2> HIDE DEF Bad
  <2>3. n - 1 \in Nat /\ n - 1 \notin Bad /\ (n - 1) + 1 = n
    BY <2>1, <2>2
  <2> QED
    BY <1>4, <2>3
<1>6. Cardinality(S) \in Nat
  BY FS_CardinalityType
<1>7. PICK g \in [D -> Int] : Upto(g, Cardinality(S))
  BY <1>5, <1>6, Zenon
<1>8. \A s \in D : g[s] = SumStep(f, g, s)
  BY <1>1, <1>7
<1> QED
  BY <1>8

\* The chosen table satisfies its recursive equation.
LEMMA FoldDef ==
  ASSUME NEW S, IsFiniteSet(S), NEW f, \A x \in S : f[x] \in Int
  PROVE /\ Fold(f, S) = [s \in SUBSET S |-> SumStep(f, Fold(f, S), s)]
<1> DEFINE P(g) == g = [s \in SUBSET S |-> SumStep(f, g, s)]
<1>1. \E g : P(g)
  <2>1. PICK g \in [SUBSET S -> Int] : \A s \in SUBSET S : g[s] = SumStep(f, g, s)
    BY FoldExists, Zenon
  <2>2. g = [s \in SUBSET S |-> SumStep(f, g, s)]
    BY <2>1
  <2> QED
    BY <2>2
<1>2. Fold(f, S) = CHOOSE g : P(g)
  BY DEF Fold
<1> HIDE DEF P
<1>3. P(Fold(f, S))
  BY <1>1, <1>2
<1> QED
  BY <1>3 DEF P

Follows(f, g, S) == \A s \in SUBSET S : g[s] = SumStep(f, g, s)

\* Two tables that satisfy the equation agree on every subset.
LEMMA FoldUnique ==
  ASSUME NEW S, IsFiniteSet(S), NEW f, NEW g, NEW h, Follows(f, g, S), Follows(f, h, S)
  PROVE  \A s \in SUBSET S : g[s] = h[s]
<1> DEFINE Bad == {n \in Nat : \E s \in SUBSET S : Cardinality(s) = n /\ g[s] # h[s]}
<1>1. \A s \in SUBSET S : IsFiniteSet(s) /\ Cardinality(s) \in Nat
  BY FS_Subset, FS_CardinalityType
<1>2. Bad = {}
  <2> SUFFICES ASSUME Bad # {} PROVE FALSE
    OBVIOUS
  <2>1. PICK n \in Bad : \A m \in Bad : n <= m
    BY LeastNumber, Zenon
  <2>2. PICK s \in SUBSET S : Cardinality(s) = n /\ g[s] # h[s]
    OBVIOUS
  <2> DEFINE r == s \ {Pick(s)}
  <2>3. s # {}
    BY <2>2, Zenon DEF Follows, SumStep
  <2>4. r \in SUBSET S /\ Cardinality(r) = n - 1 /\ n - 1 \in Nat
    BY <1>1, <2>2, <2>3, PickIn, OneLess
  <2>5. g[r] = h[r]
    BY <2>1, <2>4
  <2> QED
    BY <2>2, <2>3, <2>5 DEF Follows, SumStep
<1> QED
  BY <1>1, <1>2

\* The table of S satisfies the equation on the subsets of any T in S, and its entries are integers.
LEMMA FoldFollows ==
  ASSUME NEW S, IsFiniteSet(S), NEW f, \A x \in S : f[x] \in Int
  PROVE  /\ \A T \in SUBSET S : Follows(f, Fold(f, S), T)
         /\ \A s \in SUBSET S : Fold(f, S)[s] \in Int
<1>1. Fold(f, S) = [s \in SUBSET S |-> SumStep(f, Fold(f, S), s)]
  BY FoldDef, Zenon
<1>2. Follows(f, Fold(f, S), S)
  BY <1>1 DEF Follows
<1>3. PICK g \in [SUBSET S -> Int] : \A s \in SUBSET S : g[s] = SumStep(f, g, s)
  BY FoldExists, Zenon
<1>4. \A s \in SUBSET S : Fold(f, S)[s] = g[s]
  <2>1. Follows(f, g, S)
    BY <1>3 DEF Follows
  <2> QED
    BY <1>2, <2>1, FoldUnique
<1> QED
  BY <1>2, <1>4 DEF Follows

\* Every entry of the table is the sum over its subset.
LEMMA FoldIsSum ==
  ASSUME NEW S, IsFiniteSet(S), NEW f, \A x \in S : f[x] \in Int, NEW T \in SUBSET S
  PROVE  Fold(f, S)[T] = SumFunctionOnSet(f, T)
<1>1. IsFiniteSet(T)
  BY FS_Subset
<1>2. Follows(f, Fold(f, T), T) /\ Follows(f, Fold(f, S), T)
  BY <1>1, FoldFollows
<1> QED
  BY <1>1, <1>2, FoldUnique, SumIs

\* The sum over no index is 0, and over some it is an integer.
LEMMA SumType ==
  ASSUME NEW S, IsFiniteSet(S), NEW f, \A x \in S : f[x] \in Int
  PROVE  SumFunctionOnSet(f, S) \in Int /\ (S = {} => SumFunctionOnSet(f, S) = 0)
BY FoldFollows, SumIs, Zenon DEF Follows, SumStep

\* No index, no sum: what the windows' totals are before the first bucket.
LEMMA SumNone ==
  ASSUME NEW f
  PROVE  SumFunctionOnSet(f, {}) = 0
BY SumType, FS_EmptySet, Zenon

\* A sum is the summand it adds first and the sum over the rest.
LEMMA SumPick ==
  ASSUME NEW S, IsFiniteSet(S), NEW f, \A x \in S : f[x] \in Int, S # {}
  PROVE  SumFunctionOnSet(f, S) = f[Pick(S)] + SumFunctionOnSet(f, S \ {Pick(S)})
<1>1. Fold(f, S)[S] = SumStep(f, Fold(f, S), S)
  BY FoldFollows DEF Follows
<1> QED
  BY <1>1, FoldIsSum, SumIs DEF SumStep

\* Any index can be taken out of a sum.
LEMMA SumRemove ==
  ASSUME NEW S, IsFiniteSet(S), NEW f, \A x \in S : f[x] \in Int, NEW x \in S
  PROVE  SumFunctionOnSet(f, S) = f[x] + SumFunctionOnSet(f, S \ {x})
<1> DEFINE F(T) == SumFunctionOnSet(f, T)
           Bad == {n \in Nat : \E T \in SUBSET S : \E y \in T : Cardinality(T) = n /\ F(T) # f[y] + F(T \ {y})}
<1>1. \A T \in SUBSET S : IsFiniteSet(T) /\ Cardinality(T) \in Nat /\ F(T) \in Int
  BY FS_Subset, FS_CardinalityType, SumType
<1>2. \A T \in SUBSET S : T # {} => F(T) = f[Pick(T)] + F(T \ {Pick(T)})
  BY <1>1, SumPick
<1> HIDE DEF F
<1>3. Bad = {}
  <2> SUFFICES ASSUME Bad # {} PROVE FALSE
    BY Zenon
  <2>1. PICK n \in Bad : \A m \in Bad : n <= m
    BY LeastNumber, Zenon
  <2>2. PICK T \in SUBSET S : \E y \in T : Cardinality(T) = n /\ F(T) # f[y] + F(T \ {y})
    BY Zenon
  <2>3. PICK y \in T : Cardinality(T) = n /\ F(T) # f[y] + F(T \ {y})
    BY <2>2, Zenon
  <2> DEFINE z == Pick(T)
  <2>4. z \in T /\ F(T) = f[z] + F(T \ {z}) /\ z # y
    BY <1>2, <2>3, PickIn
  <2>5. /\ T \ {y} \in SUBSET S /\ T \ {z} \in SUBSET S
        /\ Cardinality(T \ {y}) = n - 1 /\ Cardinality(T \ {z}) = n - 1 /\ n - 1 \in Nat
    BY <1>1, <2>3, <2>4, OneLess
  <2>6. \A U \in SUBSET S : \A v \in U : Cardinality(U) = n - 1 => F(U) = f[v] + F(U \ {v})
    <3>1. n \in Nat
      OBVIOUS
    <3> HIDE DEF Bad
    <3>2. n - 1 \notin Bad
      BY <2>1, <3>1
    <3> QED
      BY <2>5, <3>2, Zenon DEF Bad
  <2>7. /\ F(T \ {y}) = f[z] + F((T \ {y}) \ {z})
        /\ F(T \ {z}) = f[y] + F((T \ {z}) \ {y})
    BY <2>4, <2>5, <2>6
  <2>8. (T \ {z}) \ {y} = (T \ {y}) \ {z}
    OBVIOUS
  <2>9. F((T \ {z}) \ {y}) \in Int /\ f[y] \in Int /\ f[z] \in Int
    BY <1>1, <2>4
  <2> QED
    BY <2>3, <2>4, <2>7, <2>8, <2>9
<1>4. Cardinality(S) \in Nat /\ S \in SUBSET S
  BY <1>1
<1> QED
  BY <1>3, <1>4, Zenon DEF F

-----------------------------------------------------------------------------
(* Sums over an interval                                                    *)

\* The first or the last term can be split off.
LEMMA SumInterval ==
  ASSUME NEW i \in Int, NEW j \in Int, NEW f, \A k \in i..j : f[k] \in Int
  PROVE  /\ SumFunctionOnSet(f, i..j) \in Int
         /\ i > j => SumFunctionOnSet(f, i..j) = 0
         /\ i <= j => SumFunctionOnSet(f, i..j) = f[i] + SumFunctionOnSet(f, (i + 1)..j)
         /\ i <= j => SumFunctionOnSet(f, i..j) = SumFunctionOnSet(f, i..(j - 1)) + f[j]
<1>1. IsFiniteSet(i..j)
  BY FS_Interval
<1>2. SumFunctionOnSet(f, i..j) \in Int /\ (i > j => SumFunctionOnSet(f, i..j) = 0)
  <2>1. i > j => i..j = {}
    OBVIOUS
  <2> QED
    BY <1>1, <2>1, SumType
<1>3. ASSUME i <= j PROVE SumFunctionOnSet(f, i..j) = f[i] + SumFunctionOnSet(f, (i + 1)..j)
  <2>1. i \in i..j /\ (i..j) \ {i} = (i + 1)..j
    BY <1>3
  <2>2. SumFunctionOnSet(f, i..j) = f[i] + SumFunctionOnSet(f, (i..j) \ {i})
    BY <1>1, <2>1, SumRemove
  <2> QED
    BY <2>1, <2>2, Zenon
<1>4. ASSUME i <= j PROVE SumFunctionOnSet(f, i..j) = SumFunctionOnSet(f, i..(j - 1)) + f[j]
  <2>1. j \in i..j /\ (i..j) \ {j} = i..(j - 1)
    BY <1>4
  <2>2. SumFunctionOnSet(f, i..j) = f[j] + SumFunctionOnSet(f, (i..j) \ {j})
    BY <1>1, <2>1, SumRemove
  <2>3. SumFunctionOnSet(f, i..(j - 1)) \in Int /\ f[j] \in Int
    <3>1. IsFiniteSet(i..(j - 1)) /\ \A k \in i..(j - 1) : f[k] \in Int
      BY FS_Interval
    <3> QED
      BY <2>1, <3>1, SumType
  <2>4. SumFunctionOnSet(f, i..j) = f[j] + SumFunctionOnSet(f, i..(j - 1))
    BY <2>1, <2>2, Zenon
  <2> QED
    BY <2>3, <2>4
<1> QED
  BY <1>2, <1>3, <1>4

\* Two sums whose terms are equal one place apart.
LEMMA SumShift ==
  ASSUME NEW i \in Int, NEW j \in Int, NEW d \in Int, NEW f, NEW g,
         \A k \in i..j : f[k] \in Int /\ g[k + d] = f[k]
  PROVE  SumFunctionOnSet(g, (i + d)..(j + d)) = SumFunctionOnSet(f, i..j)
<1> DEFINE F(m) == SumFunctionOnSet(f, i..m)
           G(m) == SumFunctionOnSet(g, (i + d)..(m + d))
           Bad == {n \in Nat : i - 1 + n <= j /\ F(i - 1 + n) # G(i - 1 + n)}
<1>1. CASE i > j
  <2>1. (i + d) > (j + d) /\ \A k \in (i + d)..(j + d) : g[k] \in Int
    BY <1>1
  <2> QED
    BY <1>1, <2>1, SumInterval
<1>2. CASE i <= j
  <2>1. ASSUME NEW m \in (i - 1)..j PROVE
          /\ m = i - 1 => F(m) = 0 /\ G(m) = 0
          /\ m # i - 1 => F(m) = F(m - 1) + f[m] /\ G(m) = G(m - 1) + f[m]
    <3>1. \A k \in i..m : f[k] \in Int
      OBVIOUS
    <3>2. \A k \in (i + d)..(m + d) : g[k] \in Int
      <4>1. ASSUME NEW k \in (i + d)..(m + d) PROVE g[k] \in Int
        <5>1. k - d \in i..j /\ (k - d) + d = k
          OBVIOUS
        <5> QED
          BY <5>1
      <4> QED
        BY <4>1
    <3>3. i + d \in Int /\ m + d \in Int /\ (m + d) - 1 = (m - 1) + d
      OBVIOUS
    <3>4. m # i - 1 => i <= m /\ i + d <= m + d /\ g[m + d] = f[m]
      OBVIOUS
    <3>5. m = i - 1 => i > m /\ i + d > m + d
      OBVIOUS
    <3>6. /\ m = i - 1 => F(m) = 0
          /\ m # i - 1 => F(m) = F(m - 1) + f[m]
      BY <3>1, <3>4, <3>5, SumInterval
    <3>7. /\ m = i - 1 => G(m) = 0
          /\ m # i - 1 => G(m) = G(m - 1) + g[m + d]
      BY <3>2, <3>3, <3>4, <3>5, SumInterval
    <3> QED
      BY <3>4, <3>6, <3>7
  <2> HIDE DEF F, G
  <2>2. Bad = {}
    <3> SUFFICES ASSUME Bad # {} PROVE FALSE
      OBVIOUS
    <3>1. PICK n \in Bad : \A m \in Bad : n <= m
      BY LeastNumber, Zenon
    <3>2. n \in Nat /\ i - 1 + n \in (i - 1)..j /\ F(i - 1 + n) # G(i - 1 + n)
      OBVIOUS
    <3>3. n # 0
      BY <2>1, <3>2
    <3>4. n - 1 \in Nat /\ i - 1 + (n - 1) <= j /\ i - 1 + (n - 1) = (i - 1 + n) - 1
      BY <3>2, <3>3
    <3>5. n - 1 \notin Bad
      <4> HIDE DEF Bad
      <4> QED
        BY <3>1, <3>2
    <3>6. F((i - 1 + n) - 1) = G((i - 1 + n) - 1)
      BY <3>4, <3>5
    <3> QED
      BY <2>1, <3>2, <3>3, <3>6
  <2>3. PICK n \in Nat : n = (j - i) + 1
    BY <1>2
  <2>4. F(j) = G(j)
    <3>1. i - 1 + n = j /\ i - 1 + n <= j
      BY <2>3
    <3>2. n \notin Bad
      BY <2>2, Zenon
    <3> QED
      BY <3>1, <3>2
  <2> QED
    BY <2>4 DEF F, G
<1> QED
  BY <1>1, <1>2

\* An interval can be cut in two, and terms that are not negative add up to a
\* sum that is not negative.
LEMMA SumSplit ==
  ASSUME NEW i \in Int, NEW j \in Int, NEW m \in (i - 1)..j, NEW f, \A k \in i..j : f[k] \in Int
  PROVE  SumFunctionOnSet(f, i..j) = SumFunctionOnSet(f, i..m) + SumFunctionOnSet(f, (m + 1)..j)
<1> DEFINE F(a, b) == SumFunctionOnSet(f, a..b)
           Bad == {n \in Nat : m + n <= j /\ F(i, m + n) # F(i, m) + F(m + 1, m + n)}
<1>1. ASSUME NEW l \in m..j PROVE
        /\ F(i, l) \in Int /\ F(m + 1, l) \in Int
        /\ l = m => F(m + 1, l) = 0
        /\ l # m => F(i, l) = F(i, l - 1) + f[l] /\ F(m + 1, l) = F(m + 1, l - 1) + f[l] /\ f[l] \in Int
  <2>1. l \in Int /\ m + 1 \in Int /\ (\A k \in i..l : f[k] \in Int) /\ (\A k \in (m + 1)..l : f[k] \in Int)
    OBVIOUS
  <2>2. /\ l = m => m + 1 > l
        /\ l # m => i <= l /\ m + 1 <= l
    OBVIOUS
  <2>3. F(i, l) \in Int /\ (l # m => F(i, l) = F(i, l - 1) + f[l])
    BY <2>1, <2>2, SumInterval
  <2>4. F(m + 1, l) \in Int /\ (l = m => F(m + 1, l) = 0) /\ (l # m => F(m + 1, l) = F(m + 1, l - 1) + f[l])
    BY <2>1, <2>2, SumInterval
  <2> QED
    BY <2>1, <2>2, <2>3, <2>4
<1> HIDE DEF F
<1>2. Bad = {}
  <2> SUFFICES ASSUME Bad # {} PROVE FALSE
    OBVIOUS
  <2>1. PICK n \in Bad : \A l \in Bad : n <= l
    BY LeastNumber, Zenon
  <2>2. n \in Nat /\ m + n \in m..j /\ F(i, m + n) # F(i, m) + F(m + 1, m + n)
    OBVIOUS
  <2>3. m \in m..j
    BY <2>2
  <2>4. n # 0
    BY <1>1, <2>2, <2>3
  <2>5. n - 1 \in Nat /\ m + (n - 1) = (m + n) - 1 /\ (m + n) - 1 \in m..j
    BY <2>2, <2>4
  <2>6. n - 1 \notin Bad
    <3> HIDE DEF Bad
    <3> QED
      BY <2>1, <2>2
  <2>7. F(i, (m + n) - 1) = F(i, m) + F(m + 1, (m + n) - 1)
    BY <2>5, <2>6
  <2>8. /\ F(i, m + n) = F(i, (m + n) - 1) + f[m + n] /\ F(m + 1, m + n) = F(m + 1, (m + n) - 1) + f[m + n]
        /\ f[m + n] \in Int /\ F(i, m) \in Int /\ F(m + 1, (m + n) - 1) \in Int
    BY <1>1, <2>2, <2>3, <2>4, <2>5
  <2> QED
    BY <2>2, <2>7, <2>8
<1>3. PICK n \in Nat : n = j - m
  OBVIOUS
<1>4. m + n = j /\ m + n <= j
  BY <1>3
<1>5. n \notin Bad
  BY <1>2, Zenon
<1>6. F(i, m + n) = F(i, m) + F(m + 1, m + n)
  BY <1>4, <1>5
<1> QED
  BY <1>4, <1>6 DEF F

\* A sum of naturals over an interval is a natural: no counter goes below zero.
LEMMA SumNonNegative ==
  ASSUME NEW i \in Int, NEW j \in Int, NEW f, \A k \in i..j : f[k] \in Nat
  PROVE  SumFunctionOnSet(f, i..j) \in Nat
<1> DEFINE F(n) == SumFunctionOnSet(f, i..(i - 1 + n))
           Bad == {n \in Nat : i - 1 + n <= j /\ F(n) \notin Nat}
<1>1. ASSUME NEW n \in Nat, i - 1 + n <= j
      PROVE  /\ n = 0 => F(n) = 0
             /\ n # 0 => F(n) = F(n - 1) + f[i - 1 + n] /\ f[i - 1 + n] \in Nat
  <2>1. i - 1 + n \in Int /\ \A k \in i..(i - 1 + n) : f[k] \in Int
    BY <1>1
  <2>2. /\ n = 0 => i > i - 1 + n
        /\ n # 0 => i <= i - 1 + n /\ i - 1 + n \in i..j /\ (i - 1 + n) - 1 = i - 1 + (n - 1)
    BY <1>1
  <2> QED
    BY <2>1, <2>2, SumInterval
<1> HIDE DEF F
<1>2. Bad = {}
  <2> SUFFICES ASSUME Bad # {} PROVE FALSE
    OBVIOUS
  <2>1. PICK n \in Bad : \A l \in Bad : n <= l
    BY LeastNumber, Zenon
  <2>2. n \in Nat /\ i - 1 + n <= j /\ F(n) \notin Nat
    OBVIOUS
  <2>3. n # 0
    BY <1>1, <2>2
  <2>4. n - 1 \in Nat /\ i - 1 + (n - 1) <= j /\ n - 1 \notin Bad
    <3> HIDE DEF Bad
    <3> QED
      BY <2>1, <2>2, <2>3
  <2>5. F(n - 1) \in Nat
    BY <2>4
  <2> QED
    BY <1>1, <2>2, <2>3, <2>5
<1>3. CASE i > j
  <2>1. \A k \in i..j : f[k] \in Int
    OBVIOUS
  <2> QED
    BY <1>3, <2>1, SumInterval
<1>4. CASE i <= j
  <2>1. PICK n \in Nat : n = j - (i - 1)
    BY <1>4
  <2>2. n \notin Bad /\ i - 1 + n = j
    BY <1>2, <2>1
  <2> QED
    BY <2>1, <2>2 DEF F
<1> QED
  BY <1>3, <1>4

\* Sums with the same terms are equal, in place or one place on.
LEMMA SumSame ==
  ASSUME NEW i \in Int, NEW j \in Int, NEW f, NEW g, \A k \in i..j : f[k] \in Int /\ g[k] = f[k]
  PROVE  SumFunctionOnSet(g, i..j) = SumFunctionOnSet(f, i..j)
<1>1. PICK d \in Int : d = 0
  OBVIOUS
<1>2. \A k \in i..j : f[k] \in Int /\ g[k + d] = f[k]
  BY <1>1
<1>3. SumFunctionOnSet(g, (i + d)..(j + d)) = SumFunctionOnSet(f, i..j)
  BY <1>2, SumShift
<1>4. i + d = i /\ j + d = j
  BY <1>1
<1> QED
  BY <1>3, <1>4

\* Moving every summand one place up keeps the sum: the buckets of a window that slides.
LEMMA SumNext ==
  ASSUME NEW i \in Int, NEW j \in Int, NEW f, NEW g, \A k \in i..j : f[k] \in Int /\ g[k + 1] = f[k]
  PROVE  SumFunctionOnSet(g, (i + 1)..(j + 1)) = SumFunctionOnSet(f, i..j)
<1>1. PICK d \in Int : d = 1
  OBVIOUS
<1>2. \A k \in i..j : f[k] \in Int /\ g[k + d] = f[k]
  BY <1>1
<1>3. SumFunctionOnSet(g, (i + d)..(j + d)) = SumFunctionOnSet(f, i..j)
  BY <1>2, SumShift
<1> QED
  BY <1>1, <1>3

\* Zeros add up to 0.
LEMMA SumZero ==
  ASSUME NEW i \in Int, NEW j \in Int, NEW f, \A k \in i..j : f[k] = 0
  PROVE  SumFunctionOnSet(f, i..j) = 0
<1> DEFINE F(n) == SumFunctionOnSet(f, i..(i - 1 + n))
           Bad == {n \in Nat : i - 1 + n <= j /\ F(n) # 0}
<1>1. ASSUME NEW n \in Nat, i - 1 + n <= j
      PROVE  /\ n = 0 => F(n) = 0
             /\ n # 0 => F(n) = F(n - 1) + f[i - 1 + n] /\ f[i - 1 + n] = 0
  <2>1. i - 1 + n \in Int /\ \A k \in i..(i - 1 + n) : f[k] \in Int
    BY <1>1
  <2>2. /\ n = 0 => i > i - 1 + n
        /\ n # 0 => i <= i - 1 + n /\ i - 1 + n \in i..j /\ (i - 1 + n) - 1 = i - 1 + (n - 1)
    BY <1>1
  <2> QED
    BY <2>1, <2>2, SumInterval
<1> HIDE DEF F
<1>2. Bad = {}
  <2> SUFFICES ASSUME Bad # {} PROVE FALSE
    OBVIOUS
  <2>1. PICK n \in Bad : \A l \in Bad : n <= l
    BY LeastNumber, Zenon
  <2>2. n \in Nat /\ i - 1 + n <= j /\ F(n) # 0
    OBVIOUS
  <2>3. n # 0
    BY <1>1, <2>2
  <2>4. n - 1 \in Nat /\ i - 1 + (n - 1) <= j /\ n - 1 \notin Bad
    <3> HIDE DEF Bad
    <3> QED
      BY <2>1, <2>2, <2>3
  <2>5. F(n - 1) = 0
    BY <2>4
  <2> QED
    BY <1>1, <2>2, <2>3, <2>5
<1>3. CASE i > j
  <2>1. \A k \in i..j : f[k] \in Int
    OBVIOUS
  <2> QED
    BY <1>3, <2>1, SumInterval
<1>4. CASE i <= j
  <2>1. PICK n \in Nat : n = j - (i - 1)
    BY <1>4
  <2>2. n \notin Bad /\ i - 1 + n = j
    BY <1>2, <2>1
  <2> QED
    BY <2>1, <2>2 DEF F
<1> QED
  BY <1>3, <1>4

=============================================================================
