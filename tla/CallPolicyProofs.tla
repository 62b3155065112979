-------------------------- MODULE CallPolicyProofs --------------------------
(***************************************************************************)
(* What is wrapped around a call, for every configuration: the pipeline,   *)
(* the cached fallback, the adaptive rate limiter and the load shedder.    *)
(***************************************************************************)
EXTENDS Pipeline, CachedFallback, AdaptiveLimiter, LoadShedder, TLAPS

\* What proves a step that names no prover.
USE SMTT(30), Z3T(30), Zenon

\* What a bucket holds after a refill is a number of tokens.
LEMMA RefillSum == ASSUME NEW old \in Int, NEW elapsed \in {0, 1}, NEW rate \in Nat PROVE old + elapsed * rate \in Int
OBVIOUS

\* What is left of it is no more than it held, or than the capacity.
LEMMA LevelLeft ==
  ASSUME NEW old \in Int, NEW elapsed \in {0, 1}, NEW rate \in Nat, NEW cap \in Nat, NEW n \in Nat,
         NEW sum, sum = old + elapsed * rate,
         NEW level, level = (IF elapsed > 0 /\ sum > cap THEN cap ELSE sum),
         NEW b, b = (IF level >= n THEN level - n ELSE level)
  PROVE  b \in Int /\ (b <= old \/ b <= cap)
<1>1. CASE elapsed = 0
  BY <1>1
<1>2. CASE elapsed = 1
  BY <1>2
<1> QED
  BY <1>1, <1>2

-----------------------------------------------------------------------------
(* The cached fallback                                                      *)

\* Where the leader of a call is, from its entry until it takes the call out.
Leading == {"recheck", "primary", "leave", "panicked"}

LookupRecords ==
  [pc : Leading \cup {"out", "enter", "joined", "returned"}, key : CacheKeys \cup {"none"},
   leader : CacheCallers \cup {"none"}, floor : Nat, val : Nat]

CacheType ==
  /\ cacheNow \in Nat
  /\ source \in [CacheKeys -> Nat] /\ newest \in [CacheKeys -> Nat]
  /\ cached \in [CacheKeys -> [val : Nat, at : Nat]]
  /\ group \in [CacheKeys -> CacheCallers \cup {"none"}]
  /\ shared \in [CacheCallers -> [val : Nat, ready : BOOLEAN]]
  /\ lookup \in [CacheCallers -> LookupRecords]

\* A call is in the group while its leader works on it; who joined it finds its
\* leader at work on the same key, or gone with a result left.
GroupInv ==
  /\ \A c \in CacheCallers : lookup[c].pc \in Leading \cup {"enter", "joined"} => lookup[c].key \in CacheKeys
  /\ \A c \in CacheCallers : lookup[c].pc \in Leading => group[lookup[c].key] = c
  /\ \A k \in CacheKeys : group[k] # "none" => lookup[group[k]].key = k /\ lookup[group[k]].pc \in Leading
  /\ \A c \in CacheCallers : lookup[c].pc \in {"recheck", "primary", "panicked"} => ~shared[c].ready
  /\ \A c \in CacheCallers : lookup[c].pc = "leave" => shared[c].ready /\ shared[c].val = lookup[c].val
  /\ \A c \in CacheCallers : lookup[c].leader # "none" <=> lookup[c].pc = "joined"
  /\ \A c \in CacheCallers : lookup[c].pc = "joined" =>
       \/ lookup[lookup[c].leader].pc \in Leading /\ lookup[lookup[c].leader].key = lookup[c].key
       \/ lookup[lookup[c].leader].pc = "returned" /\ shared[lookup[c].leader].ready

\* What is cached is as new as what was handed out; what a leader brings is as
\* new as everything around; what joiners will get is as new as what they
\* knew of, and not newer than what is cached or on its way.
ValueInv ==
  /\ ~wentBack
  /\ \A k \in CacheKeys : newest[k] <= source[k] /\ cached[k].val <= source[k]
  /\ \A k \in CacheKeys : cached[k].val # 0 => newest[k] <= cached[k].val
  /\ \A c \in CacheCallers : lookup[c].pc \in Leading \cup {"enter", "joined"} => lookup[c].floor <= newest[lookup[c].key]
  /\ \A c \in CacheCallers : lookup[c].pc = "primary" =>
       newest[lookup[c].key] <= lookup[c].val /\ cached[lookup[c].key].val <= lookup[c].val
         /\ lookup[c].val <= source[lookup[c].key]
  /\ \A c \in CacheCallers : lookup[c].pc = "leave" /\ lookup[c].val # 0 =>
       newest[lookup[c].key] <= lookup[c].val /\ cached[lookup[c].key].val \in {0, lookup[c].val}
         /\ lookup[c].val <= source[lookup[c].key]
  /\ \A c \in CacheCallers : lookup[c].pc = "joined" /\ shared[lookup[c].leader].ready /\ shared[lookup[c].leader].val # 0 =>
       /\ lookup[c].floor <= shared[lookup[c].leader].val
       /\ shared[lookup[c].leader].val <= source[lookup[c].key]
       /\ cached[lookup[c].key].val # 0 => shared[lookup[c].leader].val <= cached[lookup[c].key].val
       /\ \A d \in CacheCallers : lookup[d].key = lookup[c].key
            /\ (lookup[d].pc = "primary" \/ (lookup[d].pc = "leave" /\ lookup[d].val # 0)) =>
              shared[lookup[c].leader].val <= lookup[d].val

CacheInv == CacheType /\ GroupInv /\ ValueInv

\* A caller that has returned leads nobody and follows nobody.
LEMMA ReturnedCall ==
  ASSUME NEW r, r = [pc |-> "returned", key |-> "none", leader |-> "none", floor |-> 0, val |-> 0]
  PROVE  r.pc = "returned" /\ r.leader = "none" /\ r.pc \notin Leading \cup {"enter", "joined"}
BY DEF Leading

\* What holds of a value that somebody who joined a call will get.
Awaited(l, k, floor) ==
  shared[l].ready /\ shared[l].val # 0 =>
    /\ floor <= shared[l].val
    /\ shared[l].val <= source[k]
    /\ cached[k].val # 0 => shared[l].val <= cached[k].val
    /\ \A d \in CacheCallers : lookup[d].key = k
         /\ (lookup[d].pc = "primary" \/ (lookup[d].pc = "leave" /\ lookup[d].val # 0)) => shared[l].val <= lookup[d].val

\* A caller moves on without a result: what is cached and handed out stays, and
\* the primary brings what the source has.
LEMMA CallerMoves ==
  ASSUME CacheInv, NEW c \in CacheCallers, NEW r \in LookupRecords,
         \A d \in CacheCallers : lookup'[d] = IF d = c THEN r ELSE lookup[d],
         UNCHANGED <<source, cached, newest, wentBack>>,
         \A d \in CacheCallers : d # c /\ lookup[d].pc = "joined" => shared'[lookup[d].leader] = shared[lookup[d].leader],
         r.pc \in Leading \cup {"enter", "joined"} => r.key \in CacheKeys /\ r.floor <= newest[r.key],
         r.pc = "primary" => r.val = source[r.key],
         r.pc = "joined" => shared' = shared /\ Awaited(r.leader, r.key, r.floor),
         r.pc # "leave"
  PROVE  ValueInv'
<1>1. /\ ~wentBack
      /\ \A k \in CacheKeys : newest[k] <= source[k] /\ cached[k].val <= source[k]
      /\ \A k \in CacheKeys : cached[k].val # 0 => newest[k] <= cached[k].val
  BY Zenon DEF CacheInv, ValueInv
<1>2. /\ ~wentBack'
      /\ \A k \in CacheKeys : newest'[k] <= source'[k] /\ cached'[k].val <= source'[k]
      /\ \A k \in CacheKeys : cached'[k].val # 0 => newest'[k] <= cached'[k].val
  BY <1>1, Zenon
<1>3. \A d \in CacheCallers : lookup[d].pc \in Leading \cup {"enter", "joined"} => lookup[d].floor <= newest[lookup[d].key]
  BY Zenon DEF CacheInv, ValueInv
<1>4. \A d \in CacheCallers : lookup'[d].pc \in Leading \cup {"enter", "joined"} => lookup'[d].floor <= newest'[lookup'[d].key]
  BY <1>3, Zenon
<1>5. \A k \in CacheKeys : source[k] \in Nat /\ source[k] <= source[k]
  <2>1. \A x \in Nat : x <= x
    OBVIOUS
  <2> QED
    BY <2>1, Zenon DEF CacheInv, CacheType
<1>6. \A d \in CacheCallers : lookup[d].pc = "primary" =>
         newest[lookup[d].key] <= lookup[d].val /\ cached[lookup[d].key].val <= lookup[d].val
           /\ lookup[d].val <= source[lookup[d].key]
  BY Zenon DEF CacheInv, ValueInv
<1>7. \A d \in CacheCallers : lookup'[d].pc = "primary" =>
         newest'[lookup'[d].key] <= lookup'[d].val /\ cached'[lookup'[d].key].val <= lookup'[d].val
           /\ lookup'[d].val <= source'[lookup'[d].key]
  <2>1. r.pc = "primary" => newest[r.key] <= r.val /\ cached[r.key].val <= r.val /\ r.val <= source[r.key]
    BY <1>1, <1>5, Zenon DEF Leading
  <2> QED
    BY <1>6, <2>1, Zenon
<1>8. \A d \in CacheCallers : lookup[d].pc = "leave" /\ lookup[d].val # 0 =>
         newest[lookup[d].key] <= lookup[d].val /\ cached[lookup[d].key].val \in {0, lookup[d].val}
           /\ lookup[d].val <= source[lookup[d].key]
  BY Zenon DEF CacheInv, ValueInv
<1>9. \A d \in CacheCallers : lookup'[d].pc = "leave" /\ lookup'[d].val # 0 =>
         newest'[lookup'[d].key] <= lookup'[d].val /\ cached'[lookup'[d].key].val \in {0, lookup'[d].val}
           /\ lookup'[d].val <= source'[lookup'[d].key]
  BY <1>8, Zenon
<1>10. \A d \in CacheCallers : lookup[d].pc = "joined" => Awaited(lookup[d].leader, lookup[d].key, lookup[d].floor)
  BY Zenon DEF CacheInv, ValueInv, Awaited
<1>11. \A d \in CacheCallers : lookup'[d].pc = "joined" => Awaited(lookup[d].leader, lookup[d].key, lookup[d].floor)'
  <2> SUFFICES ASSUME NEW d \in CacheCallers, lookup'[d].pc = "joined"
               PROVE  Awaited(lookup[d].leader, lookup[d].key, lookup[d].floor)'
    BY Zenon
  <2>1. PICK l, k, f : l = lookup'[d].leader /\ k = lookup'[d].key /\ f = lookup'[d].floor
    BY Zenon
  <2>2. Awaited(l, k, f) /\ shared'[l] = shared[l]
    BY <1>10, <2>1, Zenon
  <2>3. ASSUME shared[l].ready, shared[l].val # 0, NEW e \in CacheCallers, lookup'[e].key = k,
               lookup'[e].pc = "primary" \/ (lookup'[e].pc = "leave" /\ lookup'[e].val # 0)
        PROVE  shared[l].val <= lookup'[e].val
    <3>1. CASE e = c
      <4>1. r.pc = "primary" /\ r.key = k /\ lookup'[e] = r
        BY <2>3, <3>1, Zenon
      <4>2. shared[l].val <= source[k]
        BY <2>2, <2>3, Zenon DEF Awaited
      <4> QED
        BY <4>1, <4>2, Zenon
    <3>2. CASE e # c
      <4>1. lookup'[e] = lookup[e]
        BY <3>2, Zenon
      <4> QED
        BY <2>2, <2>3, <4>1, Zenon DEF Awaited
    <3> QED
      BY <3>1, <3>2, Zenon
  <2>4. Awaited(l, k, f)'
    BY <2>2, <2>3, Zenon DEF Awaited
  <2> QED
    BY <2>1, <2>4, Zenon DEF Awaited
<1> QED
  BY <1>2, <1>4, <1>7, <1>9, <1>11, Zenon DEF ValueInv, Awaited

\* Do finds a fresh value, or asks for the group.
LEMMA LookUpStep == ASSUME CacheInv, NEW c \in CacheCallers, NEW k \in CacheKeys, LookUp(c, k) PROVE CacheInv'
<1>1. CASE serveFresh /\ FreshValue(k) # 0
  <2>1. PICK v \in Nat : v = cached[k].val /\ v # 0 /\ FreshValue(k) = v
    BY <1>1, Zenon DEF FreshValue, CacheInv, CacheType
  <2>2. /\ newest' = [newest EXCEPT ![k] = IF v > newest[k] THEN v ELSE newest[k]]
        /\ wentBack' = (wentBack \/ v < newest[k])
        /\ UNCHANGED <<lookup, cacheNow, source, cached, group, shared>>
    BY <1>1, <2>1, Zenon DEF LookUp
  <2>3. newest[k] \in Nat /\ newest[k] <= v
    BY <2>1, Zenon DEF CacheInv, CacheType, ValueInv
  <2>4. newest' = [newest EXCEPT ![k] = v] /\ ~wentBack'
    <3>1. newest' = [newest EXCEPT ![k] = v]
      <4>1. v = IF v > newest[k] THEN v ELSE newest[k]
        BY <2>3
      <4> QED
        BY <2>2, <4>1, Zenon
    <3>2. ~(v < newest[k])
      BY <2>3
    <3> QED
      BY <2>2, <3>1, <3>2, Zenon DEF CacheInv, ValueInv
  <2>5. CacheType'
    BY <2>2, <2>4, ZenonT(60) DEF CacheInv, CacheType
  <2>6. GroupInv'
    BY <2>2, Zenon DEF CacheInv, GroupInv
  <2>7. ValueInv'
    BY <2>1, <2>2, <2>3, <2>4 DEF CacheInv, CacheType, LookupRecords, Leading, GroupInv, ValueInv
  <2> QED
    BY <2>5, <2>6, <2>7, Zenon DEF CacheInv
<1>2. CASE ~(serveFresh /\ FreshValue(k) # 0)
  <2>1. PICK r \in LookupRecords : r = [pc |-> "enter", key |-> k, leader |-> "none", floor |-> newest[k], val |-> 0]
    BY Zenon DEF CacheInv, CacheType, LookupRecords, Leading
  <2>2. lookup' = [lookup EXCEPT ![c] = r] /\ UNCHANGED <<newest, wentBack, cacheNow, source, cached, group, shared>>
    BY <1>2, <2>1, Zenon DEF LookUp, Outside
  <2>3. lookup[c].pc = "out"
    BY Zenon DEF LookUp
  <2>4. CacheType'
    BY <2>1, <2>2, Zenon DEF CacheInv, CacheType
  <2>5. \A d \in CacheCallers : lookup'[d] = IF d = c THEN r ELSE lookup[d]
    BY <2>2, Zenon DEF CacheInv, CacheType
  <2>6. GroupInv'
    BY <2>1, <2>2, <2>3, <2>5, CacheAssumption DEF CacheInv, CacheType, LookupRecords, Leading, GroupInv
  <2>7. ValueInv'
    <3>1. r.pc = "enter" /\ r.key = k /\ r.floor = newest[k] /\ newest[k] <= newest[k]
      BY <2>1 DEF CacheInv, CacheType
    <3> QED
      BY <2>2, <2>5, <3>1, CallerMoves, Zenon
  <2> QED
    BY <2>4, <2>6, <2>7, Zenon DEF CacheInv
<1> QED
  BY <1>1, <1>2, Zenon

\* callGroup.do joins a call or leads one.
LEMMA EnterGroupStep == ASSUME CacheInv, NEW c \in CacheCallers, EnterGroup(c) PROVE CacheInv'
<1>1. PICK k \in CacheKeys : k = lookup[c].key
  BY Zenon DEF EnterGroup, CacheInv, GroupInv
<1>2. lookup[c].pc = "enter" /\ lookup[c] \in LookupRecords /\ UNCHANGED <<cacheNow, source, cached, newest, wentBack>>
  BY Zenon DEF EnterGroup, CacheInv, CacheType
<1>3. \A d \in CacheCallers : lookup[d].leader # c
  BY <1>2, CacheAssumption DEF CacheInv, GroupInv, Leading
<1>4. CASE group[k] = "none"
  <2>1. PICK r \in LookupRecords :
          r.pc = "recheck" /\ r.key = k /\ r.leader = "none" /\ r.floor = lookup[c].floor
            /\ lookup' = [lookup EXCEPT ![c] = r]
    <3>1. lookup' = [lookup EXCEPT ![c] = [lookup[c] EXCEPT !.pc = "recheck", !.leader = "none"]]
      BY <1>1, <1>4, Zenon DEF EnterGroup, CacheInv, CacheType
    <3>2. [lookup[c] EXCEPT !.pc = "recheck", !.leader = "none"] \in LookupRecords
      BY <1>2, Zenon DEF LookupRecords, Leading
    <3> QED
      BY <1>1, <1>2, <3>1, <3>2, Zenon DEF LookupRecords
  <2>2. group' = [group EXCEPT ![k] = c] /\ shared' = [shared EXCEPT ![c] = Pending]
    BY <1>1, <1>4, Zenon DEF EnterGroup
  <2>3. \A d \in CacheCallers : lookup'[d] = IF d = c THEN r ELSE lookup[d]
    BY <2>1, Zenon DEF CacheInv, CacheType
  <2>4. \A d \in CacheCallers : shared'[d] = IF d = c THEN Pending ELSE shared[d]
    BY <2>2, Zenon DEF CacheInv, CacheType
  <2>5. \A j \in CacheKeys : group'[j] = IF j = k THEN c ELSE group[j]
    BY <2>2, Zenon DEF CacheInv, CacheType
  <2>6. CacheType'
    BY <1>2, <2>1, <2>2, Zenon DEF CacheInv, CacheType, Pending
  <2>7. GroupInv'
    BY <1>1, <1>2, <1>3, <1>4, <2>1, <2>3, <2>4, <2>5, CacheAssumption
      DEF CacheInv, CacheType, LookupRecords, Leading, GroupInv, Pending
  <2>8. \A d \in CacheCallers : lookup[d].pc = "joined" =>
           lookup[d].leader \in CacheCallers /\ shared'[lookup[d].leader] = shared[lookup[d].leader]
    BY <1>3, <2>4, Zenon DEF CacheInv, CacheType, LookupRecords, GroupInv
  <2>9. ValueInv'
    <3>1. r.floor <= newest[k]
      BY <1>1, <1>2, <2>1, Zenon DEF CacheInv, ValueInv
    <3> QED
      BY <1>2, <2>1, <2>3, <2>8, <3>1, CallerMoves, Zenon
  <2> QED
    BY <2>6, <2>7, <2>9, Zenon DEF CacheInv
<1>5. CASE group[k] # "none"
  <2>1. PICK l \in CacheCallers : l = group[k] /\ lookup[l].key = k /\ lookup[l].pc \in Leading
    BY <1>5 DEF CacheInv, CacheType, GroupInv
  <2>2. PICK r \in LookupRecords :
          r.pc = "joined" /\ r.key = k /\ r.leader = l /\ r.floor = lookup[c].floor
            /\ lookup' = [lookup EXCEPT ![c] = r]
    <3>1. lookup' = [lookup EXCEPT ![c] = [lookup[c] EXCEPT !.pc = "joined", !.leader = l]]
      BY <1>1, <1>5, <2>1, Zenon DEF EnterGroup, CacheInv, CacheType
    <3>2. [lookup[c] EXCEPT !.pc = "joined", !.leader = l] \in LookupRecords
      BY <1>2, Zenon DEF LookupRecords, Leading
    <3> QED
      BY <1>1, <1>2, <3>1, <3>2, Zenon DEF LookupRecords
  <2>3. UNCHANGED <<group, shared>>
    BY <1>1, <1>5, Zenon DEF EnterGroup
  <2>4. \A d \in CacheCallers : lookup'[d] = IF d = c THEN r ELSE lookup[d]
    BY <2>2, Zenon DEF CacheInv, CacheType
  <2>5. CacheType'
    BY <1>2, <2>2, <2>3, Zenon DEF CacheInv, CacheType
  <2>6. l # c
    BY <1>2, <2>1, Zenon DEF Leading
  <2>7. GroupInv'
    BY <1>1, <1>2, <1>3, <2>1, <2>2, <2>3, <2>4, <2>6, CacheAssumption
      DEF CacheInv, CacheType, LookupRecords, Leading, GroupInv
  <2>8. r.floor <= newest[k] /\ r.floor \in Nat /\ newest[k] \in Nat
    BY <1>1, <1>2, <2>2, Zenon DEF CacheInv, CacheType, ValueInv, LookupRecords
  <2>9. shared[l].ready /\ shared[l].val # 0 =>
          /\ r.floor <= shared[l].val /\ shared[l].val <= source[k]
          /\ cached[k].val # 0 => shared[l].val <= cached[k].val
          /\ \A d \in CacheCallers : lookup[d].key = k
               /\ (lookup[d].pc = "primary" \/ (lookup[d].pc = "leave" /\ lookup[d].val # 0)) => shared[l].val <= lookup[d].val
    <3> SUFFICES ASSUME shared[l].ready, shared[l].val # 0
                 PROVE  /\ r.floor <= shared[l].val /\ shared[l].val <= source[k]
                        /\ cached[k].val # 0 => shared[l].val <= cached[k].val
                        /\ \A d \in CacheCallers : lookup[d].key = k
                             /\ (lookup[d].pc = "primary" \/ (lookup[d].pc = "leave" /\ lookup[d].val # 0)) =>
                               shared[l].val <= lookup[d].val
      BY Zenon
    <3>1. lookup[l].pc = "leave" /\ shared[l].val = lookup[l].val
      BY <2>1, Zenon DEF CacheInv, GroupInv, Leading
    <3>2. /\ newest[k] <= shared[l].val /\ shared[l].val <= source[k] /\ cached[k].val \in {0, shared[l].val}
          /\ shared[l].val \in Nat
      BY <2>1, <3>1, Zenon DEF CacheInv, CacheType, ValueInv
    <3>3. \A d \in CacheCallers : lookup[d].key = k /\ lookup[d].pc \in {"primary", "leave"} => d = l
      BY <2>1 DEF CacheInv, GroupInv, Leading
    <3> QED
      BY <2>8, <3>1, <3>2, <3>3
  <2>10. ValueInv'
    <3>1. Awaited(r.leader, r.key, r.floor)
      BY <2>2, <2>9, Zenon DEF Awaited
    <3> QED
      BY <1>2, <2>2, <2>3, <2>4, <2>8, <3>1, CallerMoves, Zenon
  <2> QED
    BY <2>5, <2>7, <2>10, Zenon DEF CacheInv
<1> QED
  BY <1>4, <1>5, Zenon

\* The leader has a result: v is what the cache holds and as new as what was
\* handed out, or 0.
Delivers(c, k, v) ==
  /\ lookup[c].pc \in {"recheck", "primary"} /\ k = lookup[c].key
  /\ lookup' = [lookup EXCEPT ![c].pc = "leave", ![c].val = v]
  /\ shared' = [shared EXCEPT ![c] = [val |-> v, ready |-> TRUE]]
  /\ UNCHANGED <<cacheNow, source, group, newest, wentBack>>

\* ... and the cache holds it, though another entry may have made room.
Keeps(k, v) ==
  /\ cached' \in [CacheKeys -> [val : Nat, at : Nat]]
  /\ v # 0 => newest[k] <= v /\ v <= source[k] /\ cached'[k].val = v /\ cached[k].val <= v
  /\ v = 0 => cached'[k].val = cached[k].val
  /\ \A j \in CacheKeys : j # k => cached'[j].val \in {0, cached[j].val}

\* Nobody who joined an earlier call of the key waits for a newer value.
NoNewer(c, k, v) ==
  v # 0 => \A d \in CacheCallers :
             lookup[d].pc = "joined" /\ lookup[d].key = k /\ lookup[d].leader # c /\ shared[lookup[d].leader].ready =>
               shared[lookup[d].leader].val <= v

\* The leader's result goes to the cache and to those who joined.
LEMMA ResultStep ==
  ASSUME CacheInv, NEW c \in CacheCallers, NEW k \in CacheKeys, NEW v \in Nat, Delivers(c, k, v), Keeps(k, v), NoNewer(c, k, v)
  PROVE  CacheInv'
<1>1. lookup[c] \in LookupRecords
  BY Zenon DEF CacheInv, CacheType
<1>2. PICK r \in LookupRecords :
        r.pc = "leave" /\ r.key = k /\ r.leader = lookup[c].leader /\ r.floor = lookup[c].floor /\ r.val = v
          /\ lookup' = [lookup EXCEPT ![c] = r]
  <2>1. lookup' = [lookup EXCEPT ![c] = [lookup[c] EXCEPT !.pc = "leave", !.val = v]] /\ k = lookup[c].key
    BY Zenon DEF CacheInv, CacheType, Delivers
  <2>2. [lookup[c] EXCEPT !.pc = "leave", !.val = v] \in LookupRecords
    BY <1>1, Zenon DEF LookupRecords, Leading
  <2> QED
    BY <1>1, <2>1, <2>2, Zenon DEF LookupRecords
<1>3. \A d \in CacheCallers : lookup'[d] = IF d = c THEN r ELSE lookup[d]
  BY <1>2, Zenon DEF CacheInv, CacheType
<1>4. \A d \in CacheCallers : shared'[d] = IF d = c THEN [val |-> v, ready |-> TRUE] ELSE shared[d]
  BY Zenon DEF CacheInv, CacheType, Delivers
<1>5. lookup[c].pc \in {"recheck", "primary"} /\ k = lookup[c].key /\ UNCHANGED <<cacheNow, source, group, newest, wentBack>>
  BY Zenon DEF Delivers
<1>6. CacheType'
  BY <1>2, <1>5, ZenonT(60) DEF CacheInv, CacheType, Delivers, Keeps
<1>7. GroupInv'
  BY <1>2, <1>3, <1>4, <1>5 DEF CacheInv, CacheType, LookupRecords, Leading, GroupInv
<1>8. \A d \in CacheCallers : lookup[d].pc = "joined" => lookup[d].leader \in CacheCallers
  BY Zenon DEF CacheInv, CacheType, LookupRecords, GroupInv
<1>9. \A d \in CacheCallers : lookup[d].pc = "joined" /\ lookup[d].leader = c => lookup[d].key = k
  BY <1>5 DEF CacheInv, GroupInv, Leading
<1>10. \A d \in CacheCallers : lookup[d].pc \in {"primary", "leave"} /\ lookup[d].key = k => d = c
  BY <1>5 DEF CacheInv, GroupInv, Leading
<1>11. \A j \in CacheKeys : newest[j] \in Nat /\ source[j] \in Nat /\ cached[j].val \in Nat /\ cached'[j].val \in Nat
  BY Zenon DEF CacheInv, CacheType, Keeps
<1>12. /\ ~wentBack'
       /\ \A j \in CacheKeys : newest'[j] <= source'[j] /\ cached'[j].val <= source'[j]
       /\ \A j \in CacheKeys : cached'[j].val # 0 => newest'[j] <= cached'[j].val
  BY <1>11, <1>5 DEF CacheInv, ValueInv, Keeps
<1>13. \A d \in CacheCallers : lookup'[d].pc \in Leading \cup {"enter", "joined"} => lookup'[d].floor <= newest'[lookup'[d].key]
  BY <1>2, <1>3, <1>5 DEF CacheInv, ValueInv, Leading
<1>14. \A d \in CacheCallers : lookup'[d].pc = "primary" =>
         newest'[lookup'[d].key] <= lookup'[d].val /\ cached'[lookup'[d].key].val <= lookup'[d].val
           /\ lookup'[d].val <= source'[lookup'[d].key]
  <2> SUFFICES ASSUME NEW d \in CacheCallers, lookup'[d].pc = "primary"
               PROVE  newest[lookup'[d].key] <= lookup'[d].val /\ cached'[lookup'[d].key].val <= lookup'[d].val
                        /\ lookup'[d].val <= source[lookup'[d].key]
    BY <1>5, Zenon
  <2>1. d # c /\ lookup'[d] = lookup[d] /\ lookup[d].key # k /\ lookup[d].key \in CacheKeys /\ lookup[d].val \in Nat
    BY <1>2, <1>3, <1>10 DEF CacheInv, CacheType, LookupRecords, GroupInv, Leading
  <2>2. cached'[lookup[d].key].val \in {0, cached[lookup[d].key].val}
    BY <2>1, Zenon DEF Keeps
  <2> QED
    BY <2>1, <2>2 DEF CacheInv, ValueInv
<1>15. \A d \in CacheCallers : lookup'[d].pc = "leave" /\ lookup'[d].val # 0 =>
         newest'[lookup'[d].key] <= lookup'[d].val /\ cached'[lookup'[d].key].val \in {0, lookup'[d].val}
           /\ lookup'[d].val <= source'[lookup'[d].key]
  <2> SUFFICES ASSUME NEW d \in CacheCallers, lookup'[d].pc = "leave", lookup'[d].val # 0
               PROVE  newest[lookup'[d].key] <= lookup'[d].val /\ cached'[lookup'[d].key].val \in {0, lookup'[d].val}
                        /\ lookup'[d].val <= source[lookup'[d].key]
    BY <1>5, Zenon
  <2>1. CASE d = c
    BY <1>2, <1>3, <2>1, ZenonT(60) DEF Keeps
  <2>2. CASE d # c
    <3>1. lookup'[d] = lookup[d] /\ lookup[d].key # k /\ lookup[d].key \in CacheKeys
      BY <1>3, <1>10, <2>2 DEF CacheInv, GroupInv, Leading
    <3>2. cached'[lookup[d].key].val \in {0, cached[lookup[d].key].val}
      BY <3>1, Zenon DEF Keeps
    <3> QED
      BY <3>1, <3>2, Zenon DEF CacheInv, ValueInv
  <2> QED
    BY <2>1, <2>2, Zenon
<1>16. \A d \in CacheCallers :
         lookup'[d].pc = "joined" /\ shared'[lookup'[d].leader].ready /\ shared'[lookup'[d].leader].val # 0 =>
           /\ lookup'[d].floor <= shared'[lookup'[d].leader].val
           /\ shared'[lookup'[d].leader].val <= source'[lookup'[d].key]
           /\ cached'[lookup'[d].key].val # 0 => shared'[lookup'[d].leader].val <= cached'[lookup'[d].key].val
           /\ \A e \in CacheCallers : lookup'[e].key = lookup'[d].key
                /\ (lookup'[e].pc = "primary" \/ (lookup'[e].pc = "leave" /\ lookup'[e].val # 0)) =>
                  shared'[lookup'[d].leader].val <= lookup'[e].val
  <2> SUFFICES ASSUME NEW d \in CacheCallers, lookup'[d].pc = "joined",
                      shared'[lookup'[d].leader].ready, shared'[lookup'[d].leader].val # 0
               PROVE  /\ lookup'[d].floor <= shared'[lookup'[d].leader].val
                      /\ shared'[lookup'[d].leader].val <= source[lookup'[d].key]
                      /\ cached'[lookup'[d].key].val # 0 => shared'[lookup'[d].leader].val <= cached'[lookup'[d].key].val
                      /\ \A e \in CacheCallers : lookup'[e].key = lookup'[d].key
                           /\ (lookup'[e].pc = "primary" \/ (lookup'[e].pc = "leave" /\ lookup'[e].val # 0)) =>
                             shared'[lookup'[d].leader].val <= lookup'[e].val
    BY <1>5, Zenon
  <2>1. d # c /\ lookup'[d] = lookup[d] /\ lookup[d].pc = "joined"
    BY <1>2, <1>3, Zenon
  <2>2. PICK l \in CacheCallers, j \in CacheKeys, f \in Nat : l = lookup[d].leader /\ j = lookup[d].key /\ f = lookup[d].floor
    BY <1>8, <2>1, Zenon DEF CacheInv, CacheType, LookupRecords, GroupInv
  <2>3. f <= newest[j]
    BY <2>1, <2>2, Zenon DEF CacheInv, ValueInv
  <2>4. CASE l = c
    <3>1. j = k /\ shared'[l].val = v /\ v # 0
      <4>1. shared'[l].val = v
        BY <1>4, <2>4
      <4>2. shared'[l].val # 0
        BY <2>1, <2>2, Zenon
      <4> QED
        BY <1>9, <2>1, <2>2, <2>4, <4>1, <4>2, Zenon
    <3>2. \A e \in CacheCallers : lookup'[e].key = k /\ lookup'[e].pc \in {"primary", "leave"} => e = c
      BY <1>3, <1>10, Zenon
    <3>3. f <= v
      BY <1>11, <2>3, <3>1 DEF Keeps
    <3>4. v <= source[k] /\ cached'[k].val = v
      BY <3>1, Zenon DEF Keeps
    <3>5. \A e \in CacheCallers : lookup'[e].key = k /\ lookup'[e].pc \in {"primary", "leave"} => v <= lookup'[e].val
      BY <1>2, <1>3, <3>2
    <3> QED
      BY <2>1, <2>2, <3>1, <3>3, <3>4, <3>5
  <2>5. CASE l # c
    <3>1. shared'[l] = shared[l] /\ shared[l].ready /\ shared[l].val # 0 /\ shared[l].val \in Nat
      BY <1>4, <2>1, <2>2, <2>5, Zenon DEF CacheInv, CacheType
    <3>2. /\ f <= shared[l].val /\ shared[l].val <= source[j]
          /\ cached[j].val # 0 => shared[l].val <= cached[j].val
          /\ \A e \in CacheCallers : lookup[e].key = j
               /\ (lookup[e].pc = "primary" \/ (lookup[e].pc = "leave" /\ lookup[e].val # 0)) => shared[l].val <= lookup[e].val
      BY <2>1, <2>2, <3>1, Zenon DEF CacheInv, ValueInv
    <3>3. cached'[j].val # 0 => shared[l].val <= cached'[j].val
      <4>1. CASE j # k
        BY <3>2, <4>1, Zenon DEF Keeps
      <4>2. CASE j = k
        BY <2>1, <2>2, <2>5, <3>1, <3>2, <4>2, ZenonT(60) DEF Keeps, NoNewer
      <4> QED
        BY <4>1, <4>2, Zenon
    <3>4. \A e \in CacheCallers : lookup'[e].key = j
               /\ (lookup'[e].pc = "primary" \/ (lookup'[e].pc = "leave" /\ lookup'[e].val # 0)) => shared[l].val <= lookup'[e].val
      <4>1. j = k /\ v # 0 => shared[l].val <= v
        BY <2>1, <2>2, <2>5, <3>1, Zenon DEF NoNewer
      <4> QED
        BY <1>2, <1>3, <3>2, <4>1
    <3> QED
      BY <2>1, <2>2, <3>1, <3>2, <3>3, <3>4, Zenon
  <2> QED
    BY <2>4, <2>5, Zenon
<1>17. ValueInv'
  BY <1>12, <1>13, <1>14, <1>15, <1>16, Zenon DEF ValueInv
<1> QED
  BY <1>6, <1>7, <1>17, Zenon DEF CacheInv

\* The leader finds a fresh value after all, or asks the primary.
LEMMA RecheckStep == ASSUME CacheInv, NEW c \in CacheCallers, LeaderRecheck(c) PROVE CacheInv'
<1>1. PICK k \in CacheKeys : k = lookup[c].key
  BY Zenon DEF LeaderRecheck, CacheInv, GroupInv, Leading
<1>2. lookup[c].pc = "recheck" /\ lookup[c] \in LookupRecords /\ UNCHANGED <<cacheNow, source, cached, group, newest, wentBack>>
  BY Zenon DEF LeaderRecheck, CacheInv, CacheType
<1>3. CASE serveFresh /\ FreshValue(k) # 0
  <2>1. PICK v \in Nat : v = cached[k].val /\ v # 0 /\ FreshValue(k) = v
    BY <1>3, Zenon DEF FreshValue, CacheInv, CacheType
  <2>2. Delivers(c, k, v)
    BY <1>1, <1>2, <1>3, <2>1, Zenon DEF LeaderRecheck, Delivers
  <2>3. Keeps(k, v)
    BY <1>2, <2>1 DEF Keeps, CacheInv, CacheType, ValueInv
  <2>4. NoNewer(c, k, v)
    <3> SUFFICES ASSUME NEW d \in CacheCallers, lookup[d].pc = "joined", lookup[d].key = k, shared[lookup[d].leader].ready
                 PROVE  shared[lookup[d].leader].val <= v
      BY Zenon DEF NoNewer
    <3>1. lookup[d].leader \in CacheCallers
      BY DEF CacheInv, CacheType, GroupInv, LookupRecords
    <3> QED
      BY <2>1, <3>1 DEF CacheInv, CacheType, ValueInv
  <2> QED
    BY <2>2, <2>3, <2>4, ResultStep, Zenon
<1>4. CASE ~(serveFresh /\ FreshValue(k) # 0)
  <2>1. PICK w \in Nat : w = source[k]
    BY Zenon DEF CacheInv, CacheType
  <2>2. PICK r \in LookupRecords :
          r.pc = "primary" /\ r.key = k /\ r.leader = lookup[c].leader /\ r.floor = lookup[c].floor /\ r.val = w
            /\ lookup' = [lookup EXCEPT ![c] = r]
    <3>1. lookup' = [lookup EXCEPT ![c] = [lookup[c] EXCEPT !.pc = "primary", !.val = w]]
      BY <1>1, <1>4, <2>1, Zenon DEF LeaderRecheck, CacheInv, CacheType
    <3>2. [lookup[c] EXCEPT !.pc = "primary", !.val = w] \in LookupRecords
      BY <1>2, Zenon DEF LookupRecords, Leading
    <3> QED
      BY <1>1, <1>2, <3>1, <3>2, Zenon DEF LookupRecords
  <2>3. UNCHANGED shared
    BY <1>1, <1>4, Zenon DEF LeaderRecheck
  <2>4. \A d \in CacheCallers : lookup'[d] = IF d = c THEN r ELSE lookup[d]
    BY <2>2, Zenon DEF CacheInv, CacheType
  <2>5. CacheType'
    BY <1>2, <2>2, <2>3, Zenon DEF CacheInv, CacheType
  <2>6. GroupInv'
    BY <1>1, <1>2, <2>2, <2>3, <2>4 DEF CacheInv, CacheType, LookupRecords, Leading, GroupInv
  <2>7. \A d \in CacheCallers : lookup[d].pc = "joined" => lookup[d].leader \in CacheCallers
    BY ZenonT(60) DEF CacheInv, CacheType, LookupRecords, GroupInv
  <2>8. ValueInv'
    <3>1. r.floor <= newest[k]
      BY <1>1, <1>2, <2>2, Zenon DEF CacheInv, ValueInv, Leading
    <3> QED
      BY <1>2, <2>1, <2>2, <2>3, <2>4, <3>1, CallerMoves, Zenon
  <2> QED
    BY <2>5, <2>6, <2>8, Zenon DEF CacheInv
<1> QED
  BY <1>3, <1>4, Zenon

\* storeValue keeps the value; another entry may make room.
LEMMA StoreKeeps ==
  ASSUME CacheType, NEW k \in CacheKeys, NEW v \in Nat, StoreValue(k, v)
  PROVE  /\ cached' \in [CacheKeys -> [val : Nat, at : Nat]] /\ cached'[k].val = v
         /\ \A j \in CacheKeys : j # k => cached'[j].val \in {0, cached[j].val}
<1>1. PICK e \in [val : Nat, at : Nat] : e = [val |-> v, at |-> cacheNow]
  BY Zenon DEF CacheType
<1>2. PICK next \in [CacheKeys -> [val : Nat, at : Nat]] : next = [cached EXCEPT ![k] = e]
  BY <1>1, Zenon DEF CacheType
<1>3. next[k].val = v /\ \A j \in CacheKeys : j # k => next[j] = cached[j]
  BY <1>1, <1>2, Zenon DEF CacheType
<1>4. cached' = next \/ \E j \in CacheKeys : j # k /\ cached' = [next EXCEPT ![j] = Missing]
  BY <1>1, <1>2, Zenon DEF StoreValue
<1>5. Missing \in [val : Nat, at : Nat] /\ Missing.val = 0
  BY Zenon DEF Missing
<1> QED
  BY <1>2, <1>3, <1>4, <1>5

\* The primary answers.
LEMMA PrimaryStep == ASSUME CacheInv, NEW c \in CacheCallers, NEW ok \in BOOLEAN, PrimaryReturns(c, ok) PROVE CacheInv'
<1>1. PICK k \in CacheKeys : k = lookup[c].key
  BY Zenon DEF PrimaryReturns, CacheInv, GroupInv, Leading
<1>2. lookup[c].pc = "primary" /\ lookup[c].val \in Nat /\ UNCHANGED <<cacheNow, source, group, newest, wentBack>>
  BY Zenon DEF PrimaryReturns, CacheInv, CacheType, LookupRecords
<1>3. PICK v \in Nat : v = IF ok THEN lookup[c].val ELSE StaleValue(k)
  BY <1>2, Zenon DEF StaleValue, CacheInv, CacheType
<1>4. Delivers(c, k, v)
  BY <1>1, <1>2, <1>3, Zenon DEF PrimaryReturns, Delivers
<1>5. \A d \in CacheCallers : lookup[d].pc = "joined" => lookup[d].leader \in CacheCallers
  BY DEF CacheInv, CacheType, LookupRecords, GroupInv
<1>6. CASE ok
  <2>1. v = lookup[c].val /\ StoreValue(k, v)
    BY <1>1, <1>3, <1>6, Zenon DEF PrimaryReturns
  <2>2. newest[k] <= v /\ v <= source[k] /\ cached[k].val <= v /\ cached[k].val \in Nat
    BY <1>1, <1>2, <2>1, Zenon DEF CacheInv, CacheType, ValueInv
  <2>3. Keeps(k, v)
    BY <2>1, <2>2, StoreKeeps DEF CacheInv, Keeps
  <2>4. NoNewer(c, k, v)
    <3> SUFFICES ASSUME NEW d \in CacheCallers, lookup[d].pc = "joined", lookup[d].key = k, shared[lookup[d].leader].ready
                 PROVE  shared[lookup[d].leader].val <= v
      BY Zenon DEF NoNewer
    <3>1. shared[lookup[d].leader].val \in Nat
      BY <1>5, Zenon DEF CacheInv, CacheType
    <3> QED
      BY <1>1, <1>2, <2>1, <3>1 DEF CacheInv, ValueInv
  <2> QED
    BY <1>4, <2>3, <2>4, ResultStep, Zenon
<1>7. CASE ~ok
  <2>1. UNCHANGED cached /\ (v # 0 => v = cached[k].val)
    BY <1>3, <1>7, Zenon DEF PrimaryReturns, StaleValue
  <2>2. Keeps(k, v)
    BY <2>1 DEF Keeps, CacheInv, CacheType, ValueInv
  <2>3. NoNewer(c, k, v)
    <3> SUFFICES ASSUME v # 0, NEW d \in CacheCallers, lookup[d].pc = "joined", lookup[d].key = k, shared[lookup[d].leader].ready
                 PROVE  shared[lookup[d].leader].val <= v
      BY Zenon DEF NoNewer
    <3>1. shared[lookup[d].leader].val \in Nat
      BY <1>5, Zenon DEF CacheInv, CacheType
    <3> QED
      BY <2>1, <3>1 DEF CacheInv, ValueInv
  <2> QED
    BY <1>4, <2>2, <2>3, ResultStep
<1> QED
  BY <1>6, <1>7, Zenon

\* A caller returns a value that is neither older than what was handed out
\* before it asked nor newer than what the cache has or a leader brings.
LEMMA ReturnValues ==
  ASSUME CacheInv, NEW c \in CacheCallers, NEW k \in CacheKeys, k = lookup[c].key, NEW v \in Nat, CacheReturn(c, v),
         UNCHANGED <<source, cached, shared>>,
         v # 0 => lookup[c].floor <= v /\ v <= source[k] /\ (cached[k].val # 0 => v <= cached[k].val),
         v # 0 => \A d \in CacheCallers : d # c /\ lookup[d].key = k
                    /\ (lookup[d].pc = "primary" \/ (lookup[d].pc = "leave" /\ lookup[d].val # 0)) => v <= lookup[d].val
  PROVE  /\ newest' \in [CacheKeys -> Nat] /\ lookup' \in [CacheCallers -> LookupRecords]
         /\ lookup'[c] = [pc |-> "returned", key |-> "none", leader |-> "none", floor |-> 0, val |-> 0]
         /\ \A d \in CacheCallers : d # c => lookup'[d] = lookup[d]
         /\ ValueInv'
<1>1. PICK r \in LookupRecords : r = [pc |-> "returned", key |-> "none", leader |-> "none", floor |-> 0, val |-> 0]
  BY Zenon DEF LookupRecords, Leading
<1>2. lookup' = [lookup EXCEPT ![c] = r]
  <2>1. [Outside EXCEPT !.pc = "returned"] = r
    BY <1>1 DEF Outside
  <2> QED
    BY <2>1, Zenon DEF CacheReturn
<1>3. lookup' \in [CacheCallers -> LookupRecords] /\ \A d \in CacheCallers : lookup'[d] = IF d = c THEN r ELSE lookup[d]
  BY <1>2, Zenon DEF CacheInv, CacheType
<1>4. newest[k] \in Nat /\ lookup[c].floor \in Nat
  BY Zenon DEF CacheInv, CacheType, LookupRecords
<1>5. PICK n \in Nat : n = IF v > newest[k] THEN v ELSE newest[k]
  BY <1>4, Zenon
<1>6. newest' = [newest EXCEPT ![k] = n]
  BY <1>5, Zenon DEF CacheReturn
<1>7. newest' \in [CacheKeys -> Nat] /\ \A j \in CacheKeys : newest'[j] = IF j = k THEN n ELSE newest[j]
  BY <1>6, Zenon DEF CacheInv, CacheType
<1>8. ~wentBack'
  <2>1. ~(v # 0 /\ v < lookup[c].floor)
    BY <1>4
  <2> QED
    BY <2>1, Zenon DEF CacheReturn, CacheInv, ValueInv
<1>9. \A j \in CacheKeys : newest'[j] \in Nat /\ newest'[j] >= newest[j] /\ newest'[j] <= source[j]
        /\ (cached[j].val # 0 => newest'[j] <= cached[j].val)
  BY <1>4, <1>5, <1>7 DEF CacheInv, CacheType, ValueInv
<1>10. \A d \in CacheCallers : lookup'[d].pc \in Leading \cup {"enter", "joined"} => lookup'[d].floor <= newest'[lookup'[d].key]
  BY <1>1, <1>3, <1>9 DEF CacheInv, CacheType, LookupRecords, GroupInv, ValueInv, Leading
<1>11. \A d \in CacheCallers : lookup'[d].pc = "primary" \/ (lookup'[d].pc = "leave" /\ lookup'[d].val # 0) =>
         d # c /\ lookup[d].key \in CacheKeys /\ newest'[lookup[d].key] <= lookup[d].val
  <2> SUFFICES ASSUME NEW d \in CacheCallers, lookup'[d].pc = "primary" \/ (lookup'[d].pc = "leave" /\ lookup'[d].val # 0)
               PROVE  d # c /\ lookup[d].key \in CacheKeys /\ newest'[lookup[d].key] <= lookup[d].val
    BY Zenon
  <2>1. d # c /\ lookup'[d] = lookup[d] /\ lookup[d].key \in CacheKeys /\ lookup[d].val \in Nat
    BY <1>1, <1>3 DEF CacheInv, CacheType, LookupRecords, GroupInv, Leading
  <2>2. newest[lookup[d].key] <= lookup[d].val
    BY <2>1, Zenon DEF CacheInv, ValueInv
  <2> QED
    BY <1>4, <1>5, <1>7, <2>1, <2>2
<1>12. \A d \in CacheCallers : d # c => lookup'[d] = lookup[d]
  BY <1>3, Zenon
<1>13. \A d \in CacheCallers : lookup'[d].pc = "primary" =>
         newest'[lookup'[d].key] <= lookup'[d].val /\ cached[lookup'[d].key].val <= lookup'[d].val
           /\ lookup'[d].val <= source[lookup'[d].key]
  BY <1>11, <1>12, Zenon DEF CacheInv, ValueInv
<1>14. \A d \in CacheCallers : lookup'[d].pc = "leave" /\ lookup'[d].val # 0 =>
         newest'[lookup'[d].key] <= lookup'[d].val /\ cached[lookup'[d].key].val \in {0, lookup'[d].val}
           /\ lookup'[d].val <= source[lookup'[d].key]
  BY <1>11, <1>12, ZenonT(60) DEF CacheInv, ValueInv
<1>15. \A d \in CacheCallers : lookup'[d].pc = "joined" => d # c
  <2>1. r.pc # "joined"
    BY <1>1, ReturnedCall, Zenon
  <2> QED
    BY <1>3, <2>1, Zenon
<1>16. \A d \in CacheCallers :
         lookup'[d].pc = "joined" /\ shared[lookup'[d].leader].ready /\ shared[lookup'[d].leader].val # 0 =>
           /\ lookup'[d].floor <= shared[lookup'[d].leader].val
           /\ shared[lookup'[d].leader].val <= source[lookup'[d].key]
           /\ cached[lookup'[d].key].val # 0 => shared[lookup'[d].leader].val <= cached[lookup'[d].key].val
           /\ \A e \in CacheCallers : lookup'[e].key = lookup'[d].key
                /\ (lookup'[e].pc = "primary" \/ (lookup'[e].pc = "leave" /\ lookup'[e].val # 0)) =>
                  shared[lookup'[d].leader].val <= lookup'[e].val
  <2> SUFFICES ASSUME NEW d \in CacheCallers, lookup'[d].pc = "joined", shared[lookup'[d].leader].ready,
                      shared[lookup'[d].leader].val # 0
               PROVE  /\ lookup'[d].floor <= shared[lookup'[d].leader].val
                      /\ shared[lookup'[d].leader].val <= source[lookup'[d].key]
                      /\ cached[lookup'[d].key].val # 0 => shared[lookup'[d].leader].val <= cached[lookup'[d].key].val
                      /\ \A e \in CacheCallers : lookup'[e].key = lookup'[d].key
                           /\ (lookup'[e].pc = "primary" \/ (lookup'[e].pc = "leave" /\ lookup'[e].val # 0)) =>
                             shared[lookup'[d].leader].val <= lookup'[e].val
    BY Zenon
  <2>1. lookup'[d] = lookup[d]
    BY <1>12, <1>15, Zenon
  <2>2. /\ lookup[d].floor <= shared[lookup[d].leader].val
        /\ shared[lookup[d].leader].val <= source[lookup[d].key]
        /\ cached[lookup[d].key].val # 0 => shared[lookup[d].leader].val <= cached[lookup[d].key].val
        /\ \A e \in CacheCallers : lookup[e].key = lookup[d].key
             /\ (lookup[e].pc = "primary" \/ (lookup[e].pc = "leave" /\ lookup[e].val # 0)) =>
               shared[lookup[d].leader].val <= lookup[e].val
    BY <2>1, ZenonT(60) DEF CacheInv, ValueInv
  <2> QED
    BY <1>11, <1>12, <2>1, <2>2, ZenonT(60)
<1>17. ValueInv'
  BY <1>8, <1>9, <1>10, <1>13, <1>14, <1>16, Zenon DEF CacheInv, ValueInv
<1> QED
  BY <1>1, <1>3, <1>7, <1>17, Zenon

\* The leader takes its call out and returns.
LEMMA LeaveGroupStep == ASSUME CacheInv, NEW c \in CacheCallers, LeaveGroup(c) PROVE CacheInv'
<1>1. PICK k \in CacheKeys : k = lookup[c].key
  BY Zenon DEF LeaveGroup, CacheInv, GroupInv, Leading
<1>2. PICK v \in Nat : v = lookup[c].val /\ CacheReturn(c, v)
  BY Zenon DEF LeaveGroup, CacheInv, CacheType, LookupRecords
<1>3. lookup[c].pc = "leave" /\ group[k] = c /\ UNCHANGED <<cacheNow, source, cached, shared>>
  BY <1>1, Zenon DEF LeaveGroup, CacheInv, GroupInv, Leading
<1>4. group' = [group EXCEPT ![k] = "none"]
  BY <1>1, <1>3, Zenon DEF LeaveGroup
<1>5. v # 0 => lookup[c].floor <= v /\ v <= source[k] /\ (cached[k].val # 0 => v <= cached[k].val)
  <2>1. newest[k] \in Nat /\ lookup[c].floor \in Nat /\ lookup[c].floor <= newest[k]
    BY <1>1, <1>3, Zenon DEF CacheInv, CacheType, LookupRecords, ValueInv, Leading
  <2>2. v # 0 => newest[k] <= v /\ v <= source[k] /\ cached[k].val \in {0, v}
    BY <1>1, <1>2, <1>3, Zenon DEF CacheInv, ValueInv
  <2> QED
    BY <2>1, <2>2
<1>6. \A d \in CacheCallers : lookup[d].pc \in Leading /\ lookup[d].key = k => d = c
  BY <1>3, ZenonT(60) DEF CacheInv, GroupInv
<1>7. v # 0 => \A d \in CacheCallers : d # c /\ lookup[d].key = k
        /\ (lookup[d].pc = "primary" \/ (lookup[d].pc = "leave" /\ lookup[d].val # 0)) => v <= lookup[d].val
  BY <1>6, Zenon DEF Leading
<1>8. /\ newest' \in [CacheKeys -> Nat] /\ lookup' \in [CacheCallers -> LookupRecords]
      /\ lookup'[c] = [pc |-> "returned", key |-> "none", leader |-> "none", floor |-> 0, val |-> 0]
      /\ \A d \in CacheCallers : d # c => lookup'[d] = lookup[d]
      /\ ValueInv'
  BY <1>1, <1>2, <1>3, <1>5, <1>7, ReturnValues
<1>9. CacheType'
  BY <1>3, <1>4, <1>8, Zenon DEF CacheInv, CacheType
<1>10. \A j \in CacheKeys : group'[j] = IF j = k THEN "none" ELSE group[j]
  BY <1>4, Zenon DEF CacheInv, CacheType
<1>11. GroupInv'
  <2>1. \A d \in CacheCallers : lookup[d].pc \in Leading /\ d # c => lookup[d].key # k /\ lookup[d].key \in CacheKeys
    BY <1>6, Zenon DEF CacheInv, GroupInv
  <2>2. \A j \in CacheKeys : j # k => group[j] # c /\ group[j] \in CacheCallers \cup {"none"}
    BY <1>1, CacheAssumption DEF CacheInv, CacheType, GroupInv
  <2>3. \A d \in CacheCallers : lookup[d].pc = "joined" => lookup[d].leader \in CacheCallers
    BY DEF CacheInv, CacheType, LookupRecords, GroupInv
  <2>4. /\ \A d \in CacheCallers : lookup'[d].pc \in Leading \cup {"enter", "joined"} => lookup'[d].key \in CacheKeys
        /\ \A d \in CacheCallers : lookup'[d].pc \in Leading => group'[lookup'[d].key] = d
        /\ \A j \in CacheKeys : group'[j] # "none" => lookup'[group'[j]].key = j /\ lookup'[group'[j]].pc \in Leading
    BY <1>8, <1>10, <2>1, <2>2, CacheAssumption DEF CacheInv, GroupInv, Leading
  <2>5. /\ \A d \in CacheCallers : lookup'[d].pc \in {"recheck", "primary", "panicked"} => ~shared'[d].ready
        /\ \A d \in CacheCallers : lookup'[d].pc = "leave" => shared'[d].ready /\ shared'[d].val = lookup'[d].val
    BY <1>3, <1>8 DEF CacheInv, GroupInv
  <2>6. /\ \A d \in CacheCallers : lookup'[d].leader # "none" <=> lookup'[d].pc = "joined"
        /\ \A d \in CacheCallers : lookup'[d].pc = "joined" =>
             \/ lookup'[lookup'[d].leader].pc \in Leading /\ lookup'[lookup'[d].leader].key = lookup'[d].key
             \/ lookup'[lookup'[d].leader].pc = "returned" /\ shared'[lookup'[d].leader].ready
    BY <1>3, <1>8, <2>3 DEF CacheInv, GroupInv, Leading
  <2> QED
    BY <2>4, <2>5, <2>6, Zenon DEF GroupInv
<1> QED
  BY <1>8, <1>9, <1>11, Zenon DEF CacheInv

\* Who joined a call returns its result.
LEMMA JoinedStep == ASSUME CacheInv, NEW c \in CacheCallers, Joined(c) PROVE CacheInv'
<1>1. PICK k \in CacheKeys : k = lookup[c].key
  BY Zenon DEF Joined, CacheInv, GroupInv
<1>2. lookup[c].pc = "joined" /\ UNCHANGED <<cacheNow, source, cached, group, shared>>
  BY Zenon DEF Joined
<1>3. PICK l \in CacheCallers : l = lookup[c].leader
  BY <1>2, Zenon DEF CacheInv, CacheType, LookupRecords, GroupInv
<1>4. PICK v \in Nat : v = shared[l].val /\ CacheReturn(c, v)
  BY <1>3, Zenon DEF Joined, CacheInv, CacheType
<1>5. shared[l].ready
  BY <1>3, Zenon DEF Joined
<1>6. /\ v # 0 => lookup[c].floor <= v /\ v <= source[k] /\ (cached[k].val # 0 => v <= cached[k].val)
      /\ v # 0 => \A d \in CacheCallers : d # c /\ lookup[d].key = k
          /\ (lookup[d].pc = "primary" \/ (lookup[d].pc = "leave" /\ lookup[d].val # 0)) => v <= lookup[d].val
  BY <1>1, <1>2, <1>3, <1>4, <1>5, Zenon DEF CacheInv, ValueInv
<1>7. /\ newest' \in [CacheKeys -> Nat] /\ lookup' \in [CacheCallers -> LookupRecords]
      /\ lookup'[c] = [pc |-> "returned", key |-> "none", leader |-> "none", floor |-> 0, val |-> 0]
      /\ \A d \in CacheCallers : d # c => lookup'[d] = lookup[d]
      /\ ValueInv'
  BY <1>1, <1>2, <1>4, <1>6, ReturnValues, ZenonT(60)
<1>8. CacheType'
  BY <1>2, <1>7, Zenon DEF CacheInv, CacheType
<1>9. GroupInv'
  <2>0. group' = group /\ shared' = shared
    BY <1>2, Zenon
  <2>1. \A d \in CacheCallers : lookup[d].pc = "joined" => lookup[d].leader \in CacheCallers /\ lookup[d].leader # c
    BY <1>2 DEF CacheInv, CacheType, LookupRecords, GroupInv, Leading
  <2>2. \A j \in CacheKeys : group[j] # c /\ group[j] \in CacheCallers \cup {"none"}
    BY <1>2, CacheAssumption DEF CacheInv, CacheType, GroupInv, Leading
  <2>3. \A d \in CacheCallers : lookup'[d].pc \in Leading \cup {"enter", "joined"} => lookup'[d] = lookup[d]
    <3>1. lookup'[c].pc \notin Leading \cup {"enter", "joined"}
      BY <1>7, ReturnedCall, Zenon
    <3> QED
      BY <1>7, <3>1, Zenon
  <2>4. /\ \A d \in CacheCallers : lookup'[d].pc \in Leading \cup {"enter", "joined"} => lookup'[d].key \in CacheKeys
        /\ \A d \in CacheCallers : lookup'[d].pc \in Leading => group'[lookup'[d].key] = d
    BY <2>0, <2>3, Zenon DEF CacheInv, GroupInv
  <2>5. \A j \in CacheKeys : group[j] # "none" => group[j] \in CacheCallers /\ lookup'[group[j]] = lookup[group[j]]
    BY <1>7, <2>2, Zenon
  <2>6. \A j \in CacheKeys : group'[j] # "none" => lookup'[group'[j]].key = j /\ lookup'[group'[j]].pc \in Leading
    <3>1. \A j \in CacheKeys : group[j] # "none" => lookup[group[j]].key = j /\ lookup[group[j]].pc \in Leading
      BY Zenon DEF CacheInv, GroupInv
    <3> QED
      BY <2>0, <2>5, <3>1, Zenon
  <2>7. /\ \A d \in CacheCallers : lookup'[d].pc \in {"recheck", "primary", "panicked"} => ~shared'[d].ready
        /\ \A d \in CacheCallers : lookup'[d].pc = "leave" => shared'[d].ready /\ shared'[d].val = lookup'[d].val
    <3>1. /\ \A d \in CacheCallers : lookup[d].pc \in {"recheck", "primary", "panicked"} => ~shared[d].ready
          /\ \A d \in CacheCallers : lookup[d].pc = "leave" => shared[d].ready /\ shared[d].val = lookup[d].val
      BY Zenon DEF CacheInv, GroupInv
    <3>2. {"recheck", "primary", "panicked"} \subseteq Leading /\ "leave" \in Leading
      BY Zenon DEF Leading
    <3> QED
      BY <2>0, <2>3, <3>1, <3>2, Zenon
  <2>8. \A d \in CacheCallers : lookup'[d].leader # "none" <=> lookup'[d].pc = "joined"
    <3>1. lookup'[c].leader = "none" /\ lookup'[c].pc # "joined"
      BY <1>7, ReturnedCall, Zenon
    <3>2. \A d \in CacheCallers : lookup[d].leader # "none" <=> lookup[d].pc = "joined"
      BY Zenon DEF CacheInv, GroupInv
    <3> QED
      BY <1>7, <3>1, <3>2, Zenon
  <2>9. \A d \in CacheCallers : lookup'[d].pc = "joined" =>
          \/ lookup'[lookup'[d].leader].pc \in Leading /\ lookup'[lookup'[d].leader].key = lookup'[d].key
          \/ lookup'[lookup'[d].leader].pc = "returned" /\ shared'[lookup'[d].leader].ready
    <3>1. \A d \in CacheCallers : lookup[d].pc = "joined" =>
            \/ lookup[lookup[d].leader].pc \in Leading /\ lookup[lookup[d].leader].key = lookup[d].key
            \/ lookup[lookup[d].leader].pc = "returned" /\ shared[lookup[d].leader].ready
      BY Zenon DEF CacheInv, GroupInv
    <3>2. \A d \in CacheCallers : lookup'[d].pc = "joined" =>
            lookup'[d] = lookup[d] /\ lookup'[lookup[d].leader] = lookup[lookup[d].leader]
      BY <1>7, <2>1, <2>3, Zenon
    <3>3. ASSUME NEW d \in CacheCallers, lookup'[d].pc = "joined"
          PROVE  \/ lookup'[lookup'[d].leader].pc \in Leading /\ lookup'[lookup'[d].leader].key = lookup'[d].key
                 \/ lookup'[lookup'[d].leader].pc = "returned" /\ shared[lookup'[d].leader].ready
      <4>1. PICK m : m = lookup[d].leader /\ lookup'[m] = lookup[m] /\ lookup'[d] = lookup[d]
        BY <3>2, <3>3, Zenon
      <4>2. \/ lookup[m].pc \in Leading /\ lookup[m].key = lookup[d].key
            \/ lookup[m].pc = "returned" /\ shared[m].ready
        BY <3>1, <3>3, <4>1, Zenon
      <4> QED
        BY <4>1, <4>2, Zenon
    <3> QED
      BY <2>0, <3>3, Zenon
  <2> QED
    BY <2>4, <2>6, <2>7, <2>8, <2>9, Zenon DEF GroupInv
<1> QED
  BY <1>7, <1>8, <1>9, Zenon DEF CacheInv

\* The primary panics: its call stays in the group.
LEMMA PanicStep == ASSUME CacheInv, NEW c \in CacheCallers, PrimaryPanics(c) PROVE CacheInv'
<1>1. lookup[c].pc = "primary" /\ lookup[c] \in LookupRecords
      /\ UNCHANGED <<cacheNow, source, cached, group, shared, newest, wentBack>>
  BY Zenon DEF PrimaryPanics, CacheInv, CacheType
<1>2. PICK r \in LookupRecords :
        r.pc = "panicked" /\ r.key = lookup[c].key /\ r.leader = lookup[c].leader /\ r.floor = lookup[c].floor
          /\ lookup' = [lookup EXCEPT ![c] = r]
  <2>1. lookup' = [lookup EXCEPT ![c] = [lookup[c] EXCEPT !.pc = "panicked", !.val = 0]]
    BY Zenon DEF PrimaryPanics, CacheInv, CacheType
  <2>2. [lookup[c] EXCEPT !.pc = "panicked", !.val = 0] \in LookupRecords
    BY <1>1, Zenon DEF LookupRecords, Leading
  <2> QED
    BY <1>1, <2>1, <2>2, Zenon DEF LookupRecords
<1>3. \A d \in CacheCallers : lookup'[d] = IF d = c THEN r ELSE lookup[d]
  BY <1>2, Zenon DEF CacheInv, CacheType
<1>4. CacheType'
  BY <1>1, <1>2, Zenon DEF CacheInv, CacheType
<1>5. GroupInv'
  BY <1>1, <1>2, <1>3 DEF CacheInv, CacheType, LookupRecords, Leading, GroupInv
<1>6. ValueInv'
  <2>1. r.key \in CacheKeys /\ r.floor <= newest[r.key]
    BY <1>1, <1>2, Zenon DEF CacheInv, GroupInv, ValueInv, Leading
  <2> QED
    BY <1>1, <1>2, <1>3, <2>1, CallerMoves, Zenon
<1> QED
  BY <1>4, <1>5, <1>6, Zenon DEF CacheInv

\* A caller whose last call nobody waits for starts over.
LEMMA CallAgainStep == ASSUME CacheInv, NEW c \in CacheCallers, CallAgain(c) PROVE CacheInv'
<1>1. /\ lookup[c].pc = "returned" /\ \A d \in CacheCallers : lookup[d].leader # c
      /\ UNCHANGED <<cacheNow, source, cached, group, newest, wentBack>>
  BY Zenon DEF CallAgain
<1>2. Outside \in LookupRecords /\ Outside.pc = "out" /\ Outside.leader = "none"
  BY Zenon DEF Outside, LookupRecords, Leading
<1>3. \A d \in CacheCallers : lookup'[d] = IF d = c THEN Outside ELSE lookup[d]
  BY Zenon DEF CallAgain, CacheInv, CacheType
<1>4. \A d \in CacheCallers : d # c => shared'[d] = shared[d]
  BY Zenon DEF CallAgain, CacheInv, CacheType
<1>5. CacheType'
  BY <1>1, <1>2, Zenon DEF CallAgain, CacheInv, CacheType, Pending
<1>6. \A d \in CacheCallers : lookup[d].pc = "joined" => lookup[d].leader \in CacheCallers \ {c}
  BY <1>1 DEF CacheInv, CacheType, LookupRecords, GroupInv
<1>7. \A j \in CacheKeys : group[j] # c /\ group[j] \in CacheCallers \cup {"none"}
  BY <1>1, CacheAssumption DEF CacheInv, CacheType, GroupInv, Leading
<1>8. GroupInv'
  <2>1. /\ \A d \in CacheCallers : lookup'[d].pc \in Leading \cup {"enter", "joined"} => lookup'[d].key \in CacheKeys
        /\ \A d \in CacheCallers : lookup'[d].pc \in Leading => group'[lookup'[d].key] = d
    BY <1>1, <1>2, <1>3 DEF CacheInv, GroupInv, Leading
  <2>2. \A j \in CacheKeys : group[j] # "none" => group[j] \in CacheCallers /\ lookup'[group[j]] = lookup[group[j]]
    BY <1>3, <1>7, Zenon
  <2>3. \A j \in CacheKeys : group'[j] # "none" => lookup'[group'[j]].key = j /\ lookup'[group'[j]].pc \in Leading
    BY <1>1, <2>2 DEF CacheInv, GroupInv
  <2>4. /\ \A d \in CacheCallers : lookup'[d].pc \in {"recheck", "primary", "panicked"} => ~shared'[d].ready
        /\ \A d \in CacheCallers : lookup'[d].pc = "leave" => shared'[d].ready /\ shared'[d].val = lookup'[d].val
    BY <1>1, <1>2, <1>3, <1>4 DEF CacheInv, GroupInv
  <2>5. /\ \A d \in CacheCallers : lookup'[d].leader # "none" <=> lookup'[d].pc = "joined"
        /\ \A d \in CacheCallers : lookup'[d].pc = "joined" =>
             \/ lookup'[lookup'[d].leader].pc \in Leading /\ lookup'[lookup'[d].leader].key = lookup'[d].key
             \/ lookup'[lookup'[d].leader].pc = "returned" /\ shared'[lookup'[d].leader].ready
    BY <1>1, <1>2, <1>3, <1>4, <1>6 DEF CacheInv, GroupInv, Leading
  <2> QED
    BY <2>1, <2>3, <2>4, <2>5, Zenon DEF GroupInv
<1>9. ValueInv'
  <2>1. Outside.pc \notin Leading \cup {"enter", "joined", "primary", "leave"}
    BY <1>2, Zenon DEF Leading
  <2> QED
    BY <1>1, <1>2, <1>3, <1>4, <1>6, <2>1, CallerMoves, Zenon
<1> QED
  BY <1>5, <1>8, <1>9, Zenon DEF CacheInv

\* Cached.Do and callGroup.do, for any callers, keys, limits and times: a value
\* that is fresh, shared or stale is never older than one handed out before it
\* was asked for, and who joins a call gets its result unless it panics.
THEOREM CacheIsMonotone == CacheSpec => []CacheNeverGoesBack
<1>1. CacheInit => CacheInv
  <2> SUFFICES ASSUME CacheInit PROVE CacheInv
    BY Zenon
  <2>1. Outside \in LookupRecords /\ Outside.pc = "out" /\ Outside.leader = "none"
    BY Zenon DEF Outside, LookupRecords, Leading
  <2>2. CacheType
    BY <2>1, Zenon DEF CacheInit, CacheType, Missing, Pending
  <2>3. \A c \in CacheCallers : lookup[c].pc = "out" /\ lookup[c].leader = "none"
    BY <2>1, Zenon DEF CacheInit
  <2>4. GroupInv
    BY <2>3, Zenon DEF CacheInit, GroupInv, Leading
  <2>5. \A k \in CacheKeys : cached[k].val = 0 /\ newest[k] = 0 /\ source[k] = 1
    BY Zenon DEF CacheInit, Missing
  <2>6. ValueInv
    BY <2>3, <2>5 DEF CacheInit, ValueInv, Leading
  <2> QED
    BY <2>2, <2>4, <2>6, Zenon DEF CacheInv
<1>2. CacheInv /\ [CacheNext]_cacheVars => CacheInv'
  <2> SUFFICES ASSUME CacheInv, [CacheNext]_cacheVars PROVE CacheInv'
    BY Zenon
  <2>1. ASSUME NEW k \in CacheKeys, SourceChanges(k) PROVE CacheInv'
    <3>1. source[k] \in Nat /\ UNCHANGED <<cacheNow, cached, group, shared, lookup, newest, wentBack>>
      BY <2>1, Zenon DEF SourceChanges, CacheInv, CacheType
    <3>2. source' \in [CacheKeys -> Nat] /\ \A j \in CacheKeys : source'[j] >= source[j] /\ source[j] \in Nat
      BY <2>1 DEF SourceChanges, CacheInv, CacheType
    <3>3. CacheType' /\ GroupInv'
      BY <3>1, <3>2, Zenon DEF CacheInv, CacheType, GroupInv
    <3>4. \A c \in CacheCallers : lookup[c].pc \in {"primary", "leave", "joined"} =>
            lookup[c].key \in CacheKeys /\ lookup[c].val \in Nat
      BY Zenon DEF CacheInv, CacheType, LookupRecords, GroupInv, Leading
    <3>5. \A c \in CacheCallers : lookup[c].pc = "joined" => shared[lookup[c].leader].val \in Nat
      BY DEF CacheInv, CacheType, LookupRecords, GroupInv
    <3>6. \A j \in CacheKeys : newest[j] \in Nat /\ cached[j].val \in Nat
      BY Zenon DEF CacheInv, CacheType
    <3>7. \A j \in CacheKeys, n \in Nat : n <= source[j] => n <= source'[j]
      BY <3>2
    <3>8. ValueInv'
      BY <3>1, <3>2, <3>4, <3>5, <3>6, <3>7, ZenonT(60) DEF CacheInv, ValueInv
    <3> QED
      BY <3>3, <3>8, Zenon DEF CacheInv
  <2>2. CASE CacheTick
    <3>1. cacheNow' \in Nat
      BY <2>2 DEF CacheTick, CacheInv, CacheType
    <3>2. UNCHANGED <<serveFresh, source, cached, group, shared, lookup, newest, wentBack>>
      BY <2>2, Zenon DEF CacheTick
    <3> QED
      BY <3>1, <3>2, ZenonT(60) DEF CacheInv, CacheType, GroupInv, ValueInv
  <2>3. CASE UNCHANGED cacheVars
    BY <2>3, ZenonT(60) DEF cacheVars, CacheInv, CacheType, GroupInv, ValueInv
  <2> QED
    BY Zenon, <2>1, <2>2, <2>3, LookUpStep, EnterGroupStep, RecheckStep, LeaveGroupStep, JoinedStep, PrimaryStep,
       PanicStep, CallAgainStep DEF CacheNext
<1>3. CacheInv => CacheNeverGoesBack
  <2> SUFFICES ASSUME CacheInv PROVE CacheNeverGoesBack
    BY Zenon
  <2>1. \A c \in CacheCallers : lookup[c].pc = "joined" => lookup[c].leader \in CacheCallers
    BY DEF CacheInv, CacheType, LookupRecords, GroupInv
  <2>2. \A c \in CacheCallers : lookup[c].pc = "joined" =>
          \/ shared[lookup[c].leader].ready
          \/ lookup[lookup[c].leader].key = lookup[c].key
               /\ lookup[lookup[c].leader].pc \in {"recheck", "primary", "panicked"}
    BY <2>1, Zenon DEF CacheInv, GroupInv, Leading
  <2> QED
    BY <2>2, Zenon DEF CacheInv, ValueInv, CacheNeverGoesBack
<1> QED
  BY <1>1, <1>2, <1>3, PTL DEF CacheSpec

-----------------------------------------------------------------------------
(* The pipeline                                                             *)

StageKinds == Range(Kinds) \ {"custom"}

\* The stages a call is inside of at depth d, as far as they hold something.
HeldAt(d) == {stages[i] : i \in 1..d} \cap Holders

\* The stages, in their canonical order: different ones, the retries innermost.
Ordered ==
  /\ stages \in Seq(StageKinds)
  /\ \A i, j \in 1..Len(stages) : i # j => stages[i] # stages[j]
  /\ \A i \in 1..Len(stages) : stages[i] = "retry" => i = Len(stages)

PipeType ==
  /\ pipePc \in {"down", "up", "over"} /\ outcome \in {"none", "ok", "err", "panic"}
  /\ depth \in 0..Len(stages) /\ held \subseteq Holders
  /\ taken \in [Range(Kinds) -> Nat] /\ pipeAttempt \in 0..PipeAttempts /\ opRuns \in Nat

\* What is held are the stages around the call, but for a slot that a panic
\* left behind; what is still ahead was not taken; the attempts begin at the
\* last stage.
HeldInv ==
  /\ outcome # "panic" => held = HeldAt(depth)
  /\ outcome = "panic" => held \ {"concurrency"} = HeldAt(depth) \ {"concurrency"}
  /\ pipePc = "down" => outcome # "panic"
  /\ pipePc = "over" => depth = 0
  /\ fellBack # "with something held"

TakenInv ==
  /\ \A k \in Range(Kinds) : taken[k] <= 1
  /\ pipePc = "down" => \A i \in (depth + 1)..Len(stages) : taken[stages[i]] = 0

Retries == "retry" \in Range(stages)

RunsInv ==
  /\ Retries => /\ opRuns <= pipeAttempt
                /\ (pipePc = "down" /\ depth = Len(stages)) => opRuns + 1 = pipeAttempt
                /\ (pipePc = "down" /\ depth < Len(stages)) => pipeAttempt = 0
                /\ (pipePc = "up" /\ depth = Len(stages)) => opRuns = pipeAttempt
  /\ ~Retries => opRuns <= 1 /\ pipeAttempt = 0 /\ (pipePc = "down" => opRuns = 0)
  /\ (opRuns = 0 /\ pipePc = "up") => pipeAttempt = 0

PipeInv == Ordered /\ PipeType /\ HeldInv /\ TakenInv /\ RunsInv

\* stageKind: the retries come last of all but custom stages.
LEMMA RetryRank ==
  /\ \A k \in Range(Kinds) : Rank(k) \in 1..8 /\ Kinds[Rank(k)] = k
  /\ Rank("retry") = 7 /\ "retry" \in Range(Kinds)
  /\ \A k \in StageKinds : Rank(k) <= 7
<1>1. \A k \in Range(Kinds) : \E i \in DOMAIN Kinds : Kinds[i] = k
  BY Zenon DEF Range
<1>2. \A k \in Range(Kinds) : Rank(k) \in DOMAIN Kinds /\ Kinds[Rank(k)] = k
  BY <1>1, Zenon DEF Rank
<1>3. DOMAIN Kinds = 1..8 /\ Kinds[7] = "retry" /\ Kinds[8] = "custom"
  BY DEF Kinds
<1>4. "retry" \in Range(Kinds)
  BY <1>3 DEF Range
<1>5. \A i \in 1..8 : Kinds[i] = "retry" => i = 7
  BY DEF Kinds
<1>6. \A k \in StageKinds : Rank(k) # 8
  BY <1>2, <1>3, Zenon DEF StageKinds
<1>7. \A k \in StageKinds : Rank(k) \in 1..8
  BY <1>2, <1>3, Zenon DEF StageKinds
<1> QED
  BY <1>2, <1>3, <1>4, <1>5, <1>6, <1>7

\* Build leaves different stages in their canonical order.
LEMMA BuildOrders ==
  ASSUME NEW added \in UNION {[1..n -> StageKinds] : n \in 0..MaxStages}, stages \in Build(added)
  PROVE  Ordered
<1>1. PICK n \in 0..MaxStages : added \in [1..n -> StageKinds]
  BY PipelineAssumption, Zenon
<1>2. n \in Nat /\ DOMAIN added = 1..n
  BY <1>1, PipelineAssumption
<1>3. stages \in [1..n -> Range(added)] /\ \A i, j \in 1..n : i < j => Rank(stages[i]) < Rank(stages[j])
  <2>1. stages \in Bijection(DOMAIN added, Range(added))
    BY Zenon DEF Build
  <2>2. stages \in [1..n -> Range(added)]
    BY <1>2, <2>1, Zenon DEF Bijection, Injection
  <2> QED
    BY <2>2, Zenon DEF Build
<1>4. Range(added) \subseteq StageKinds
  BY <1>1, <1>2, Zenon DEF Range
<1>5. stages \in [1..n -> StageKinds]
  BY <1>3, <1>4, Zenon
<1>6. stages \in Seq(StageKinds) /\ Len(stages) = n
  BY <1>2, <1>5
<1>7. \A i \in 1..n : Rank(stages[i]) \in Nat /\ Rank(stages[i]) <= 7
  BY <1>5, RetryRank DEF StageKinds
<1>8. \A i, j \in 1..n : i # j => stages[i] # stages[j]
  <2> SUFFICES ASSUME NEW i \in 1..n, NEW j \in 1..n, i < j PROVE stages[i] # stages[j]
    OBVIOUS
  <2> QED
    BY <1>3, <1>7
<1>9. \A i \in 1..n : stages[i] = "retry" => i = n
  <2> SUFFICES ASSUME NEW i \in 1..n, stages[i] = "retry", i < n PROVE FALSE
    BY <1>2
  <2>1. n \in 1..n /\ Rank(stages[n]) > Rank(stages[i])
    BY <1>2, <1>3
  <2> QED
    BY <1>7, <2>1, RetryRank
<1> QED
  BY <1>6, <1>8, <1>9, Zenon DEF Ordered

\* One stage more around the call, or one less.
LEMMA OneStage ==
  ASSUME Ordered, NEW d \in 1..Len(stages)
  PROVE  /\ HeldAt(d) = HeldAt(d - 1) \cup ({stages[d]} \cap Holders)
         /\ HeldAt(d - 1) = HeldAt(d) \ {stages[d]}
<1>1. Len(stages) \in Nat /\ d \in Nat /\ d - 1 \in Nat
  BY DEF Ordered
<1>2. 1..d = (1..(d - 1)) \cup {d} /\ d \notin 1..(d - 1) /\ 1..(d - 1) \subseteq 1..Len(stages)
  BY <1>1
<1>3. \A i \in 1..(d - 1) : stages[i] # stages[d]
  BY <1>2, Zenon DEF Ordered
<1> QED
  BY <1>2, <1>3, Zenon DEF HeldAt

\* With the retries among the stages, they are the last of them.
LEMMA RetryIsLast ==
  ASSUME Ordered
  PROVE  /\ Len(stages) \in Nat
         /\ \A d \in 1..Len(stages) : stages[d] = "retry" => Retries /\ d = Len(stages)
         /\ Retries => Len(stages) # 0 /\ stages[Len(stages)] = "retry"
<1>1. PICK n \in Nat : n = Len(stages) /\ DOMAIN stages = 1..n
  BY DEF Ordered
<1>2. \A d \in 1..n : stages[d] = "retry" => Retries /\ d = n
  BY <1>1, Zenon DEF Ordered, Retries, Range
<1>3. Retries => \E d \in 1..n : stages[d] = "retry"
  BY <1>1, Zenon DEF Retries, Range
<1>4. Retries => n # 0 /\ stages[n] = "retry"
  BY <1>2, <1>3
<1> QED
  BY <1>1, <1>2, <1>4, Zenon

\* chain enters a stage.
LEMMA EnterStep == PipeInv /\ Enter => PipeInv'
<1> SUFFICES ASSUME PipeInv, Enter PROVE PipeInv'
  BY Zenon
<1>1. PICK n \in Nat, d \in Nat, k \in StageKinds :
        n = Len(stages) /\ d = depth + 1 /\ d \in 1..n /\ depth = d - 1 /\ k = stages[d] /\ stages \in Seq(StageKinds)
  BY DEF PipeInv, PipeType, Ordered, Enter
<1>2. /\ pipePc = "down" /\ UNCHANGED <<stages, withFallback, pipePc, opRuns, outcome, fellBack>>
      /\ depth' = d /\ held' = (IF k \in Holders THEN held \cup {k} ELSE held)
      /\ taken' = [taken EXCEPT ![k] = taken[k] + 1]
      /\ pipeAttempt' = (IF k = "retry" THEN 1 ELSE pipeAttempt)
  BY <1>1, Zenon DEF Enter
<1>3. Ordered' /\ Retries' = Retries
  BY <1>2, Zenon DEF PipeInv, Ordered, Retries
<1>4. HeldInv' /\ held' \subseteq Holders
  <2>1. held = HeldAt(d - 1)
    BY <1>1, <1>2, Zenon DEF PipeInv, HeldInv
  <2>2. HeldAt(d) = HeldAt(d - 1) \cup ({stages[d]} \cap Holders)
    BY <1>1, OneStage, Zenon DEF PipeInv
  <2>3. HeldAt(depth)' = HeldAt(d)
    BY <1>2, Zenon DEF HeldAt
  <2>4. held' = held \cup ({k} \cap Holders)
    BY <1>2, Zenon
  <2>5. held' = HeldAt(depth)' /\ held' \subseteq Holders
    BY <1>1, <2>1, <2>2, <2>3, <2>4, Zenon DEF HeldAt
  <2> QED
    BY <1>2, <2>5, Zenon DEF PipeInv, HeldInv
<1>5. taken' \in [Range(Kinds) -> Nat] /\ TakenInv'
  <2>1. k \in Range(Kinds) /\ taken \in [Range(Kinds) -> Nat]
    BY Zenon DEF StageKinds, PipeInv, PipeType
  <2>2. taken[k] = 0
    BY <1>1, <1>2 DEF PipeInv, TakenInv
  <2>3. \A i \in (d + 1)..n : stages[i] # k /\ stages[i] \in Range(Kinds) /\ taken[stages[i]] = 0
    BY <1>1, <1>2 DEF PipeInv, TakenInv, Ordered, StageKinds
  <2> QED
    BY <1>1, <1>2, <2>1, <2>2, <2>3 DEF PipeInv, TakenInv
<1>6. opRuns = 0 /\ pipeAttempt = 0
  BY <1>1, <1>2 DEF PipeInv, PipeType, RunsInv
<1>7. PipeType'
  BY <1>1, <1>2, <1>4, <1>5, <1>6, PipelineAssumption DEF PipeInv, PipeType
<1>8. (k = "retry" => d = n /\ Retries) /\ (d = n /\ Retries => k = "retry")
  BY <1>1, RetryIsLast, Zenon DEF PipeInv
<1>9. RunsInv'
  BY <1>1, <1>2, <1>3, <1>6, <1>8 DEF RunsInv
<1> QED
  BY <1>3, <1>4, <1>5, <1>7, <1>9, Zenon DEF PipeInv

\* A stage turns the call down, the operation runs, or it runs again.
LEMMA TurnStep ==
  ASSUME PipeInv, TurnDown \/ RunAgain \/ \E r \in {"ok", "err", "panic"} : RunOp(r)
  PROVE  PipeInv'
<1>1. UNCHANGED <<stages, withFallback, depth, held, taken, fellBack>>
  BY Zenon DEF TurnDown, RunAgain, RunOp
<1>2. Ordered' /\ HeldAt(depth)' = HeldAt(depth) /\ Retries' = Retries
  BY <1>1, Zenon DEF PipeInv, Ordered, HeldAt, Retries
<1>3. PICK n \in Nat : n = Len(stages) /\ depth \in 0..n
  BY RetryIsLast, Zenon DEF PipeInv, PipeType
<1>4. CASE TurnDown
  <2>1. pipePc = "down" /\ pipePc' = "up" /\ outcome' = "err" /\ depth < n /\ UNCHANGED <<pipeAttempt, opRuns>>
    BY <1>3, <1>4, Zenon DEF TurnDown
  <2>2. pipeAttempt = 0 /\ opRuns = 0
    BY <1>3, <2>1 DEF PipeInv, PipeType, RunsInv
  <2>3. HeldInv'
    BY <1>1, <1>2, <2>1, Zenon DEF PipeInv, HeldInv
  <2>4. TakenInv' /\ PipeType'
    BY <1>1, <2>1, Zenon DEF PipeInv, PipeType, TakenInv
  <2>5. RunsInv'
    BY <1>1, <1>2, <1>3, <2>1, <2>2 DEF RunsInv
  <2> QED
    BY <1>2, <2>3, <2>4, <2>5, Zenon DEF PipeInv
<1>5. ASSUME NEW r \in {"ok", "err", "panic"}, RunOp(r) PROVE PipeInv'
  <2>1. /\ pipePc = "down" /\ pipePc' = "up" /\ outcome' = r /\ depth = n
        /\ opRuns' = opRuns + 1 /\ opRuns \in Nat /\ pipeAttempt' = pipeAttempt /\ pipeAttempt \in Nat
    BY <1>3, <1>5, PipelineAssumption DEF RunOp, PipeInv, PipeType
  <2>2. HeldInv'
    BY <1>1, <1>2, <2>1, Zenon DEF PipeInv, HeldInv
  <2>3. TakenInv' /\ PipeType'
    BY <1>1, <2>1 DEF PipeInv, PipeType, TakenInv
  <2>4. RunsInv'
    BY <1>1, <1>2, <1>3, <2>1 DEF PipeInv, RunsInv
  <2> QED
    BY <1>2, <2>2, <2>3, <2>4, Zenon DEF PipeInv
<1>6. CASE RunAgain
  <2>1. /\ depth > 0 /\ stages[depth] = "retry" /\ outcome = "err" /\ pipePc = "up" /\ pipePc' = "down"
        /\ pipeAttempt < PipeAttempts /\ pipeAttempt' = pipeAttempt + 1 /\ UNCHANGED <<outcome, opRuns>>
    BY <1>6, Zenon DEF RunAgain
  <2>2. depth = n /\ Retries
    BY <1>3, <2>1, RetryIsLast DEF PipeInv
  <2>3. pipeAttempt \in Nat /\ opRuns \in Nat
    BY PipelineAssumption DEF PipeInv, PipeType
  <2>4. opRuns = pipeAttempt
    BY <1>3, <2>1, <2>2, Zenon DEF PipeInv, RunsInv
  <2>5. HeldInv'
    BY <1>1, <1>2, <2>1, Zenon DEF PipeInv, HeldInv
  <2>6. TakenInv'
    BY <1>1, <1>3, <2>2 DEF PipeInv, TakenInv
  <2>7. PipeType'
    BY <1>1, <2>1, <2>3, PipelineAssumption DEF PipeInv, PipeType
  <2>8. RunsInv'
    BY <1>1, <1>2, <1>3, <2>1, <2>2, <2>3, <2>4 DEF RunsInv
  <2> QED
    BY <1>2, <2>5, <2>6, <2>7, <2>8, Zenon DEF PipeInv
<1> QED
  BY <1>4, <1>5, <1>6, Zenon

\* A stage gives back what it took.
LEMMA LeaveStep == PipeInv /\ Leave => PipeInv'
<1> SUFFICES ASSUME PipeInv, Leave PROVE PipeInv'
  OBVIOUS
<1>1. PICK n \in Nat, d \in Nat : n = Len(stages) /\ d = depth /\ d \in 1..n
  BY RetryIsLast DEF PipeInv, PipeType, Leave
<1>2. PICK k : k = stages[d]
  BY Zenon
<1>3. /\ pipePc = "up" /\ depth' = d - 1
      /\ held' = (IF k = "concurrency" /\ outcome = "panic" THEN held ELSE held \ {k})
      /\ UNCHANGED <<stages, withFallback, pipePc, taken, pipeAttempt, opRuns, outcome, fellBack>>
  BY <1>1, <1>2, Zenon DEF Leave
<1>4. HeldAt(depth)' = HeldAt(d) \ {k}
  <2>1. HeldAt(d - 1) = HeldAt(d) \ {stages[d]}
    BY <1>1, OneStage, Zenon DEF PipeInv
  <2>2. HeldAt(depth)' = HeldAt(d - 1)
    BY <1>3, Zenon DEF HeldAt
  <2> QED
    BY <1>2, <2>1, <2>2, Zenon
<1>5. HeldInv'
  BY <1>1, <1>3, <1>4, Zenon DEF PipeInv, HeldInv
<1>6. Ordered' /\ Retries' = Retries
  BY <1>3, Zenon DEF PipeInv, Ordered, Retries
<1>7. held' \subseteq Holders
  BY <1>3, Zenon DEF PipeInv, PipeType
<1>8. PipeType'
  BY <1>1, <1>3, <1>7 DEF PipeInv, PipeType
<1>9. TakenInv' /\ RunsInv'
  BY <1>1, <1>3, <1>6 DEF PipeInv, TakenInv, RunsInv
<1> QED
  BY <1>5, <1>6, <1>8, <1>9, Zenon DEF PipeInv

\* Whatever stages were added in whatever order, and whatever each of them and
\* the operation do: a call takes every admission once, runs inside of what it
\* holds, within its attempts, and gives everything back before it ends or its
\* fallback runs, but for the concurrency slot of a call that panics.
THEOREM PipelinesSettle == PipeSpec => []PipelineSettles
<1>1. PipeInit => PipeInv
  <2> SUFFICES ASSUME PipeInit PROVE PipeInv
    OBVIOUS
  <2>1. Ordered
    BY BuildOrders, Zenon DEF PipeInit, StageKinds
  <2>2. HeldAt(0) = {}
    BY DEF HeldAt
  <2>3. PipeType
    BY <2>1, RetryIsLast, PipelineAssumption DEF PipeInit, PipeType
  <2>4. HeldInv
    BY <2>2, Zenon DEF PipeInit, HeldInv
  <2>5. \A i \in 1..Len(stages) : stages[i] \in Range(Kinds)
    BY <2>1 DEF Ordered, StageKinds
  <2>6. TakenInv
    BY <2>1, <2>5, RetryIsLast DEF PipeInit, TakenInv
  <2>7. RunsInv
    BY <2>1, RetryIsLast DEF PipeInit, RunsInv
  <2> QED
    BY <2>1, <2>3, <2>4, <2>6, <2>7, Zenon DEF PipeInv
<1>2. PipeInv /\ [PipeNext]_pipeVars => PipeInv'
  <2> SUFFICES ASSUME PipeInv, [PipeNext]_pipeVars PROVE PipeInv'
    OBVIOUS
  <2>1. ASSUME NEW r \in {"ok", "err"}, Finish(r) PROVE PipeInv'
    <3>1. /\ pipePc = "up" /\ depth = 0 /\ pipePc' = "over" 
          /\ UNCHANGED <<stages, depth, held, taken, pipeAttempt, opRuns>>
      BY <2>1, Zenon DEF Finish
    <3>2. HeldAt(depth) = {} /\ HeldAt(depth)' = {} /\ Ordered' /\ Retries' = Retries
      BY <3>1 DEF HeldAt, PipeInv, Ordered, Retries
    <3>3. HeldInv' /\ outcome' \in {"none", "ok", "err", "panic"}
      <4>1. CASE withFallback /\ outcome = "err"
        <5>1. held = {}
          BY <3>2, <4>1, Zenon DEF PipeInv, HeldInv
        <5>2. fellBack' = "with nothing held" /\ outcome' = r
          BY <2>1, <4>1, <5>1, Zenon DEF Finish
        <5> QED
          BY <3>1, <3>2, <5>1, <5>2, Zenon DEF HeldInv
      <4>2. CASE ~(withFallback /\ outcome = "err")
        <5>1. fellBack' = fellBack /\ outcome' = outcome
          BY <2>1, <4>2, Zenon DEF Finish
        <5> QED
          BY <3>1, <3>2, <5>1, Zenon DEF PipeInv, PipeType, HeldInv
      <4> QED
        BY <4>1, <4>2, Zenon
    <3>4. PipeType'
      BY <3>1, <3>3, Zenon DEF PipeInv, PipeType
    <3>5. TakenInv' /\ RunsInv'
      BY <3>1, <3>2, Zenon DEF PipeInv, TakenInv, RunsInv
    <3> QED
      BY <3>2, <3>3, <3>4, <3>5, Zenon DEF PipeInv
  <2>2. CASE UNCHANGED pipeVars
    <3>1. Ordered' /\ HeldAt(depth)' = HeldAt(depth) /\ Retries' = Retries
      BY <2>2, Zenon DEF pipeVars, PipeInv, Ordered, HeldAt, Retries
    <3> QED
      BY <2>2, <3>1, ZenonT(60) DEF pipeVars, PipeInv, PipeType, HeldInv, TakenInv, RunsInv
  <2> QED
    BY <2>1, <2>2, EnterStep, TurnStep, LeaveStep, Zenon DEF PipeNext
<1>3. PipeInv => PipelineSettles
  <2> SUFFICES ASSUME PipeInv PROVE PipelineSettles
    OBVIOUS
  <2>1. HeldAt(Len(stages)) = Range(stages) \cap Holders /\ HeldAt(0) = {}
    BY DEF PipeInv, Ordered, Range, HeldAt
  <2>2. (pipePc = "down" /\ depth = Len(stages)) => held = Range(stages) \cap Holders
    BY <2>1, Zenon DEF PipeInv, HeldInv
  <2>3. opRuns <= (IF "retry" \in Range(stages) THEN PipeAttempts ELSE 1)
    <3>1. opRuns \in Nat /\ pipeAttempt \in Nat /\ pipeAttempt <= PipeAttempts /\ PipeAttempts \in Nat
      BY PipelineAssumption DEF PipeInv, PipeType
    <3>2. CASE Retries
      BY <3>1, <3>2 DEF PipeInv, RunsInv, Retries
    <3>3. CASE ~Retries
      BY <3>1, <3>3, Zenon DEF PipeInv, RunsInv, Retries
    <3> QED
      BY <3>2, <3>3, Zenon
  <2>4. pipePc = "over" => held \subseteq (IF outcome = "panic" THEN {"concurrency"} ELSE {})
    BY <2>1, Zenon DEF PipeInv, HeldInv
  <2>5. \A k \in Range(Kinds) : taken[k] <= 1
    BY Zenon DEF PipeInv, TakenInv
  <2>6. ((opRuns = 0 /\ pipePc = "up") => pipeAttempt = 0) /\ fellBack # "with something held"
    BY Zenon DEF PipeInv, RunsInv, HeldInv
  <2> QED
    BY <2>2, <2>3, <2>4, <2>5, <2>6, Zenon DEF PipelineSettles
<1> QED
  BY <1>1, <1>2, <1>3, PTL DEF PipeSpec

-----------------------------------------------------------------------------
(* The adaptive rate limiter                                                *)

UserRecords ==
  [pc : {"away", "found", "locked"}, key : AdaptiveKeys \cup {Away.key}, n : Nat, cap : Nat, lost : BOOLEAN]

AdaptiveType ==
  /\ currentLimit \in MinLimit..MaxLimit /\ alCapacity \in MinLimit..MaxLimit
  /\ alRate \in MinLimit..MaxLimit /\ alTarget \in MinLimit..MaxLimit
  /\ alStep \in {"idle", "capacity", "rate", "clamp", "stopped"}
  /\ alBuckets \in [AdaptiveKeys -> Int]
  /\ alUsers \in [AdaptiveUsers -> UserRecords]
  /\ \A u \in AdaptiveUsers : alUsers[u].pc # "away" => alUsers[u].key \in AdaptiveKeys

\* What SetLimit has stored at each of its steps.
StoredInv ==
  /\ alStep \in {"idle", "capacity", "stopped"} => currentLimit = alCapacity /\ currentLimit = alRate
  /\ alStep \in {"rate", "clamp"} => alCapacity = alTarget
  /\ alStep = "clamp" => alRate = alTarget
  /\ alStep # "clamp" => alTodo = {}

\* The bucket of a key is within the capacity, and so will be what its holder leaves.
Fits(k) ==
  /\ alBuckets[k] <= alCapacity
  /\ \A u \in AdaptiveUsers :
       alUsers[u].pc = "locked" /\ alUsers[u].key = k => alUsers[u].lost \/ alUsers[u].cap = alCapacity

\* Between the two stores nothing is known of the buckets; after them, of the
\* keys that the clamp has visited.
AdaptiveInv ==
  /\ AdaptiveType /\ StoredInv
  /\ alStep # "rate" => \A k \in AdaptiveKeys \ alTodo : Fits(k)

\* A limit that is clamped lies between the bounds (clamp).
LEMMA ClampBounds == ASSUME NEW x \in Int PROVE Clamp(MinLimit, x, MaxLimit) \in MinLimit..MaxLimit
BY AdaptiveAssumption DEF Clamp

\* So does the limit that a tick of adjustLoop decides on.
LEMMA AdjustedBounds ==
  ASSUME NEW x \in Nat, NEW d \in {-1, 0, 1} PROVE AdjustedLimit(x, d) \in MinLimit..MaxLimit
<1>1. (2010 * x + 1000) \div 2000 \in Int /\ (1980 * x + 1000) \div 2000 \in Int
  OBVIOUS
<1> QED
  BY <1>1, ClampBounds DEF AdjustedLimit

\* The goroutine that installs a limit: what it stores and clamps (SetLimit).
LEMMA RetuneStep ==
  ASSUME AdaptiveInv,
         \/ \E cpu, errors, p99 \in {"low", "mid", "high"} : Adjust(cpu, errors, p99)
         \/ StoreCapacity \/ StoreRate \/ StoreLimit \/ CloseAdaptive
  PROVE  AdaptiveInv'
<1>1. alUsers' = alUsers /\ alBuckets' = alBuckets
  BY Zenon DEF Adjust, StoreCapacity, StoreRate, StoreLimit, CloseAdaptive
<1>2. CASE \E cpu, errors, p99 \in {"low", "mid", "high"} : Adjust(cpu, errors, p99)
  <2>1. PICK cpu, errors, p99 \in {"low", "mid", "high"} : Adjust(cpu, errors, p99)
    BY <1>2, Zenon
  <2>2. PICK d \in {-1, 0, 1} : d = AdjustDirection(cpu, errors, p99)
    BY Zenon DEF AdjustDirection
  <2>3. alTarget' \in MinLimit..MaxLimit /\ alStep = "idle" /\ alStep' = "capacity"
    BY <2>1, <2>2, AdjustedBounds, AdaptiveAssumption DEF Adjust, AdaptiveInv, AdaptiveType
  <2>4. UNCHANGED <<currentLimit, alCapacity, alRate, alTodo>>
    BY <2>1, Zenon DEF Adjust
  <2>5. AdaptiveType' /\ StoredInv'
    BY <1>1, <2>3, <2>4, Zenon DEF AdaptiveInv, AdaptiveType, StoredInv
  <2> QED
    BY <1>1, <2>3, <2>4, <2>5, Zenon DEF AdaptiveInv, Fits
<1>3. CASE StoreCapacity \/ StoreRate
  <2>1. AdaptiveType' /\ StoredInv'
    BY <1>1, <1>3, Zenon DEF AdaptiveInv, AdaptiveType, StoredInv, StoreCapacity, StoreRate
  <2>2. alStep' = "rate" \/ alTodo' = AdaptiveKeys
    BY <1>3, Zenon DEF StoreCapacity, StoreRate
  <2> QED
    BY <2>1, <2>2, Zenon DEF AdaptiveInv
<1>4. CASE StoreLimit \/ CloseAdaptive
  <2>1. AdaptiveType' /\ StoredInv'
    BY <1>1, <1>4, Zenon DEF AdaptiveInv, AdaptiveType, StoredInv, StoreLimit, CloseAdaptive
  <2>2. alStep # "rate" /\ UNCHANGED <<alTodo, alCapacity>>
    BY <1>4, Zenon DEF StoreLimit, CloseAdaptive
  <2> QED
    BY <1>1, <2>1, <2>2, Zenon DEF AdaptiveInv, Fits
<1> QED
  BY <1>2, <1>3, <1>4, Zenon

\* One bucket is clamped, under its mutex (tokenbucket.go SetLimit's Range).
LEMMA ClampStep ==
  ASSUME AdaptiveInv, NEW k \in AdaptiveKeys, ClampBucket(k) PROVE AdaptiveInv'
<1>1. /\ alStep = "clamp" /\ ~Locked(k) /\ alTodo' = alTodo \ {k}
      /\ UNCHANGED <<currentLimit, alCapacity, alRate, alStep, alTarget, alUsers>>
  BY Zenon DEF ClampBucket
<1>2. PICK b \in Int : b = (IF alBuckets[k] > alTarget THEN alTarget ELSE alBuckets[k])
  BY AdaptiveAssumption DEF AdaptiveInv, AdaptiveType
<1>3. alBuckets' = [alBuckets EXCEPT ![k] = b]
  BY <1>2, Zenon DEF ClampBucket
<1>4. b <= alCapacity
  BY <1>1, <1>2, AdaptiveAssumption DEF AdaptiveInv, AdaptiveType, StoredInv
<1>5. AdaptiveType'
  BY <1>1, <1>3, Zenon DEF AdaptiveInv, AdaptiveType
<1>6. StoredInv'
  BY <1>1, Zenon DEF AdaptiveInv, StoredInv
<1>7. ASSUME NEW j \in AdaptiveKeys, j \notin alTodo' PROVE Fits(j)'
  <2>1. CASE j = k
    BY <1>1, <1>3, <1>4, <2>1, Zenon DEF AdaptiveInv, AdaptiveType, Fits, Locked
  <2>2. CASE j # k
    BY <1>1, <1>3, <1>7, <2>2, Zenon DEF AdaptiveInv, AdaptiveType, Fits
  <2> QED
    BY <2>1, <2>2, Zenon
<1> QED
  BY <1>5, <1>6, <1>7, Zenon DEF AdaptiveInv

\* A caller finds or makes the bucket of its key (getOrCreate).
LEMMA UseStep ==
  ASSUME AdaptiveInv, NEW u \in AdaptiveUsers, NEW k \in AdaptiveKeys, NEW n \in UseSizes, UseKey(u, k, n)
  PROVE  AdaptiveInv'
<1>1. UNCHANGED <<currentLimit, alCapacity, alRate, alStep, alTarget, alTodo>>
  BY Zenon DEF UseKey
<1>2. PICK b \in Int : b = (IF alBuckets[k] = NoBucket THEN alCapacity ELSE alBuckets[k])
  BY AdaptiveAssumption DEF AdaptiveInv, AdaptiveType
<1>3. alBuckets' = [alBuckets EXCEPT ![k] = b]
  BY <1>2, Zenon DEF UseKey
<1>4. PICK r : r = [Away EXCEPT !.pc = "found", !.key = k, !.n = n]
  BY Zenon
<1>5. alUsers' = [alUsers EXCEPT ![u] = r] /\ r \in UserRecords /\ r.pc = "found" /\ r.key = k
  <2>1. Away \in UserRecords
    BY Zenon DEF Away, UserRecords
  <2>2. r \in UserRecords /\ r.pc = "found" /\ r.key = k
    BY <1>4, <2>1, AdaptiveAssumption, Zenon DEF UserRecords
  <2> QED
    BY <1>4, <2>2, Zenon DEF UseKey
<1>6. alUsers' \in [AdaptiveUsers -> UserRecords] /\ \A v \in AdaptiveUsers : alUsers'[v] = IF v = u THEN r ELSE alUsers[v]
  BY <1>5, Zenon DEF AdaptiveInv, AdaptiveType
<1>7. AdaptiveType'
  BY <1>1, <1>3, <1>5, <1>6, Zenon DEF AdaptiveInv, AdaptiveType
<1>8. StoredInv'
  BY <1>1, Zenon DEF AdaptiveInv, StoredInv
<1>9. ASSUME NEW j \in AdaptiveKeys, Fits(j) PROVE Fits(j)'
  <2>1. alBuckets'[j] <= alCapacity
    BY <1>2, <1>3, <1>9, AdaptiveAssumption DEF AdaptiveInv, AdaptiveType, Fits
  <2> QED
    BY <1>1, <1>5, <1>6, <1>9, <2>1, Zenon DEF Fits
<1> QED
  BY <1>1, <1>7, <1>8, <1>9, Zenon DEF AdaptiveInv

\* A caller locks its bucket and reads the capacity (consume, refill).
LEMMA LockStep == ASSUME AdaptiveInv, NEW u \in AdaptiveUsers, LockBucket(u) PROVE AdaptiveInv'
<1>1. UNCHANGED <<currentLimit, alCapacity, alRate, alStep, alTarget, alTodo, alBuckets>>
  BY Zenon DEF LockBucket
<1>2. PICK r \in UserRecords :
        /\ alUsers' = [alUsers EXCEPT ![u] = r]
        /\ r.pc = "away" \/ (r.pc = "locked" /\ r.cap = alCapacity /\ r.key \in AdaptiveKeys)
  <2>1. CASE alUsers[u].n > alCapacity
    <3>1. Away \in UserRecords /\ Away.pc = "away"
      BY Zenon DEF Away, UserRecords
    <3>2. alUsers' = [alUsers EXCEPT ![u] = Away]
      BY <2>1, Zenon DEF LockBucket
    <3> QED
      BY <3>1, <3>2, Zenon
  <2>2. CASE ~(alUsers[u].n > alCapacity)
    <3>1. PICK r : r = [alUsers[u] EXCEPT !.pc = "locked", !.cap = alCapacity]
      BY Zenon
    <3>2. alUsers' = [alUsers EXCEPT ![u] = r]
      BY <2>2, <3>1, Zenon DEF LockBucket
    <3>3. alUsers[u] \in UserRecords /\ alCapacity \in Nat /\ alUsers[u].key \in AdaptiveKeys
      BY AdaptiveAssumption DEF AdaptiveInv, AdaptiveType, LockBucket
    <3>4. r \in UserRecords /\ r.pc = "locked" /\ r.cap = alCapacity /\ r.key \in AdaptiveKeys
      BY <3>1, <3>3, Zenon DEF UserRecords
    <3> QED
      BY <3>2, <3>4, Zenon
  <2> QED
    BY <2>1, <2>2, Zenon
<1>3. alUsers' \in [AdaptiveUsers -> UserRecords] /\ \A v \in AdaptiveUsers : alUsers'[v] = IF v = u THEN r ELSE alUsers[v]
  BY <1>2, Zenon DEF AdaptiveInv, AdaptiveType
<1>4. AdaptiveType'
  BY <1>1, <1>2, <1>3, Zenon DEF AdaptiveInv, AdaptiveType
<1>5. StoredInv'
  BY <1>1, Zenon DEF AdaptiveInv, StoredInv
<1>6. ASSUME NEW j \in AdaptiveKeys, Fits(j) PROVE Fits(j)'
  BY <1>1, <1>2, <1>3, <1>6, Zenon DEF Fits
<1> QED
  BY <1>1, <1>4, <1>5, <1>6, Zenon DEF AdaptiveInv

\* A caller refills its bucket, up to the capacity it read, and takes from it.
LEMMA TakeStep ==
  ASSUME AdaptiveInv, NEW u \in AdaptiveUsers, NEW elapsed \in {0, 1}, RefillAndTake(u, elapsed) PROVE AdaptiveInv'
<1>1. UNCHANGED <<currentLimit, alCapacity, alRate, alStep, alTarget, alTodo>> /\ alUsers[u].pc = "locked"
  BY Zenon DEF RefillAndTake
<1>2. Away \in UserRecords /\ Away.pc = "away"
  BY Zenon DEF Away, UserRecords
<1>3. alUsers' = [alUsers EXCEPT ![u] = Away]
  BY Zenon DEF RefillAndTake
<1>4. alUsers' \in [AdaptiveUsers -> UserRecords] /\ \A v \in AdaptiveUsers : alUsers'[v] = IF v = u THEN Away ELSE alUsers[v]
  BY <1>2, <1>3, Zenon DEF AdaptiveInv, AdaptiveType
<1>5. PICK k \in AdaptiveKeys : k = alUsers[u].key
  BY <1>1, Zenon DEF AdaptiveInv, AdaptiveType
<1>6. PICK cap \in Nat, n \in Nat, old \in Int, rate \in Nat :
        cap = alUsers[u].cap /\ n = alUsers[u].n /\ old = alBuckets[k] /\ rate = alRate
  BY AdaptiveAssumption DEF AdaptiveInv, AdaptiveType, UserRecords
<1>7. PICK sum \in Int : sum = old + elapsed * rate
  BY RefillSum, Zenon
<1>8. PICK level : level = (IF elapsed > 0 /\ sum > cap THEN cap ELSE sum)
  BY Zenon
<1>9. PICK b : b = (IF level >= n THEN level - n ELSE level)
  BY Zenon
<1>10. alBuckets' = alBuckets \/ (~alUsers[u].lost /\ alBuckets' = [alBuckets EXCEPT ![k] = b])
  BY <1>5, <1>6, <1>7, <1>8, <1>9, Zenon DEF RefillAndTake
<1>11. b \in Int /\ (b <= old \/ b <= cap)
  BY <1>7, <1>8, <1>9, LevelLeft
<1>12. AdaptiveType'
  BY <1>1, <1>2, <1>4, <1>10, <1>11, Zenon DEF AdaptiveInv, AdaptiveType
<1>13. StoredInv'
  BY <1>1, Zenon DEF AdaptiveInv, StoredInv
<1>14. ASSUME NEW j \in AdaptiveKeys, Fits(j) PROVE Fits(j)'
  <2>1. ~alUsers[u].lost /\ j = k => old <= alCapacity /\ cap = alCapacity
    BY <1>1, <1>5, <1>6, <1>14, Zenon DEF Fits
  <2>2. alBuckets'[j] <= alCapacity
    <3>1. CASE alBuckets' = alBuckets
      BY <1>14, <3>1, Zenon DEF Fits
    <3>2. CASE ~alUsers[u].lost /\ alBuckets' = [alBuckets EXCEPT ![k] = b]
      <4>1. CASE j = k
        <5>1. alBuckets'[j] = b
          BY <3>2, <4>1, Zenon DEF AdaptiveInv, AdaptiveType
        <5>2. old <= alCapacity /\ cap = alCapacity /\ alCapacity \in Int
          BY <2>1, <3>2, <4>1 DEF AdaptiveInv, AdaptiveType
        <5> QED
          BY <1>11, <5>1, <5>2
      <4>2. CASE j # k
        BY <1>14, <3>2, <4>2, Zenon DEF Fits, AdaptiveInv, AdaptiveType
      <4> QED
        BY <4>1, <4>2, Zenon
    <3> QED
      BY <1>10, <3>1, <3>2, Zenon
  <2> QED
    BY <1>1, <1>2, <1>4, <1>14, <2>2, Zenon DEF Fits
<1> QED
  BY <1>1, <1>12, <1>13, <1>14, Zenon DEF AdaptiveInv

\* A key is forgotten (Reset, the idle cleaner); who holds its bucket keeps it.
LEMMA ForgetStep == ASSUME AdaptiveInv, NEW k \in AdaptiveKeys, ForgetKey(k) PROVE AdaptiveInv'
<1>1. /\ UNCHANGED <<currentLimit, alCapacity, alRate, alStep, alTarget, alTodo>>
      /\ alBuckets' = [alBuckets EXCEPT ![k] = -1]
  BY Zenon DEF ForgetKey, NoBucket
<1>2. \A v \in AdaptiveUsers :
        /\ alUsers'[v] \in UserRecords /\ alUsers'[v].pc = alUsers[v].pc /\ alUsers'[v].key = alUsers[v].key
        /\ alUsers'[v].cap = alUsers[v].cap /\ (alUsers[v].lost => alUsers'[v].lost)
  <2> SUFFICES ASSUME NEW v \in AdaptiveUsers
               PROVE  /\ alUsers'[v] \in UserRecords /\ alUsers'[v].pc = alUsers[v].pc /\ alUsers'[v].key = alUsers[v].key
                      /\ alUsers'[v].cap = alUsers[v].cap /\ (alUsers[v].lost => alUsers'[v].lost)
    BY Zenon
  <2>1. PICK r \in UserRecords : r = alUsers[v]
    BY Zenon DEF AdaptiveInv, AdaptiveType
  <2>2. PICK s : s = [r EXCEPT !.lost = TRUE]
    BY Zenon
  <2>3. s \in UserRecords /\ s.pc = r.pc /\ s.key = r.key /\ s.cap = r.cap /\ s.lost
    BY <2>2, Zenon DEF UserRecords
  <2>4. alUsers'[v] = r \/ alUsers'[v] = s
    BY <2>1, <2>2, Zenon DEF ForgetKey
  <2> QED
    BY <2>1, <2>3, <2>4, Zenon
<1>3. alUsers' \in [AdaptiveUsers -> UserRecords]
  <2>1. alUsers' = [u \in AdaptiveUsers |-> alUsers'[u]]
    BY Zenon DEF ForgetKey
  <2> QED
    BY <1>2, <2>1, Zenon
<1>4. AdaptiveType'
  BY <1>1, <1>2, <1>3 DEF AdaptiveInv, AdaptiveType
<1>5. StoredInv'
  BY <1>1, Zenon DEF AdaptiveInv, StoredInv
<1>6. ASSUME NEW j \in AdaptiveKeys, Fits(j) PROVE Fits(j)'
  <2>1. alBuckets'[j] <= alCapacity
    BY <1>1, <1>6, AdaptiveAssumption DEF AdaptiveInv, AdaptiveType, Fits
  <2> QED
    BY <1>1, <1>2, <1>6, <2>1, Zenon DEF Fits
<1> QED
  BY <1>1, <1>4, <1>5, <1>6, Zenon DEF AdaptiveInv

(***************************************************************************)
(* Between two adjustments the adaptive limiter is one limiter, for every  *)
(* number of keys and callers and all bounds: the advertised limit, the    *)
(* capacity and the rate agree and no bucket holds more, though SetLimit   *)
(* stores and clamps while callers refill, create and reset buckets        *)
(* (adaptive.go adjustLoop, tokenbucket.go SetLimit).                      *)
(***************************************************************************)
THEOREM RetuneReachesEveryBucket == AdaptiveSpec => []RetunedEverywhere
<1>1. AdaptiveInit => AdaptiveInv
  <2> SUFFICES ASSUME AdaptiveInit PROVE AdaptiveInv
    OBVIOUS
  <2>1. PICK s \in MinLimit..MaxLimit : s = Clamp(MinLimit, InitialLimit, MaxLimit)
    BY ClampBounds, AdaptiveAssumption, Zenon
  <2>2. /\ currentLimit = s /\ alCapacity = s /\ alRate = s /\ alStep = "idle" /\ alTarget = s /\ alTodo = {}
        /\ alBuckets = [k \in AdaptiveKeys |-> -1] /\ alUsers = [u \in AdaptiveUsers |-> Away]
    BY <2>1, Zenon DEF AdaptiveInit, NoBucket
  <2>3. Away \in UserRecords /\ Away.pc = "away"
    BY Zenon DEF Away, UserRecords
  <2>4. alUsers \in [AdaptiveUsers -> UserRecords] /\ \A u \in AdaptiveUsers : alUsers[u].pc = "away"
    BY <2>2, <2>3, Zenon
  <2>5. AdaptiveType /\ StoredInv
    BY <2>2, <2>4 DEF AdaptiveType, StoredInv
  <2>6. \A k \in AdaptiveKeys : alBuckets[k] = -1
    BY <2>2, Zenon
  <2>7. \A k \in AdaptiveKeys : alBuckets[k] <= alCapacity
    BY <2>1, <2>2, <2>6, AdaptiveAssumption
  <2> QED
    BY <2>4, <2>5, <2>7, Zenon DEF AdaptiveInv, Fits
<1>2. AdaptiveInv /\ [AdaptiveNext]_adaptiveVars => AdaptiveInv'
  <2> SUFFICES ASSUME AdaptiveInv, [AdaptiveNext]_adaptiveVars PROVE AdaptiveInv'
    OBVIOUS
  <2>1. CASE UNCHANGED adaptiveVars
    BY <2>1, Zenon DEF adaptiveVars, AdaptiveInv, AdaptiveType, StoredInv, Fits
  <2> QED
    BY <2>1, RetuneStep, ClampStep, UseStep, LockStep, TakeStep, ForgetStep, Zenon DEF AdaptiveNext
<1>3. AdaptiveInv => RetunedEverywhere
  <2> SUFFICES ASSUME AdaptiveInv, alStep = "idle"
               PROVE  /\ currentLimit = alCapacity /\ currentLimit = alRate /\ currentLimit \in MinLimit..MaxLimit
                      /\ \A k \in AdaptiveKeys : Fits(k)
    BY Zenon DEF RetunedEverywhere, Fits
  <2> QED
    BY Zenon DEF AdaptiveInv, AdaptiveType, StoredInv
<1> QED
  BY <1>1, <1>2, <1>3, PTL DEF AdaptiveSpec

-----------------------------------------------------------------------------
(* The load shedder                                                         *)

\* While a first sample above the target is remembered, no sample below it
\* has come since, and one above it has.
ShedInv ==
  /\ shedNow \in Nat /\ count \in Nat /\ lastGood \in Nat /\ lastGood <= shedNow
  /\ firstAbove \in Nat \cup {Never}
  /\ firstAbove # Never => lastGood <= firstAbove /\ lastBad # Never
  /\ ShedsOnlyStandingQueues

\* priorityGate lets the highest priority through.
LEMMA GateSparesCritical ==
  ASSUME NEW n \in Int, NEW prio \in Int, Gate(n, prio)
  PROVE  ~(prio >= PriorityCeil)
<1>1. PICK q \in Int : q = (n - 1) \div PriorityStep
  BY ShedAssumption
<1> QED
  BY <1>1, ShedAssumption DEF Gate

\* Admit decides on what record has left behind.
LEMMA AdmitStep ==
  ASSUME ShedInv, NEW r \in Requests, NEW prio \in ShedPriorities, Admit(r, prio)
  PROVE  ShedInv'
<1>1. /\ prio \in Int /\ 0 \in Int /\ 1 \in Int /\ ShedInterval \in Nat
      /\ UNCHANGED <<shedNow, lastGood, lastBad>>
  BY ShedAssumption DEF Admit
<1>2. ASSUME NEW drop \in BOOLEAN, NEW entered \in BOOLEAN, Decide(r, drop, prio, entered),
             drop => firstAbove # Never /\ ~(prio >= PriorityCeil),
             drop /\ entered => StandingTooLong
      PROVE  ShedsOnlyStandingQueues'
  <2>1. CASE drop
    <3>1. dropped' = [any |-> TRUE, standing |-> ~entered \/ shedNow - lastGood >= ShedInterval,
                      bad |-> lastBad # Never, critical |-> prio >= PriorityCeil]
      BY <1>2, <2>1, Zenon DEF Decide
    <3>2. lastBad # Never
      BY <1>2, <2>1, Zenon DEF ShedInv
    <3>3. ~entered \/ shedNow - lastGood >= ShedInterval
      BY <1>1, <1>2, <2>1 DEF ShedInv, StandingTooLong, Never
    <3> QED
      BY <1>2, <2>1, <3>1, <3>2, <3>3, Zenon DEF ShedsOnlyStandingQueues
  <2>2. CASE ~drop
    BY <1>2, <2>2, Zenon DEF Decide, ShedInv, ShedsOnlyStandingQueues
  <2> QED
    BY <2>1, <2>2, Zenon
<1>3. CASE ~dropping /\ ~StandingTooLong /\ Decide(r, FALSE, prio, FALSE) /\ UNCHANGED shedder
  <2>1. ShedsOnlyStandingQueues'
    BY <1>2, <1>3, Zenon
  <2> QED
    BY <1>1, <1>3, <2>1, Zenon DEF ShedInv, shedder
<1>4. CASE /\ ~dropping /\ StandingTooLong /\ dropping' = TRUE /\ count' = 1
           /\ Decide(r, Gate(1, prio), prio, TRUE) /\ UNCHANGED firstAbove
  <2>1. Gate(1, prio) \in BOOLEAN /\ (Gate(1, prio) => ~(prio >= PriorityCeil))
    BY <1>1, GateSparesCritical DEF Gate
  <2>2. ShedsOnlyStandingQueues'
    BY <1>2, <1>4, <2>1, Zenon DEF StandingTooLong
  <2> QED
    BY <1>1, <1>4, <2>2, Zenon DEF ShedInv
<1>5. CASE dropping /\ firstAbove = Never /\ count' = 0 /\ Decide(r, FALSE, prio, FALSE) /\ UNCHANGED firstAbove
  <2>1. ShedsOnlyStandingQueues'
    BY <1>2, <1>5, Zenon
  <2> QED
    BY <1>1, <1>5, <2>1, Zenon DEF ShedInv
<1>6. CASE /\ dropping /\ firstAbove # Never /\ count' = (IF shedNow >= dropNext THEN count + 1 ELSE count)
           /\ Decide(r, Gate(count', prio), prio, FALSE) /\ UNCHANGED firstAbove
  <2>1. PICK n \in Nat : n = count'
    BY <1>6 DEF ShedInv
  <2>2. Gate(n, prio) \in BOOLEAN /\ (Gate(n, prio) => ~(prio >= PriorityCeil))
    BY <1>1, GateSparesCritical DEF Gate
  <2>3. ShedsOnlyStandingQueues'
    BY <1>2, <1>6, <2>1, <2>2, Zenon
  <2> QED
    BY <1>1, <1>6, <2>1, <2>3, Zenon DEF ShedInv
<1> QED
  BY <1>3, <1>4, <1>5, <1>6, Zenon DEF Admit

\* shouldDrop begins to drop only after an interval without a sample below the
\* target, goes on only while the newest sample is not below it, and never
\* drops the highest priority: for every target, interval, set of priorities
\* and number of overlapping requests.
THEOREM SheddingIsJustified == ShedSpec => []ShedsOnlyStandingQueues
<1>1. ShedInit => ShedInv
  BY DEF ShedInit, ShedInv, Never, NoDrop, ShedsOnlyStandingQueues
<1>2. ShedInv /\ [ShedNext]_shedVars => ShedInv'
  <2> SUFFICES ASSUME ShedInv, [ShedNext]_shedVars PROVE ShedInv'
    OBVIOUS
  <2>1. ASSUME NEW r \in Requests, RecordSojourn(r) PROVE ShedInv'
    BY <2>1 DEF RecordSojourn, ShedInv, Never, ShedsOnlyStandingQueues
  <2>2. CASE ShedTick
    BY <2>2 DEF ShedTick, ShedInv, ShedsOnlyStandingQueues, shedder
  <2>3. CASE UNCHANGED shedVars
    BY <2>3, Zenon DEF shedVars, ShedInv, ShedsOnlyStandingQueues
  <2> QED
    BY <2>1, <2>2, <2>3, AdmitStep, Zenon DEF ShedNext
<1>3. ShedInv => ShedsOnlyStandingQueues
  BY Zenon DEF ShedInv
<1> QED
  BY <1>1, <1>2, <1>3, PTL DEF ShedSpec
=============================================================================
