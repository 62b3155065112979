--------------------------- MODULE LimiterScripts ---------------------------
(***************************************************************************)
(* The rate limiting scripts, once for every backend that implements them: *)
(* the Lua of ratelimit/store/redis.go, its emulation in scripts_memory.go *)
(* and the read-compute-write functions of stores/dynamodb and             *)
(* stores/memcached.  A script is a function of the stored value and of    *)
(* the arguments; its result is what it writes, if anything, the expiry it *)
(* sets and its reply.                                                     *)
(*                                                                         *)
(* Time is in ticks.  One token, or one emission interval, is              *)
(* EmissionTicks ticks, and a token bucket holds its tokens in ticks.      *)
(***************************************************************************)
EXTENDS Integers, Sequences, SequencesExt

CONSTANTS EmissionTicks, Burst, WindowTicks

ASSUME ScriptAssumption ==
  EmissionTicks \in Nat \ {0} /\ Burst \in Nat \ {0} /\ WindowTicks \in Nat \ {0}

\* A stored value is a sequence: the tokens and the time of the last refill,
\* an arrival time, a counter, or the scores of a log; the empty one when the
\* key is absent, or holds an empty log.
NoValue == <<>>
KeepTTL == -1

Larger(a, b) == IF a > b THEN a ELSE b
Smaller(a, b) == IF a < b THEN a ELSE b

Unwritten(reply) == [write |-> FALSE, val |-> NoValue, ttl |-> KeepTTL, reply |-> reply]
Written(val, ttl, reply) == [write |-> TRUE, val |-> val, ttl |-> ttl, reply |-> reply]

\* n tokens in ticks, and whole tokens in an amount of ticks (math.floor).
Cost(n) == n * EmissionTicks
Whole(x) == x \div EmissionTicks

-----------------------------------------------------------------------------
(* Redis: the Lua scripts                                                   *)

RedisTokenBucket(v, a) ==
  LET tokens == IF v = NoValue THEN Cost(Burst) ELSE v[1]
      refilled == a.now - (IF v = NoValue THEN a.now ELSE v[2])
      level == Smaller(Cost(Burst), tokens + refilled)
      fits == level >= Cost(a.n)
      left == IF fits THEN level - Cost(a.n) ELSE level
  IN  Written(<<left, a.now>>, a.ttl,
              <<IF fits THEN 1 ELSE 0, Whole(left), Whole(refilled)>>)

RedisFixedWindow(v, a) ==
  LET current == IF v = NoValue THEN 0 ELSE v[1]
  IN  IF current + a.n > Burst THEN Unwritten(<<0, current>>)
      ELSE Written(<<current + a.n>>, IF current + a.n = a.n THEN a.ttl ELSE KeepTTL, <<1, current + a.n>>)

RedisGCRA(v, a) ==
  LET tat == Larger(IF v = NoValue THEN a.now ELSE v[1], a.now) + Cost(a.n)
      limit == a.now + Cost(Burst)
  IN  IF tat > limit THEN Unwritten(<<0, tat - limit>>) ELSE Written(<<tat>>, a.ttl, <<1, 0>>)

\* A queue depth, from 0 to the capacity.
RedisDepth(x) == Smaller(Larger(Whole(x), 0), Burst)

RedisLeakyBucket(v, a) ==
  LET base == Larger(IF v = NoValue THEN a.now ELSE v[1], a.now)
      tat == base + Cost(a.n)
      limit == a.now + Cost(Burst)
  IN  IF tat > limit THEN Unwritten(<<0, RedisDepth(base - a.now), tat - limit>>)
      ELSE Written(<<tat>>, a.ttl, <<1, RedisDepth(tat - a.now), 0>>)

\* A sliding window log is stored as the scores in order; the members of two
\* calls, named by their time and a number of the process, are taken to differ.
RedisSlidingLog(v, a) ==
  LET kept == SelectSeq(v, LAMBDA s : s > a.now - WindowTicks)
      added == SortSeq(kept \o [i \in 1..a.n |-> a.now], <)
      wait == IF kept = <<>> THEN 0 ELSE Larger(WindowTicks - (a.now - Head(kept)), 0)
  IN  IF Len(kept) + a.n > Burst
        THEN Written(kept, a.denyTtl, <<0, Len(kept), wait>>)
        ELSE Written(added, a.ttl, <<1, Len(kept) + a.n, 0>>)

\* v is the counter of the current window, a.prev that of the previous one and
\* a.elapsed how far the current one has run.  Estimates are in WindowTicks'ths.
RedisSlidingCounter(v, a) ==
  LET current == IF v = NoValue THEN 0 ELSE v[1]
      prev == IF a.prev = NoValue THEN 0 ELSE a.prev[1]
      estimated == current * WindowTicks + prev * (WindowTicks - a.elapsed)
  IN  IF estimated + a.n * WindowTicks > Burst * WindowTicks
        THEN Unwritten(<<0, current, estimated>>)
        ELSE Written(<<current + a.n>>, IF current + a.n = a.n THEN a.ttl ELSE KeepTTL,
                     <<1, current + a.n, estimated>>)

-----------------------------------------------------------------------------
(* The in-memory emulation                                                  *)

MemoryTokenBucket(v, a) ==
  LET old == IF v # NoValue THEN v ELSE <<Cost(Burst), a.now>>
      refilled == a.now - old[2]
      tokens == Smaller(Cost(Burst), old[1] + refilled)
      allowed == IF tokens >= Cost(a.n) THEN 1 ELSE 0
      rest == tokens - allowed * Cost(a.n)
  IN  Written(<<rest, a.now>>, a.ttl, <<allowed, Whole(rest), Whole(refilled)>>)

MemoryGCRA(v, a) ==
  LET stored == IF v # NoValue THEN v[1] ELSE a.now
      base == IF a.now > stored THEN a.now ELSE stored
      over == (base + Cost(a.n)) - (a.now + Cost(Burst))
  IN  IF over > 0 THEN Unwritten(<<0, over>>) ELSE Written(<<base + Cost(a.n)>>, a.ttl, <<1, 0>>)

MemoryDepth(d) == IF Whole(d) < 0 THEN 0 ELSE IF Whole(d) > Burst THEN Burst ELSE Whole(d)

MemoryLeakyBucket(v, a) ==
  LET stored == IF v # NoValue THEN v[1] ELSE a.now
      base == IF a.now > stored THEN a.now ELSE stored
      over == (base + Cost(a.n)) - (a.now + Cost(Burst))
  IN  IF over > 0 THEN Unwritten(<<0, MemoryDepth(base - a.now), over>>)
      ELSE Written(<<base + Cost(a.n)>>, a.ttl, <<1, MemoryDepth(base + Cost(a.n) - a.now), 0>>)

\* The sorted set of the emulation: add appends each member and sorts,
\* removeByScoreUpTo drops a prefix.
MemoryZAdd(v, score, n) == SortSeq(v \o [i \in 1..n |-> score], <)

MemoryZRemove(v, cutoff) == SubSeq(v, 1 + Len(SelectSeq(v, LAMBDA s : s <= cutoff)), Len(v))

\* Variant: a denial looks at the count alone and ignores n.
MemorySlidingLogByCount(v, a) ==
  LET members == MemoryZRemove(v, a.now - WindowTicks)
  IN  IF Len(members) >= Burst
        THEN Written(members, a.denyTtl, <<0, Len(members), 0>>)
        ELSE Written(MemoryZAdd(members, a.now, a.n), a.ttl, <<1, Len(members) + a.n, 0>>)

MemorySlidingLog(v, a) ==
  LET members == MemoryZRemove(v, a.now - WindowTicks)
      retryAfter == IF members = <<>> THEN 0 ELSE Larger(0, WindowTicks - (a.now - members[1]))
  IN  IF Len(members) + a.n > Burst
        THEN Written(members, a.denyTtl, <<0, Len(members), retryAfter>>)
        ELSE Written(MemoryZAdd(members, a.now, a.n), a.ttl, <<1, Len(members) + a.n, 0>>)

MemoryCounter(v) == IF v = NoValue THEN 0 ELSE v[1]

MemorySlidingCounter(v, a) ==
  LET current == MemoryCounter(v)
      estimated == current * WindowTicks + MemoryCounter(a.prev) * (WindowTicks - a.elapsed)
  IN  IF estimated + a.n * WindowTicks > Burst * WindowTicks
        THEN Unwritten(<<0, current, estimated>>)
        ELSE Written(<<current + a.n>>, IF current = 0 THEN a.ttl ELSE KeepTTL, <<1, current + a.n, estimated>>)

MemoryFixedWindow(v, a) ==
  LET current == MemoryCounter(v)
  IN  IF current + a.n > Burst THEN Unwritten(<<0, current>>)
      ELSE Written(<<current + a.n>>, IF current = 0 THEN a.ttl ELSE KeepTTL, <<1, current + a.n>>)

-----------------------------------------------------------------------------
(* DynamoDB: the functions its optimistic loop computes                     *)

DynamoTokenBucket(v, a) ==
  LET lastRefill == IF v = NoValue THEN a.now ELSE v[2]
      before == IF v = NoValue THEN Cost(Burst) ELSE v[1]
      level == Smaller(Cost(Burst), before + (a.now - lastRefill))
      allowed == level >= Cost(a.n)
      after == IF allowed THEN level - Cost(a.n) ELSE level
  IN  Written(<<after, a.now>>, a.ttl,
              <<IF allowed THEN 1 ELSE 0, Whole(after), Whole(a.now - lastRefill)>>)

DynamoFixedWindow(v, a) ==
  LET count == a.n + (IF v = NoValue THEN 0 ELSE v[1])
  IN  IF count > Burst THEN Unwritten(<<0, count - a.n>>) ELSE Written(<<count>>, a.ttl, <<1, count>>)

DynamoGCRA(v, a) ==
  LET base == IF v = NoValue THEN a.now ELSE Larger(v[1], a.now)
      tat == base + Cost(a.n)
  IN  IF tat > a.now + Cost(Burst) THEN Unwritten(<<0, tat - (a.now + Cost(Burst))>>)
      ELSE Written(<<tat>>, a.ttl, <<1, 0>>)

DynamoLeakyBucket(v, a) ==
  LET base == IF v = NoValue THEN a.now ELSE Larger(v[1], a.now)
      tat == base + Cost(a.n)
      depth(x) == Larger(0, Smaller(Whole(x), Burst))
  IN  IF tat > a.now + Cost(Burst)
        THEN Unwritten(<<0, depth(base - a.now), tat - (a.now + Cost(Burst))>>)
        ELSE Written(<<tat>>, a.ttl, <<1, depth(tat - a.now), 0>>)

DynamoZAdd(v, score, n) == SortSeq(v \o [i \in 1..n |-> score], <)

DynamoZRemove(v, cutoff) == SubSeq(v, 1 + Len(SelectSeq(v, LAMBDA s : s <= cutoff)), Len(v))

DynamoSlidingLog(v, a) ==
  LET live == DynamoZRemove(v, a.now - WindowTicks)
      since == IF live = <<>> THEN WindowTicks ELSE a.now - Head(live)
  IN  IF Len(live) + a.n > Burst
        THEN Written(live, a.denyTtl,
                     <<0, Len(live), Larger(0, WindowTicks - since)>>)
        ELSE Written(DynamoZAdd(live, a.now, a.n), a.ttl, <<1, Len(live) + a.n, 0>>)

-----------------------------------------------------------------------------
(* Memcached: the functions its compare-and-swap loop computes              *)

MemcachedTokenBucket(v, a) ==
  LET known == v # NoValue
      refilled == IF known THEN a.now - v[2] ELSE 0
      tokens == Smaller(Cost(Burst), (IF known THEN v[1] ELSE Cost(Burst)) + refilled)
      left(k) == <<tokens - Cost(k), a.now>>
  IN  IF tokens >= Cost(a.n)
        THEN Written(left(a.n), a.ttl, <<1, Whole(tokens - Cost(a.n)), Whole(refilled)>>)
        ELSE Written(left(0), a.ttl, <<0, Whole(tokens), Whole(refilled)>>)

MemcachedFixedWindow(v, a) ==
  LET current == IF v = NoValue THEN 0 ELSE v[1]
  IN  IF current + a.n > Burst THEN Unwritten(<<0, current>>)
      ELSE Written(<<current + a.n>>, a.ttl, <<1, current + a.n>>)

MemcachedGCRA(v, a) ==
  LET base == Larger(a.now, IF v = NoValue THEN a.now ELSE v[1])
      ahead == base + Cost(a.n) - a.now
  IN  IF ahead > Cost(Burst) THEN Unwritten(<<0, ahead - Cost(Burst)>>)
      ELSE Written(<<a.now + ahead>>, a.ttl, <<1, 0>>)

MemcachedLeakyBucket(v, a) ==
  LET base == Larger(a.now, IF v = NoValue THEN a.now ELSE v[1])
      ahead == base + Cost(a.n) - a.now
      depth(x) == Smaller(Burst, Larger(Whole(x), 0))
  IN  IF ahead > Cost(Burst) THEN Unwritten(<<0, depth(base - a.now), ahead - Cost(Burst)>>)
      ELSE Written(<<a.now + ahead>>, a.ttl, <<1, depth(ahead), 0>>)

MemcachedZAdd(v, score, n) == SortSeq(v \o [i \in 1..n |-> score], <)

MemcachedZRemove(v, cutoff) == SubSeq(v, 1 + Len(SelectSeq(v, LAMBDA s : s <= cutoff)), Len(v))

MemcachedSlidingLog(v, a) ==
  LET scores == MemcachedZRemove(v, a.now - WindowTicks)
      full == Len(scores) + a.n > Burst
      retry == IF full /\ scores # <<>> THEN Larger(0, Head(scores) + WindowTicks - a.now) ELSE 0
  IN  IF full THEN Written(scores, a.denyTtl, <<0, Len(scores), retry>>)
      ELSE Written(MemcachedZAdd(scores, a.now, a.n), a.ttl, <<1, Len(scores) + a.n, 0>>)

-----------------------------------------------------------------------------
(* Eval                                                                     *)

\* The scripts Redis and the memory store know.
RedisEval(script, v, a) ==
  CASE script = "tokenBucket" -> RedisTokenBucket(v, a)
    [] script = "fixedWindow" -> RedisFixedWindow(v, a)
    [] script = "gcra" -> RedisGCRA(v, a)
    [] script = "leakyBucket" -> RedisLeakyBucket(v, a)
    [] script = "slidingLog" -> RedisSlidingLog(v, a)
    [] script = "slidingCounter" -> RedisSlidingCounter(v, a)

MemoryEval(script, v, a) ==
  CASE script = "tokenBucket" -> MemoryTokenBucket(v, a)
    [] script = "fixedWindow" -> MemoryFixedWindow(v, a)
    [] script = "gcra" -> MemoryGCRA(v, a)
    [] script = "leakyBucket" -> MemoryLeakyBucket(v, a)
    [] script = "slidingLog" -> MemorySlidingLog(v, a)
    [] script = "slidingCounter" -> MemorySlidingCounter(v, a)

\* The scripts that need one key, the only ones an item-at-a-time store runs.
SingleKey == {"tokenBucket", "fixedWindow", "gcra", "leakyBucket", "slidingLog"}

DynamoEval(script, v, a) ==
  CASE script = "tokenBucket" -> DynamoTokenBucket(v, a)
    [] script = "fixedWindow" -> DynamoFixedWindow(v, a)
    [] script = "gcra" -> DynamoGCRA(v, a)
    [] script = "leakyBucket" -> DynamoLeakyBucket(v, a)
    [] script = "slidingLog" -> DynamoSlidingLog(v, a)

MemcachedEval(script, v, a) ==
  CASE script = "tokenBucket" -> MemcachedTokenBucket(v, a)
    [] script = "fixedWindow" -> MemcachedFixedWindow(v, a)
    [] script = "gcra" -> MemcachedGCRA(v, a)
    [] script = "leakyBucket" -> MemcachedLeakyBucket(v, a)
    [] script = "slidingLog" -> MemcachedSlidingLog(v, a)
=============================================================================
