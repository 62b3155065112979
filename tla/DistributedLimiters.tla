------------------------- MODULE DistributedLimiters -------------------------
(***************************************************************************)
(* The distributed limiters (tokenbucket, gcra, leakybucket, fixedwindow   *)
(* and slidingwindow, each distributed*.go) on the four stores that run    *)
(* their scripts.  Redis and the memory store run a script in one step;    *)
(* DynamoDB and Memcached read the item, compute, and write it back if it  *)
(* has not changed, a bounded number of times.  A call carries the clock   *)
(* of its process, which may be off the store's clock by Drift: skew and   *)
(* the time it spent on the way.  Keys expire by the store's clock.        *)
(*                                                                         *)
(* A second, the unit of DynamoDB's and Memcached's expiry and the margin  *)
(* the limiters add to theirs, is SecondTicks ticks.                       *)
(***************************************************************************)
EXTENDS LimiterScripts, FiniteSets, FiniteSetsExt

CONSTANTS
  DistCallers,
  DistSizes,       \* the n of AllowN
  Drift,           \* how far a call's clock may be off the store's
  SecondTicks,
  MaxTries,        \* bound for maxOCCRetries and maxCASRetries
  MaxDistNow, MaxAdmitted, MaxVersion

ASSUME DistAssumption ==
  /\ DistSizes \subseteq Nat \ {0} /\ Drift \in Nat /\ SecondTicks \in Nat \ {0}
  /\ MaxTries \in Nat \ {0} /\ MaxDistNow \in Nat /\ MaxAdmitted \in Nat /\ MaxVersion \in Nat

VARIABLES
  backend, script, serverTime,   \* the configuration
  drift,                         \* how far the callers' clocks may be off: 0 or Drift
  distNow,                       \* the store's clock
  items,                         \* per key (a window, or 0): value, expiry, version
  fallback,                      \* the same in the local memory store of the process
  distCall,                      \* per caller: its optimistic loop
  admitted, admittedLocal,       \* what each store admitted, in order
  resetRaced                     \* TRUE once a Reset fell between a read and its write

distVars == <<backend, script, serverTime, drift, distNow, items, fallback, distCall, admitted,
              admittedLocal, resetRaced>>
distConf == <<backend, script, serverTime, drift>>

Atomic == {"redis", "memory"}
Windowed == {"fixedWindow", "slidingCounter"}
Forever == MaxDistNow + 100 * SecondTicks
NoItem == [val |-> NoValue, exp |-> Forever, ver |-> 0]

\* windowKey: a window is named by its start; the other limiters have one key.
WindowStart(t) == (t \div WindowTicks) * WindowTicks
WindowKeys == {WindowStart(t) : t \in (0 - Drift - WindowTicks)..(MaxDistNow + Drift)}
Keys == IF script \in Windowed THEN WindowKeys ELSE {0}

Idle == [pc |-> "idle", n |-> 0, now |-> 0, tries |-> 0, seen |-> NoItem]

DistInit ==
  /\ backend \in {"redis", "memory", "dynamodb", "memcached"}
  /\ script \in SingleKey \cup (IF backend \in Atomic THEN {"slidingCounter"} ELSE {})
  /\ serverTime \in (IF backend \in Atomic /\ script \notin Windowed THEN BOOLEAN ELSE {FALSE})
  /\ drift \in {0, Drift}
  /\ distNow = 0
  /\ items = [k \in Keys |-> NoItem] /\ fallback = [k \in Keys |-> NoItem]
  /\ distCall = [c \in DistCallers |-> Idle]
  /\ admitted = <<>> /\ admittedLocal = <<>> /\ resetRaced = FALSE

-----------------------------------------------------------------------------
(* What the limiters pass                                                   *)

\* In server time mode a script takes the store's clock.  DynamoDB and Memcached
\* have no such mode, nor have the scripts whose keys are windows.
ScriptClock(t) == IF serverTime THEN distNow ELSE t

\* AllowN, once for every limiter: which n it sends to the store (some turn
\* down what can never fit), its clock and the expiry it asks for.  Any
\* error, and any reply but 1, denies; WaitN comes again later.
AllowTokenBucket(n, t) ==
  [sent |-> TRUE, now |-> ScriptClock(t), ttl |-> Cost(Burst) + SecondTicks]

AllowGCRA(n, t) ==
  [sent |-> n <= Burst, now |-> ScriptClock(t), ttl |-> Larger(Cost(Burst), SecondTicks)]

AllowLeakyBucket(n, t) ==
  [sent |-> n <= Burst, now |-> ScriptClock(t), ttl |-> Larger(Cost(Burst) + SecondTicks, SecondTicks)]

AllowSlidingLog(n, t) ==
  [sent |-> TRUE, now |-> ScriptClock(t), ttl |-> WindowTicks + SecondTicks]

AllowFixedWindow(n, t) ==
  [sent |-> TRUE, now |-> t, ttl |-> 2 * WindowTicks]

\* Its expiry is what is left of two windows from the start of this one.
AllowSlidingCounter(n, t) ==
  LET elapsed == t - WindowStart(t)
  IN  [sent |-> TRUE, now |-> t, ttl |-> Larger(2 * WindowTicks - elapsed, WindowTicks)]

AllowN(n, t) ==
  CASE script = "tokenBucket" -> AllowTokenBucket(n, t)
    [] script = "gcra" -> AllowGCRA(n, t)
    [] script = "leakyBucket" -> AllowLeakyBucket(n, t)
    [] script = "fixedWindow" -> AllowFixedWindow(n, t)
    [] script = "slidingLog" -> AllowSlidingLog(n, t)
    [] script = "slidingCounter" -> AllowSlidingCounter(n, t)

KeyAt(t) == IF script \in Windowed THEN WindowStart(t) ELSE 0

Up(x) == ((x + SecondTicks - 1) \div SecondTicks) * SecondTicks

\* The arguments of a call whose process reads t, on a store that holds s.
ScriptArgs(s, n, t) ==
  LET call == AllowN(n, t)
  IN  [n |-> n, now |-> call.now, ttl |-> call.ttl, denyTtl |-> Up(call.ttl), elapsed |-> t - WindowStart(t),
       prev |-> IF script = "slidingCounter" THEN s[WindowStart(t) - WindowTicks].val ELSE NoValue]

Admission(n, t) == [n |-> n, now |-> AllowN(n, t).now, key |-> KeyAt(t), elapsed |-> t - WindowStart(t)]

Sendable(n) == AllowN(n, distNow).sent

\* The items a store still has: Redis drops a key at its time, the memory
\* store after it.
Unexpired(s) ==
  [k \in Keys |-> IF distNow > s[k].exp \/ (backend # "memory" /\ distNow = s[k].exp) THEN NoItem ELSE s[k]]

StoreResult(s, k, r) ==
  IF ~r.write THEN s
  ELSE [s EXCEPT ![k] = [val |-> r.val, ver |-> 0,
                         exp |-> IF r.ttl = KeepTTL THEN @.exp ELSE distNow + r.ttl]]

-----------------------------------------------------------------------------
(* Redis and the memory store                                               *)

RunScript(s, n, t) ==
  IF backend = "redis" THEN RedisEval(script, s[KeyAt(t)].val, ScriptArgs(s, n, t))
  ELSE MemoryEval(script, s[KeyAt(t)].val, ScriptArgs(s, n, t))

EvalAtomic(n, t) ==
  LET live == Unexpired(items)
      r == RunScript(live, n, t)
  IN  /\ backend \in Atomic
      /\ Len(admitted) + Len(admittedLocal) < MaxAdmitted /\ Sendable(n)
      /\ items' = StoreResult(live, KeyAt(t), r)
      /\ admitted' = IF r.reply[1] = 1 THEN Append(admitted, Admission(n, t)) ELSE admitted
      /\ UNCHANGED <<distConf, distNow, fallback, distCall, admittedLocal, resetRaced>>

\* Redis cannot be reached: the process's own memory store answers, by its own
\* clock, whether or not Redis had run the script before the connection broke.
EvalFallback(n, t) ==
  LET live == Unexpired(items)
      mine == [k \in Keys |-> IF distNow > fallback[k].exp THEN NoItem ELSE fallback[k]]
      r == RedisEval(script, live[KeyAt(t)].val, ScriptArgs(live, n, t))
      f == MemoryEval(script, mine[KeyAt(t)].val, ScriptArgs(mine, n, t))
  IN  /\ backend = "redis"
      /\ Len(admitted) + Len(admittedLocal) < MaxAdmitted /\ Sendable(n)
      /\ fallback' = StoreResult(mine, KeyAt(t), f)
      /\ admittedLocal' = IF f.reply[1] = 1 THEN Append(admittedLocal, Admission(n, t)) ELSE admittedLocal
      /\ \/ UNCHANGED <<items, admitted>>
         \/ /\ items' = StoreResult(live, KeyAt(t), r)
            /\ admitted' = IF r.reply[1] = 1 THEN Append(admitted, Admission(n, t)) ELSE admitted
      /\ UNCHANGED <<distConf, distNow, distCall, resetRaced>>

-----------------------------------------------------------------------------
(* The optimistic loops of DynamoDB and Memcached                           *)

\* DynamoDB keeps the second of the expiry, and an item is absent for a reader
\* from that second on.  Memcached keeps whole seconds, rounded up.
ItemExpiry(ttl) ==
  IF backend = "dynamodb" THEN (distNow + ttl) \div SecondTicks ELSE distNow + Up(ttl)

SeenItem(k) ==
  LET e == items[k].exp
  IN  IF (backend = "dynamodb" /\ distNow \div SecondTicks >= e) \/ (backend = "memcached" /\ distNow >= e)
        THEN NoItem ELSE items[k]

ComputeItem(v, n, t) ==
  IF backend = "dynamodb" THEN DynamoEval(script, v, ScriptArgs(items, n, t))
  ELSE MemcachedEval(script, v, ScriptArgs(items, n, t))

\* What the loop computes from what it read; a denial that writes nothing ends
\* the call.
AfterRead(me) ==
  LET v == SeenItem(KeyAt(me.now))
      r == ComputeItem(v.val, me.n, me.now)
  IN  IF r.write THEN [me EXCEPT !.pc = "write", !.seen = v] ELSE Idle

\* A call, by a process whose clock is right, and its first read.  Bound: none
\* starts after a Reset that raced a write, when nothing more is promised.
StartCall(c, n) ==
  /\ backend \notin Atomic
  /\ distCall[c].pc = "idle" /\ ~resetRaced
  /\ Len(admitted) + Len(admittedLocal) < MaxAdmitted /\ Sendable(n)
  /\ items[KeyAt(distNow)].ver < MaxVersion
  /\ distCall' = [distCall EXCEPT ![c] = AfterRead([Idle EXCEPT !.n = n, !.now = distNow])]
  /\ UNCHANGED <<distConf, distNow, items, fallback, admitted, admittedLocal, resetRaced>>

\* The read of a later attempt.
ReadAgain(c) ==
  /\ distCall[c].pc = "read"
  /\ distCall' = [distCall EXCEPT ![c] = AfterRead(@)]
  /\ UNCHANGED <<distConf, distNow, items, fallback, admitted, admittedLocal, resetRaced>>

\* The conditional write takes effect: putIfVersion wants the version it read,
\* or no item or one that expired before this second; Add wants no item and
\* CompareAndSwap the very item that was read.
WriteCondition(c) ==
  LET me == distCall[c]
      k == KeyAt(me.now)
  IN  IF backend = "dynamodb"
        THEN IF me.seen = NoItem THEN items[k] = NoItem \/ items[k].exp < distNow \div SecondTicks
             ELSE items[k].ver = me.seen.ver
        ELSE SeenItem(k) = me.seen

\* Memcached's unique ids never recur (among those anyone still holds);
\* DynamoDB's versions start again at 1.
NextVersion(c) ==
  LET k == KeyAt(distCall[c].now)
  IN  IF backend = "dynamodb" THEN distCall[c].seen.ver + 1
      ELSE 1 + Max({items[k].ver} \cup {distCall[d].seen.ver : d \in {e \in DistCallers : KeyAt(distCall[e].now) = k}})

\* Variant: the write does not look at what is there.
WriteItemBlind(c) ==
  LET me == distCall[c]
      k == KeyAt(me.now)
      r == ComputeItem(me.seen.val, me.n, me.now)
  IN  /\ me.pc = "write" /\ distNow - me.now <= drift
      /\ items' = [items EXCEPT ![k] = [val |-> r.val, exp |-> ItemExpiry(r.ttl), ver |-> NextVersion(c)]]
      /\ admitted' = IF r.reply[1] = 1 THEN Append(admitted, Admission(me.n, me.now)) ELSE admitted
      /\ distCall' = [distCall EXCEPT ![c] = Idle]
      /\ UNCHANGED <<distConf, distNow, fallback, admittedLocal, resetRaced>>

\* Write, or go round again; the last attempt gives up, which denies.
WriteItem(c) ==
  LET me == distCall[c]
      k == KeyAt(me.now)
      r == ComputeItem(me.seen.val, me.n, me.now)
      again == IF me.tries + 1 = MaxTries THEN Idle
               ELSE [me EXCEPT !.pc = "read", !.tries = @ + 1, !.seen = NoItem]
  IN  /\ me.pc = "write" /\ distNow - me.now <= drift
      /\ IF WriteCondition(c)
           THEN /\ items' = [items EXCEPT ![k] = [val |-> r.val, exp |-> ItemExpiry(r.ttl), ver |-> NextVersion(c)]]
                /\ admitted' = IF r.reply[1] = 1 THEN Append(admitted, Admission(me.n, me.now)) ELSE admitted
                /\ distCall' = [distCall EXCEPT ![c] = Idle]
           ELSE distCall' = [distCall EXCEPT ![c] = again] /\ UNCHANGED <<items, admitted>>
      /\ UNCHANGED <<distConf, distNow, fallback, admittedLocal, resetRaced>>

\* The store cannot be reached, or the context ends.  The fallback's Eval is
\* called without the arguments and fails, so the call is denied; its write may
\* have been applied all the same.
LoseStore(c, applied) ==
  /\ distCall[c].pc # "idle"
  /\ IF applied /\ distCall[c].pc = "write" /\ WriteCondition(c)
       THEN WriteItem(c)
       ELSE /\ distCall' = [distCall EXCEPT ![c] = Idle]
            /\ UNCHANGED <<distConf, distNow, items, fallback, admitted, admittedLocal, resetRaced>>

-----------------------------------------------------------------------------

\* Reset deletes the key, or the keys of the current window and of the one
\* before it for a sliding counter, by the caller's clock.
ResetKeys(t) == {KeyAt(t)} \cup (IF script = "slidingCounter" THEN {KeyAt(t) - WindowTicks} ELSE {})

ResetLimiter(t) ==
  /\ \E k \in ResetKeys(t) : items[k] # NoItem
  /\ items' = [k \in Keys |-> IF k \in ResetKeys(t) THEN NoItem ELSE items[k]]
  /\ admitted' = SelectSeq(admitted, LAMBDA a : a.key \notin ResetKeys(t))
  /\ resetRaced' = (resetRaced \/ \E c \in DistCallers : distCall[c].pc = "write")
  /\ UNCHANGED <<distConf, distNow, fallback, distCall, admittedLocal>>

\* Time passes; a call that has outlived its bound is not left waiting.
DistTick ==
  /\ distNow < MaxDistNow
  /\ \A c \in DistCallers : distCall[c].pc # "idle" => distNow - distCall[c].now < drift
  /\ distNow' = distNow + 1
  /\ UNCHANGED <<distConf, items, fallback, distCall, admitted, admittedLocal, resetRaced>>

ClockOf == {t \in (distNow - drift)..(distNow + drift) : t >= 0}

DistNext ==
  \/ \E n \in DistSizes, t \in ClockOf :
       EvalAtomic(n, t) \/ EvalFallback(n, t)
  \/ \E c \in DistCallers, n \in DistSizes : StartCall(c, n)
  \/ \E c \in DistCallers : ReadAgain(c) \/ WriteItem(c) \/ \E applied \in BOOLEAN : LoseStore(c, applied)
  \/ \E t \in ClockOf : ResetLimiter(t)
  \/ DistTick

DistSpec == DistInit /\ [][DistNext]_distVars

-----------------------------------------------------------------------------
(* Properties                                                               *)

(***************************************************************************)
(* Every backend computes the same reply and stores the same value as the  *)
(* Lua script would, for whatever is stored and whatever is asked: the     *)
(* emulation (scripts_memory.go "mirrors TokenBucketScript" and so on) and *)
(* the client-side loops of the other two stores.  The memory store also   *)
(* sets the same expiry.  (Checked on what the memory store holds, which,  *)
(* as long as this is true, is what Redis would hold.)                     *)
(***************************************************************************)
BackendsAgree ==
  backend = "memory" => \A n \in DistSizes, t \in ClockOf :
    LET v == items[KeyAt(t)].val
        a == ScriptArgs(items, n, t)
        redis == RedisEval(script, v, a)
        same(r) == r.write = redis.write /\ r.val = redis.val /\ r.reply = redis.reply
    IN  /\ MemoryEval(script, v, a) = redis
        /\ script \in SingleKey => same(DynamoEval(script, v, a)) /\ same(MemcachedEval(script, v, a))

Total(log, S) == MapThenSumSet(LAMBDA i : log[i].n, S)

\* n tokens in any stretch of time are at most a burst and what it refills.
WithinRate(log) ==
  \A i, j \in DOMAIN log :
    log[i].now <= log[j].now =>
      Cost(Total(log, {k \in DOMAIN log : log[k].now \in log[i].now..log[j].now}))
        <= Cost(Burst) + (log[j].now - log[i].now)

WithinWindow(log) ==
  \A j \in DOMAIN log :
    Total(log, {k \in DOMAIN log : log[k].now \in (log[j].now - WindowTicks + 1)..log[j].now}) <= Burst

WithinKey(log) ==
  \A j \in DOMAIN log : Total(log, {k \in DOMAIN log : log[k].key = log[j].key}) <= Burst

\* When each call was admitted, the estimate from all that had been admitted
\* in its window and in the one before left room for it.
WithinEstimate(log) ==
  \A j \in DOMAIN log :
    LET earlier == {k \in 1..(j - 1) : log[k].key = log[j].key}
        prev == {k \in 1..(j - 1) : log[k].key = log[j].key - WindowTicks}
    IN  (Total(log, earlier) + log[j].n) * WindowTicks
          + Total(log, prev) * (WindowTicks - log[j].elapsed) <= Burst * WindowTicks

(***************************************************************************)
(* A fleet on one store keeps the limit: whatever the interleaving of the  *)
(* optimistic loops, lost connections, applied writes whose answer was     *)
(* lost, drifting clocks and keys that expire, what the store admitted     *)
(* conforms, and so does what the local fallback admitted on its own.      *)
(* Token and leaky buckets conform on drifting clocks because their expiry *)
(* has a second to spare (tokenbucket/distributed.go:94), and a window of  *)
(* a fixed or sliding counter never exceeds the limit.  GCRA, whose expiry *)
(* has none to spare, the sliding log, which prunes by the clock of        *)
(* whoever comes, and the estimate of the sliding counter, whose previous  *)
(* window expires when its last use ends, are exact on one clock only: in  *)
(* server time mode, or when the clocks agree.                             *)
(***************************************************************************)
FleetKeepsLimit ==
  \A log \in {admitted, admittedLocal} :
    resetRaced \/
      CASE script \in {"tokenBucket", "leakyBucket"} -> WithinRate(log)
        [] script = "gcra" -> serverTime \/ drift = 0 => WithinRate(log)
        [] script = "slidingLog" -> serverTime \/ drift = 0 => WithinWindow(log)
        [] script = "fixedWindow" -> WithinKey(log)
        [] script = "slidingCounter" -> WithinKey(log) /\ (drift = 0 => WithinEstimate(log))
=============================================================================
