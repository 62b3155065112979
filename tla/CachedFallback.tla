--------------------------- MODULE CachedFallback ---------------------------
(***************************************************************************)
(* Cached (fallback/cached.go): per key, the last good value of a primary  *)
(* lookup; concurrent lookups of a key share one call of the primary.      *)
(*                                                                         *)
(* A value is the number of the version that the primary had when the      *)
(* lookup began; the versions of a key only grow.  A call that the group   *)
(* forgets is known to those that joined it only.                          *)
(***************************************************************************)
EXTENDS Integers, FiniteSets

CONSTANTS
  CacheCallers, CacheKeys,
  FreshFor, StaleFor,     \* TTL, StaleWhileError; 0 is never
  MaxEntries,             \* 0 is no limit
  MaxCacheNow, MaxSource

ASSUME CacheAssumption ==
  /\ FreshFor \in Nat /\ StaleFor \in Nat /\ MaxEntries \in Nat /\ MaxCacheNow \in Nat /\ MaxSource \in Nat
  /\ "none" \notin CacheCallers     \* no caller: stands for a nil call

VARIABLES
  serveFresh,       \* ModeServeFreshFromCache
  cacheNow,
  source,           \* per key: the version of the primary
  cached,           \* store: per key the value and when it was stored
  group,            \* calls: per key, the leader of the call in flight
  shared,           \* per leader: the result of its call, once there
  lookup,           \* per caller: pc, key, whom it joined, the newest value seen before it began
  newest,           \* per key: the newest value any caller got
  wentBack          \* TRUE once a caller got a value older than one handed out before it asked

cacheVars == <<serveFresh, cacheNow, source, cached, group, shared, lookup, newest, wentBack>>

Missing == [val |-> 0, at |-> 0]     \* versions start at 1
Pending == [val |-> 0, ready |-> FALSE]
Outside == [pc |-> "out", key |-> "none", leader |-> "none", floor |-> 0, val |-> 0]

CacheInit ==
  /\ serveFresh \in BOOLEAN /\ cacheNow = 0
  /\ source = [k \in CacheKeys |-> 1]
  /\ cached = [k \in CacheKeys |-> Missing]
  /\ group = [k \in CacheKeys |-> "none"]
  /\ shared = [c \in CacheCallers |-> Pending]
  /\ lookup = [c \in CacheCallers |-> Outside]
  /\ newest = [k \in CacheKeys |-> 0] /\ wentBack = FALSE

FreshValue(k) == IF cached[k].val # 0 /\ FreshFor > 0 /\ cacheNow - cached[k].at < FreshFor THEN cached[k].val ELSE 0
StaleValue(k) == IF cached[k].val # 0 /\ StaleFor > 0 /\ cacheNow - cached[k].at <= StaleFor THEN cached[k].val ELSE 0

\* The caller returns val, or an error when it is 0.
CacheReturn(c, val) ==
  /\ newest' = [newest EXCEPT ![lookup[c].key] = IF val > @ THEN val ELSE @]
  /\ wentBack' = (wentBack \/ (val # 0 /\ val < lookup[c].floor))
  /\ lookup' = [lookup EXCEPT ![c] = [Outside EXCEPT !.pc = "returned"]]

\* A lookup, with its fast path: a fresh value is served from the cache.
LookUp(c, k) ==
  LET v == FreshValue(k)
  IN  /\ lookup[c].pc = "out"
      /\ IF serveFresh /\ v # 0
           THEN /\ newest' = [newest EXCEPT ![k] = IF v > @ THEN v ELSE @]
                /\ wentBack' = (wentBack \/ v < newest[k])
                /\ UNCHANGED lookup
           ELSE /\ lookup' = [lookup EXCEPT ![c] = [Outside EXCEPT !.pc = "enter", !.key = k, !.floor = newest[k]]]
                /\ UNCHANGED <<newest, wentBack>>
      /\ UNCHANGED <<serveFresh, cacheNow, source, cached, group, shared>>

\* callGroup.do, under its lock: join the call in flight, or lead one.
EnterGroup(c) ==
  LET k == lookup[c].key
      free == group[k] = "none"
  IN  /\ lookup[c].pc = "enter"
      /\ group' = IF free THEN [group EXCEPT ![k] = c] ELSE group
      /\ shared' = IF free THEN [shared EXCEPT ![c] = Pending] ELSE shared
      /\ lookup' = [lookup EXCEPT ![c].pc = IF free THEN "recheck" ELSE "joined",
                                  ![c].leader = IF free THEN "none" ELSE group[k]]
      /\ UNCHANGED <<serveFresh, cacheNow, source, cached, newest, wentBack>>

\* The leader looks again, then calls the primary.
LeaderRecheck(c) ==
  LET k == lookup[c].key
      v == FreshValue(k)
  IN  /\ lookup[c].pc = "recheck"
      /\ IF serveFresh /\ v # 0
           THEN /\ lookup' = [lookup EXCEPT ![c].pc = "leave", ![c].val = v]
                /\ shared' = [shared EXCEPT ![c] = [val |-> v, ready |-> TRUE]]
           ELSE /\ lookup' = [lookup EXCEPT ![c].pc = "primary", ![c].val = source[k]]
                /\ UNCHANGED shared
      /\ UNCHANGED <<serveFresh, cacheNow, source, cached, group, newest, wentBack>>

\* storeValue: at the limit, the entry stored longest ago makes room; among
\* those of the same time, any.
StoreValue(k, v) ==
  LET next == [cached EXCEPT ![k] = [val |-> v, at |-> cacheNow]]
      held == {j \in CacheKeys : next[j].val # 0}
      oldest == {j \in held \ {k} : \A i \in held \ {k} : next[j].at <= next[i].at}
  IN  IF cached[k].val = 0 /\ MaxEntries > 0 /\ Cardinality(held) > MaxEntries
        THEN \E j \in oldest : cached' = [next EXCEPT ![j] = Missing]
        ELSE cached' = next

\* The primary answers: a value is stored, a failure is answered from the cache
\* if what is there is not too old.  Done releases those who joined.
PrimaryReturns(c, ok) ==
  LET k == lookup[c].key
      v == IF ok THEN lookup[c].val ELSE StaleValue(k)
  IN  /\ lookup[c].pc = "primary"
      /\ IF ok THEN StoreValue(k, v) ELSE UNCHANGED cached
      /\ shared' = [shared EXCEPT ![c] = [val |-> v, ready |-> TRUE]]
      /\ lookup' = [lookup EXCEPT ![c].pc = "leave", ![c].val = v]
      /\ UNCHANGED <<serveFresh, cacheNow, source, group, newest, wentBack>>

\* Variant: the call gives up its place before it runs.
LeaveGroupEarly(c) ==
  \/ /\ lookup[c].pc = "primary" /\ group[lookup[c].key] = c
     /\ group' = [group EXCEPT ![lookup[c].key] = "none"]
     /\ UNCHANGED <<serveFresh, cacheNow, source, cached, shared, lookup, newest, wentBack>>
  \/ /\ lookup[c].pc = "leave"
     /\ group' = [group EXCEPT ![lookup[c].key] = IF @ = c THEN "none" ELSE @]
     /\ CacheReturn(c, lookup[c].val)
     /\ UNCHANGED <<serveFresh, cacheNow, source, cached, shared>>

\* The leader takes its call out and returns.
LeaveGroup(c) ==
  /\ lookup[c].pc = "leave"
  /\ group' = [group EXCEPT ![lookup[c].key] = IF @ = c THEN "none" ELSE @]
  /\ CacheReturn(c, lookup[c].val)
  /\ UNCHANGED <<serveFresh, cacheNow, source, cached, shared>>

Joined(c) ==
  LET r == shared[lookup[c].leader]
  IN  /\ lookup[c].pc = "joined" /\ r.ready
      /\ CacheReturn(c, r.val)
      /\ UNCHANGED <<serveFresh, cacheNow, source, cached, group, shared>>

\* The primary panics: nothing releases those who joined, nor the place.
PrimaryPanics(c) ==
  /\ lookup[c].pc = "primary"
  /\ lookup' = [lookup EXCEPT ![c].pc = "panicked", ![c].val = 0]
  /\ UNCHANGED <<serveFresh, cacheNow, source, cached, group, shared, newest, wentBack>>

\* A caller starts over when nobody waits for its last call.
CallAgain(c) ==
  /\ lookup[c].pc = "returned" /\ \A d \in CacheCallers : lookup[d].leader # c
  /\ lookup' = [lookup EXCEPT ![c] = Outside]
  /\ shared' = [shared EXCEPT ![c] = Pending]
  /\ UNCHANGED <<serveFresh, cacheNow, source, cached, group, newest, wentBack>>

SourceChanges(k) ==
  /\ source[k] < MaxSource /\ source' = [source EXCEPT ![k] = @ + 1]
  /\ UNCHANGED <<serveFresh, cacheNow, cached, group, shared, lookup, newest, wentBack>>

CacheTick ==
  /\ cacheNow < MaxCacheNow /\ cacheNow' = cacheNow + 1
  /\ UNCHANGED <<serveFresh, source, cached, group, shared, lookup, newest, wentBack>>

CacheNext ==
  \/ \E c \in CacheCallers :
       \/ \E k \in CacheKeys : LookUp(c, k)
       \/ EnterGroup(c) \/ LeaderRecheck(c) \/ LeaveGroup(c) \/ Joined(c)
       \/ \E ok \in BOOLEAN : PrimaryReturns(c, ok)
       \/ PrimaryPanics(c) \/ CallAgain(c)
  \/ \E k \in CacheKeys : SourceChanges(k)
  \/ CacheTick

CacheSpec == CacheInit /\ [][CacheNext]_cacheVars

-----------------------------------------------------------------------------
(* Properties                                                               *)

(***************************************************************************)
(* Sharing calls and serving from the cache never turns time back: a       *)
(* caller that gets a value, fresh, shared or stale, gets one no older     *)
(* than any that had been handed out before it asked (Cached.Do,           *)
(* callGroup.do).  And whoever joined a call is released by it, unless its *)
(* primary panicked: its leader is still at work or has left a result      *)
(* ("the others share its result", cached.go:178).                         *)
(***************************************************************************)
CacheNeverGoesBack ==
  /\ ~wentBack
  /\ \A c \in CacheCallers :
       LET me == lookup[c]
       IN  me.pc = "joined" => \/ shared[me.leader].ready
                               \/ lookup[me.leader].key = me.key
                                    /\ lookup[me.leader].pc \in {"recheck", "primary", "panicked"}
=============================================================================
