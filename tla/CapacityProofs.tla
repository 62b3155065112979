--------------------------- MODULE CapacityProofs ---------------------------
(***************************************************************************)
(* What is counted against a limit, for every limit and number of callers: *)
(* the keys of the in-memory store, the probes of the circuit breaker and  *)
(* the slots of the bulkhead.                                              *)
(***************************************************************************)
EXTENDS MemoryStore, CircuitBreaker, Bulkhead, FiniteSetTheorems, TLAPS

\* What proves a step that names no prover.
USE SMTT(30), Z3T(30), Zenon

-----------------------------------------------------------------------------
(* The in-memory store                                                      *)

Pcs == {"idle", "load", "reserve", "undo", "swap", "publish", "late", "lateUndo", "lateDelete",
        "release", "update", "remove", "evict", "decrement"}
Creating == {"setnx", "getset", "incr", "eval"}
Ops == Creating \cup {"none", "get", "set", "del"}

CallRecord ==
  [pc : Pcs, op : Ops, key : StoreKeys \cup {"none"}, ttl : BOOLEAN,
   reserved : BOOLEAN, lost : BOOLEAN, early : BOOLEAN]

StoreTypes ==
  /\ entries \in [StoreKeys -> {"absent", "forever", "live", "expired"}]
  /\ keyCount \in Int /\ slotDrift \in Nat /\ storeClosed \in BOOLEAN
  /\ client \in [StoreClients -> CallRecord]

Holds(r) == r.pc \in {"update", "evict"} \/ (r.pc = "release" /\ r.op # "set")

\* What is true of a call at each of its steps.  Above all: an entry it holds
\* and has not lost is in the map.
CallOK(r) ==
  /\ r.pc # "idle" => r.key \in StoreKeys
  /\ r.lost => r.pc \in {"update", "evict", "release"}
  /\ r.pc = "load" => ~r.reserved /\ r.op \in Creating \cup {"get"}
  /\ r.pc = "evict" => r.op = "get"
  /\ r.pc \in {"publish", "update"} => r.op \in Creating
  /\ r.pc \in {"reserve", "release"} => r.op \in Creating \cup {"set"}
  /\ r.pc = "swap" => r.op = "set" /\ (MaxKeys > 0 => r.reserved)
  /\ Holds(r) => r.lost \/ entries[r.key] # "absent"

CallsOK == \A c \in StoreClients : CallOK(client[c])

\* Calls that found the count above the limit and have not taken one off it.
Over == In({"undo", "lateUndo"})

Ledger ==
  /\ keyCount = Cardinality(Present) + Cardinality(InFlight) - Cardinality(Unpaid) - slotDrift
  /\ keyCount - Cardinality(Over) <= MaxKeys

\* The inductive invariant.
StoreInv == StoreTypes /\ CallsOK /\ (MaxKeys > 0 => Ledger)

-----------------------------------------------------------------------------
(* Counting                                                                 *)

\* Two sets that agree but for one element.
LEMMA OneElement ==
  ASSUME NEW X, IsFiniteSet(X), NEW S \in SUBSET X, NEW T \in SUBSET X, NEW c \in X,
         \A d \in X \ {c} : d \in S <=> d \in T
  PROVE  /\ Cardinality(S) \in Nat /\ Cardinality(T) \in Nat
         /\ (c \in S <=> c \in T) => Cardinality(T) = Cardinality(S)
         /\ c \notin S /\ c \in T => Cardinality(T) = Cardinality(S) + 1
         /\ c \in S /\ c \notin T => Cardinality(T) = Cardinality(S) - 1
<1>1. IsFiniteSet(S) /\ IsFiniteSet(T) /\ Cardinality(S) \in Nat /\ Cardinality(T) \in Nat
  BY FS_Subset, FS_CardinalityType, Zenon
<1>2. (c \in S <=> c \in T) => T = S
  OBVIOUS
<1>3. c \notin S /\ c \in T => T = S \cup {c}
  BY Zenon
<1>4. c \in S /\ c \notin T => T = S \ {c}
  BY Zenon
<1>5. c \notin S /\ c \in T => Cardinality(T) = Cardinality(S) + 1
  BY <1>1, <1>3, FS_AddElement
<1>6. c \in S /\ c \notin T => Cardinality(T) = Cardinality(S) - 1
  BY <1>1, <1>4, FS_RemoveElement, Zenon
<1> QED BY <1>1, <1>2, <1>5, <1>6, Zenon

One(b) == IF b THEN 1 ELSE 0

\* What a call contributes to the three sets of the ledger.
Flies(r) == r.pc \in {"undo", "lateUndo", "release", "decrement"} \/ (r.pc \in {"swap", "publish"} /\ r.reserved)
Owes(r) == r.pc \in {"late", "lateUndo", "lateDelete"}
Exceeds(r) == r.pc \in {"undo", "lateUndo"}

(***************************************************************************)
(* A step of one call on one key keeps the ledger if the count moves with  *)
(* what the call and the key contribute, and if the count grows only below *)
(* the limit or by a call that will take it back.                          *)
(***************************************************************************)
LEMMA LedgerKept ==
  ASSUME StoreTypes, StoreTypes', Ledger, NEW c \in StoreClients, NEW k \in StoreKeys,
         \A d \in StoreClients \ {c} : client'[d].pc = client[d].pc /\ client'[d].reserved = client[d].reserved,
         \A j \in StoreKeys \ {k} : entries'[j] = "absent" <=> entries[j] = "absent",
         keyCount' = keyCount + (One(entries'[k] # "absent") - One(entries[k] # "absent"))
                              + (One(Flies(client'[c])) - One(Flies(client[c])))
                              - (One(Owes(client'[c])) - One(Owes(client[c])))
                              - (slotDrift' - slotDrift),
         \/ keyCount' - One(Exceeds(client'[c])) <= keyCount - One(Exceeds(client[c]))
         \/ keyCount' <= MaxKeys
  PROVE  Ledger'
<1> USE StoreAssumption
<1>1. /\ Cardinality(Present) \in Nat /\ Cardinality(Present') \in Nat
      /\ Cardinality(Present') = Cardinality(Present) + (One(entries'[k] # "absent") - One(entries[k] # "absent"))
  <2>1. Present \in SUBSET StoreKeys /\ Present' \in SUBSET StoreKeys
    BY Zenon DEF Present
  <2>2. \A j \in StoreKeys \ {k} : j \in Present <=> j \in Present'
    BY Zenon DEF Present
  <2>3. (k \in Present <=> entries[k] # "absent") /\ (k \in Present' <=> entries'[k] # "absent")
    BY Zenon DEF Present
  <2> HIDE DEF Present
  <2> QED BY <2>1, <2>2, <2>3, OneElement DEF One
<1>2. /\ Cardinality(InFlight) \in Nat /\ Cardinality(InFlight') \in Nat
      /\ Cardinality(InFlight') = Cardinality(InFlight) + (One(Flies(client'[c])) - One(Flies(client[c])))
  <2>1. InFlight \in SUBSET StoreClients /\ InFlight' \in SUBSET StoreClients
    BY Zenon DEF InFlight
  <2>2. \A d \in StoreClients \ {c} : d \in InFlight <=> d \in InFlight'
    BY Zenon DEF InFlight
  <2>3. (c \in InFlight <=> Flies(client[c])) /\ (c \in InFlight' <=> Flies(client'[c]))
    BY Zenon DEF InFlight, Flies
  <2> QED BY <2>1, <2>2, <2>3, OneElement DEF One
<1>3. /\ Cardinality(Unpaid) \in Nat /\ Cardinality(Unpaid') \in Nat
      /\ Cardinality(Unpaid') = Cardinality(Unpaid) + (One(Owes(client'[c])) - One(Owes(client[c])))
  <2>1. Unpaid \in SUBSET StoreClients /\ Unpaid' \in SUBSET StoreClients
    BY Zenon DEF Unpaid, In
  <2>2. \A d \in StoreClients \ {c} : d \in Unpaid <=> d \in Unpaid'
    BY Zenon DEF Unpaid, In
  <2>3. (c \in Unpaid <=> Owes(client[c])) /\ (c \in Unpaid' <=> Owes(client'[c]))
    BY Zenon DEF Unpaid, In, Owes
  <2> QED BY <2>1, <2>2, <2>3, OneElement DEF One
<1>4. /\ Cardinality(Over) \in Nat /\ Cardinality(Over') \in Nat
      /\ Cardinality(Over') = Cardinality(Over) + (One(Exceeds(client'[c])) - One(Exceeds(client[c])))
  <2>1. Over \in SUBSET StoreClients /\ Over' \in SUBSET StoreClients
    BY Zenon DEF Over, In
  <2>2. \A d \in StoreClients \ {c} : d \in Over <=> d \in Over'
    BY Zenon DEF Over, In
  <2>3. (c \in Over <=> Exceeds(client[c])) /\ (c \in Over' <=> Exceeds(client'[c]))
    BY Zenon DEF Over, In, Exceeds
  <2> QED BY <2>1, <2>2, <2>3, OneElement DEF One
<1>5. /\ One(entries'[k] # "absent") \in Int /\ One(entries[k] # "absent") \in Int
      /\ One(Flies(client'[c])) \in Int /\ One(Flies(client[c])) \in Int
      /\ One(Owes(client'[c])) \in Int /\ One(Owes(client[c])) \in Int
      /\ One(Exceeds(client'[c])) \in Int /\ One(Exceeds(client[c])) \in Int
  BY DEF One
<1>6. keyCount' = Cardinality(Present') + Cardinality(InFlight') - Cardinality(Unpaid') - slotDrift'
  BY <1>1, <1>2, <1>3, <1>5 DEF Ledger, StoreTypes
<1>7. keyCount' - Cardinality(Over') <= MaxKeys
  BY <1>4, <1>5 DEF Ledger, StoreTypes
<1> QED BY <1>6, <1>7, Zenon DEF Ledger

-----------------------------------------------------------------------------
(* How the steps change the calls                                           *)

\* The record between two calls.
LEMMA NoCallFields ==
  /\ NoCall \in CallRecord /\ NoCall.pc = "idle" /\ ~NoCall.reserved /\ ~NoCall.lost /\ NoCall.op = "none"
BY Zenon DEF NoCall, CallRecord, Pcs, Ops

\* To(c, step) moves one call and leaves the others alone.
LEMMA ToCall ==
  ASSUME StoreTypes, NEW c \in StoreClients, NEW step \in Pcs
  PROVE  /\ To(c, step) \in [StoreClients -> CallRecord]
         /\ \A d \in StoreClients \ {c} : To(c, step)[d] = client[d]
         /\ To(c, step)[c].pc = step
         /\ step = "idle" => To(c, step)[c] = NoCall
         /\ step # "idle" => /\ To(c, step)[c].op = client[c].op /\ To(c, step)[c].key = client[c].key
                           /\ To(c, step)[c].reserved = client[c].reserved /\ To(c, step)[c].lost = client[c].lost
<1>1. CASE step = "idle"
  BY <1>1, NoCallFields, Zenon DEF To, StoreTypes
<1>2. CASE step # "idle"
  <2>1. client[c] \in CallRecord
    BY Zenon DEF StoreTypes
  <2>2. [client[c] EXCEPT !.pc = step] \in CallRecord
    BY <2>1, Zenon DEF CallRecord
  <2>3. To(c, step) = [client EXCEPT ![c] = [client[c] EXCEPT !.pc = step]]
    BY <1>2, Zenon DEF To, StoreTypes
  <2> QED BY <1>2, <2>1, <2>2, <2>3 DEF StoreTypes, CallRecord
<1> QED BY <1>1, <1>2, Zenon

\* Replaced marks the calls that hold an entry of k and changes nothing else.
LEMMA ReplacedCalls ==
  ASSUME NEW k, NEW cs \in [StoreClients -> CallRecord]
  PROVE  /\ Replaced(k, cs) \in [StoreClients -> CallRecord]
         /\ \A d \in StoreClients :
              /\ Replaced(k, cs)[d].pc = cs[d].pc /\ Replaced(k, cs)[d].op = cs[d].op
              /\ Replaced(k, cs)[d].key = cs[d].key /\ Replaced(k, cs)[d].reserved = cs[d].reserved
              /\ Replaced(k, cs)[d].lost =
                   (cs[d].lost \/ (cs[d].key = k /\ cs[d].pc \in {"update", "evict", "release"} /\ cs[d].op # "set"))
<1>1. ASSUME NEW d \in StoreClients
      PROVE  /\ Replaced(k, cs)[d] \in CallRecord
             /\ Replaced(k, cs)[d].pc = cs[d].pc /\ Replaced(k, cs)[d].op = cs[d].op
             /\ Replaced(k, cs)[d].key = cs[d].key /\ Replaced(k, cs)[d].reserved = cs[d].reserved
             /\ Replaced(k, cs)[d].lost =
                  (cs[d].lost \/ (cs[d].key = k /\ cs[d].pc \in {"update", "evict", "release"} /\ cs[d].op # "set"))
  <2>1. cs[d] \in CallRecord
    BY Zenon
  <2>2. CASE cs[d].key = k /\ cs[d].pc \in {"update", "evict", "release"} /\ cs[d].op # "set"
    <3>1. Replaced(k, cs)[d] = [cs[d] EXCEPT !.lost = TRUE, !.early = FALSE]
      BY <2>2, Zenon DEF Replaced
    <3> QED BY <2>1, <2>2, <3>1, Zenon DEF CallRecord
  <2>3. CASE ~(cs[d].key = k /\ cs[d].pc \in {"update", "evict", "release"} /\ cs[d].op # "set")
    <3>1. Replaced(k, cs)[d] = cs[d]
      BY <2>3, Zenon DEF Replaced
    <3> QED BY <2>1, <2>3, <3>1, Zenon DEF CallRecord
  <2> QED BY <2>2, <2>3, Zenon
<1>2. Replaced(k, cs) = [d \in StoreClients |-> Replaced(k, cs)[d]]
  BY Zenon DEF Replaced
<1> QED BY <1>1, <1>2, Zenon

\* A call that a step leaves alone stays correct unless its key goes.
LEMMA OthersOK ==
  ASSUME StoreTypes, CallsOK, NEW c \in StoreClients,
         \A d \in StoreClients \ {c} : client'[d] = client[d],
         \A j \in StoreKeys : entries[j] # "absent" => entries'[j] # "absent"
  PROVE  \A d \in StoreClients \ {c} : CallOK(client[d])'
BY DEF StoreTypes, CallRecord, CallsOK, CallOK, Holds

\* ... and if the key goes, the call is marked.
LEMMA MarkedOK ==
  ASSUME StoreTypes, CallsOK, NEW c \in StoreClients, NEW k \in StoreKeys, NEW step \in Pcs,
         client' = Replaced(k, To(c, step)),
         \A j \in StoreKeys \ {k} : entries'[j] = entries[j]
  PROVE  \A d \in StoreClients \ {c} : CallOK(client[d])'
<1> SUFFICES ASSUME NEW d \in StoreClients \ {c} PROVE CallOK(client[d])'
  BY Zenon
<1>1. /\ client'[d].pc = client[d].pc /\ client'[d].op = client[d].op /\ client'[d].key = client[d].key
      /\ client'[d].reserved = client[d].reserved
      /\ client'[d].lost =
           (client[d].lost \/ (client[d].key = k /\ client[d].pc \in {"update", "evict", "release"} /\ client[d].op # "set"))
  BY ToCall, ReplacedCalls
<1>2. CallOK(client[d]) /\ client[d] \in CallRecord
  BY Zenon DEF CallsOK, StoreTypes
<1>3. CASE client[d].key = k
  BY <1>1, <1>2, <1>3, ZenonT(60) DEF CallOK, Holds, CallRecord, Creating
<1>4. CASE client[d].key # k
  BY <1>1, <1>2, <1>4 DEF CallOK, Holds, CallRecord
<1> QED BY <1>3, <1>4, Zenon

-----------------------------------------------------------------------------
(* The steps                                                                *)

\* A call begins with nothing reserved and nothing held.
LEMMA StoreCallStep ==
  ASSUME StoreInv, NEW c \in StoreClients, NEW op \in StoreOps, NEW k \in StoreKeys, NEW ttl \in BOOLEAN,
         StoreCall(c, op, k, ttl)
  PROVE  StoreInv'
<1> DEFINE r == client'[c]
<1>1. /\ r \in CallRecord /\ r.op = op /\ r.key = k /\ ~r.reserved /\ ~r.lost
      /\ r.pc = (CASE op = "set" -> IF MaxKeys > 0 THEN "reserve" ELSE "swap"
                   [] op = "del" -> "remove"
                   [] op \in {"get", "eval"} -> "load"
                   [] op \in {"setnx", "getset", "incr"} -> IF MaxKeys > 0 THEN "load" ELSE "publish")
  BY ZenonT(60) DEF StoreCall, NoCall, CallRecord, Pcs, Ops, StoreOps, Creating, StoreInv, StoreTypes
<1>2. /\ \A d \in StoreClients \ {c} : client'[d] = client[d]
      /\ UNCHANGED <<entries, keyCount, storeClosed, slotDrift>> /\ client[c].pc = "idle"
  BY Zenon DEF StoreCall, StoreInv, StoreTypes
<1>3. client' \in [StoreClients -> CallRecord]
  BY <1>1, <1>2, Zenon DEF StoreCall, StoreInv, StoreTypes
<1>4. StoreTypes'
  BY <1>2, <1>3, Zenon DEF StoreInv, StoreTypes
<1>5. CallOK(client[c])'
  <2>1. /\ r.pc \in {"reserve", "swap", "remove", "load", "publish"}
        /\ r.pc = "load" => op \in Creating \cup {"get"}
        /\ r.pc = "publish" => op \in Creating
        /\ r.pc = "reserve" => op = "set"
        /\ r.pc = "swap" => op = "set" /\ ~(MaxKeys > 0)
    BY <1>1, Zenon DEF StoreOps, Creating
  <2> QED BY <1>1, <2>1, Zenon DEF CallOK, Holds
<1>6. CallsOK'
  BY <1>2, <1>5, OthersOK, Zenon DEF CallsOK, StoreInv
<1>7. ASSUME MaxKeys > 0 PROVE Ledger'
  <2>1. r.pc \in {"reserve", "remove", "load"}
    BY <1>1, <1>7, Zenon DEF StoreOps
  <2>2. ~Flies(r) /\ ~Owes(r) /\ ~Exceeds(r) /\ ~Flies(client[c]) /\ ~Owes(client[c]) /\ ~Exceeds(client[c])
    BY <1>2, <2>1, Zenon DEF Flies, Owes, Exceeds
  <2> HIDE DEF r
  <2>3. keyCount \in Int /\ slotDrift \in Nat
    BY Zenon DEF StoreInv, StoreTypes
  <2> QED BY <1>2, <1>4, <1>7, <2>2, <2>3, LedgerKept DEF StoreInv, One, r
<1> QED BY <1>4, <1>6, <1>7, Zenon DEF StoreInv

(***************************************************************************)
(* The steps that only move their own call and keep the map: the next      *)
(* place must be right for the call, and the count must move with it.      *)
(***************************************************************************)
LEMMA OwnStep ==
  ASSUME StoreInv, NEW c \in StoreClients, NEW step \in Pcs, client[c].pc # "idle", client' = To(c, step),
         entries' \in [StoreKeys -> {"absent", "forever", "live", "expired"}],
         \A j \in StoreKeys : entries'[j] = "absent" <=> entries[j] = "absent",
         UNCHANGED <<storeClosed, slotDrift>>, keyCount' \in Int,
         step # "idle" => CallOK(client[c])',
         MaxKeys > 0 =>
           /\ keyCount' = keyCount + (One(Flies(client'[c])) - One(Flies(client[c])))
                                   - (One(Owes(client'[c])) - One(Owes(client[c])))
           /\ \/ keyCount' - One(Exceeds(client'[c])) <= keyCount - One(Exceeds(client[c]))
              \/ keyCount' <= MaxKeys
  PROVE  StoreInv'
<1>1. StoreTypes'
  BY ToCall, Zenon DEF StoreInv, StoreTypes
<1>2. \A d \in StoreClients \ {c} : client'[d] = client[d]
  BY ToCall DEF StoreInv
<1>3. CallOK(client[c])'
  <2>1. CASE step = "idle"
    <3>1. client'[c] = NoCall
      BY <2>1, ToCall, Zenon DEF StoreInv
    <3> QED BY <3>1, NoCallFields, Zenon DEF CallOK, Holds
  <2> QED BY <2>1, Zenon
<1>4. CallsOK'
  BY <1>2, <1>3, OthersOK, Zenon DEF CallsOK, StoreInv
<1>5. ASSUME MaxKeys > 0 PROVE Ledger'
  <2>1. client[c].key \in StoreKeys
    BY Zenon DEF StoreInv, CallsOK, CallOK
  <2>2. One(entries'[client[c].key] # "absent") - One(entries[client[c].key] # "absent") = 0
    BY <2>1 DEF One
  <2>3. /\ One(Flies(client'[c])) \in Int /\ One(Flies(client[c])) \in Int
        /\ One(Owes(client'[c])) \in Int /\ One(Owes(client[c])) \in Int
    BY DEF One
  <2>4. keyCount \in Int /\ slotDrift' - slotDrift = 0
    BY DEF StoreInv, StoreTypes
  <2>5. keyCount' = keyCount + (One(entries'[client[c].key] # "absent") - One(entries[client[c].key] # "absent"))
                             + (One(Flies(client'[c])) - One(Flies(client[c])))
                             - (One(Owes(client'[c])) - One(Owes(client[c])))
                             - (slotDrift' - slotDrift)
    BY <1>5, <2>2, <2>3, <2>4
  <2> QED BY <1>1, <1>2, <1>5, <2>1, <2>5, LedgerKept, Zenon DEF StoreInv
<1> QED BY <1>1, <1>4, <1>5, Zenon DEF StoreInv

\* Load sends the call on and at most empties an expired entry in place.
LEMMA LoadStep == ASSUME StoreInv, NEW c \in StoreClients, Load(c) PROVE StoreInv'
<1> DEFINE me == client[c]
           x == entries[me.key]
<1> DEFINE step == CASE me.op = "get" -> IF x = "expired" THEN "evict" ELSE "idle"
                   [] me.op = "eval" /\ x # "absent" -> "update"
                   [] me.op # "get" /\ x = "absent" -> IF MaxKeys > 0 THEN "reserve" ELSE "publish"
                   [] OTHER -> "publish"
<1>1. StoreTypes /\ CallOK(me) /\ me.pc = "load" /\ me.key \in StoreKeys /\ me \in CallRecord
  BY Zenon DEF StoreInv, StoreTypes, CallsOK, CallOK, Load
<1>2. /\ client' = To(c, step) /\ step \in {"idle", "evict", "update", "reserve", "publish"}
      /\ UNCHANGED <<keyCount, storeClosed, slotDrift>>
  BY Zenon DEF Load
<1>3. /\ entries' \in [StoreKeys -> {"absent", "forever", "live", "expired"}]
      /\ \A j \in StoreKeys : entries'[j] = "absent" <=> entries[j] = "absent"
  BY <1>1, Zenon DEF Load, StoreTypes
<1>4. ~me.reserved /\ ~me.lost /\ me.op \in Creating \cup {"get"}
  BY <1>1, Zenon DEF CallOK, CallRecord
<1>5. /\ step = "evict" => me.op = "get" /\ x # "absent"
      /\ step = "update" => me.op \in Creating /\ x # "absent"
      /\ step \in {"reserve", "publish"} => me.op \in Creating
  BY <1>4, Zenon DEF Creating
<1>6. step \in Pcs
  BY <1>2, Zenon DEF Pcs
<1> HIDE DEF step
<1>7. step # "idle" => client'[c].pc = step /\ client'[c].op = me.op /\ client'[c].key = me.key /\ ~client'[c].reserved /\ ~client'[c].lost
  BY <1>1, <1>2, <1>4, <1>6, ToCall
<1>8. step # "idle" => CallOK(client[c])'
  BY <1>1, <1>2, <1>3, <1>5, <1>7, Zenon DEF CallOK, Holds
<1>9. client'[c].pc = step /\ ~client'[c].reserved
  BY <1>1, <1>2, <1>6, <1>7, ToCall, NoCallFields, Zenon
<1>10. ~Flies(client'[c]) /\ ~Owes(client'[c]) /\ ~Exceeds(client'[c]) /\ ~Flies(me) /\ ~Owes(me) /\ ~Exceeds(me)
  BY <1>1, <1>2, <1>9, Zenon DEF Flies, Owes, Exceeds
<1>11. keyCount \in Int
  BY <1>1, Zenon DEF StoreTypes
<1> QED BY <1>1, <1>2, <1>3, <1>6, <1>8, <1>10, <1>11, OwnStep DEF One

\* The five steps that move only the count: it falls, or it grows with a
\* reservation that was owed.
LEMMA CountSteps ==
  ASSUME StoreInv, NEW c \in StoreClients,
         UndoReserve(c) \/ LateReserve(c) \/ LateUndo(c) \/ Release(c) \/ Decrement(c)
  PROVE  StoreInv'
<1>1. /\ StoreTypes /\ CallOK(client[c]) /\ client[c] \in CallRecord /\ keyCount \in Int
      /\ MaxKeys \in Nat /\ (client[c].pc # "idle" => client[c].key \in StoreKeys)
  BY StoreAssumption, Zenon DEF StoreInv, StoreTypes, CallsOK, CallOK
<1>2. /\ UNCHANGED <<entries, storeClosed, slotDrift>> /\ client[c].pc # "idle"
      /\ keyCount' \in Int /\ entries' \in [StoreKeys -> {"absent", "forever", "live", "expired"}]
  BY <1>1 DEF UndoReserve, LateReserve, LateUndo, Release, Decrement, StoreTypes
<1>3. CASE UndoReserve(c) \/ Decrement(c)
  <2>1. client' = To(c, "idle") /\ keyCount' = keyCount - 1 /\ client[c].pc \in {"undo", "decrement"} /\ "idle" \in Pcs
    BY <1>3, Zenon DEF UndoReserve, Decrement, Pcs
  <2>2. client'[c].pc = "idle"
    BY <1>1, <2>1, ToCall, Zenon
  <2>3. Flies(client[c]) /\ ~Owes(client[c]) /\ ~Flies(client'[c]) /\ ~Owes(client'[c]) /\ ~Exceeds(client'[c])
    BY <2>1, <2>2, Zenon DEF Flies, Owes, Exceeds
  <2> QED BY <1>1, <1>2, <2>1, <2>3, OwnStep DEF One
<1>4. CASE LateReserve(c)
  <2> DEFINE step == IF keyCount + 1 > MaxKeys THEN "lateUndo" ELSE "idle"
  <2>1. client' = To(c, step) /\ keyCount' = keyCount + 1 /\ client[c].pc = "late" /\ step \in Pcs /\ step \in {"lateUndo", "idle"}
    BY <1>4, Zenon DEF LateReserve, Pcs
  <2>2. client'[c].pc = step /\ (step # "idle" => client'[c].key = client[c].key /\ client'[c].lost = client[c].lost)
    BY <1>1, <2>1, ToCall, ZenonT(60)
  <2>3. step # "idle" => CallOK(client[c])'
    BY <1>1, <2>1, <2>2, Zenon DEF CallOK, Holds
  <2>4. ~Flies(client[c]) /\ Owes(client[c]) /\ ~Exceeds(client[c])
    BY <2>1, Zenon DEF Flies, Owes, Exceeds
  <2>5. CASE step = "lateUndo"
    <3>1. Flies(client'[c]) /\ Owes(client'[c]) /\ Exceeds(client'[c])
      BY <2>2, <2>5, Zenon DEF Flies, Owes, Exceeds
    <3> QED BY <1>1, <1>2, <2>1, <2>3, <2>4, <3>1, OwnStep DEF One
  <2>6. CASE step = "idle"
    <3>1. ~Flies(client'[c]) /\ ~Owes(client'[c]) /\ ~Exceeds(client'[c])
      BY <2>2, <2>6, Zenon DEF Flies, Owes, Exceeds
    <3>2. keyCount' <= MaxKeys
      BY <1>1, <2>1, <2>6
    <3> QED BY <1>1, <1>2, <2>1, <2>3, <2>4, <3>1, <3>2, OwnStep DEF One
  <2> QED BY <2>1, <2>5, <2>6, Zenon
<1>5. CASE LateUndo(c)
  <2>1. client' = To(c, "lateDelete") /\ keyCount' = keyCount - 1 /\ client[c].pc = "lateUndo" /\ "lateDelete" \in Pcs
    BY <1>5, Zenon DEF LateUndo, Pcs
  <2>2. client'[c].pc = "lateDelete" /\ client'[c].key = client[c].key /\ client'[c].lost = client[c].lost
    BY <1>1, <2>1, ToCall, ZenonT(60)
  <2>3. CallOK(client[c])'
    BY <1>1, <2>1, <2>2, Zenon DEF CallOK, Holds
  <2>4. /\ Flies(client[c]) /\ Owes(client[c]) /\ Exceeds(client[c])
        /\ ~Flies(client'[c]) /\ Owes(client'[c]) /\ ~Exceeds(client'[c])
    BY <2>1, <2>2, Zenon DEF Flies, Owes, Exceeds
  <2> QED BY <1>1, <1>2, <2>1, <2>3, <2>4, OwnStep DEF One
<1>6. CASE Release(c)
  <2> DEFINE step == IF client[c].op = "set" THEN "idle" ELSE "update"
  <2>1. client' = To(c, step) /\ keyCount' = keyCount - 1 /\ client[c].pc = "release" /\ step \in Pcs /\ step \in {"idle", "update"}
    BY <1>6, Zenon DEF Release, Pcs
  <2>2. /\ client'[c].pc = step
        /\ step # "idle" => /\ client'[c].key = client[c].key /\ client'[c].lost = client[c].lost
                          /\ client'[c].op = client[c].op
    BY <1>1, <2>1, ToCall
  <2>3. step # "idle" => CallOK(client[c])'
    <3>1. step # "idle" => client[c].op \in Creating /\ (client[c].lost \/ entries[client[c].key] # "absent")
      BY <1>1, <2>1, Zenon DEF CallOK, Holds
    <3> QED BY <1>1, <1>2, <2>1, <2>2, <3>1, Zenon DEF CallOK, Holds
  <2>4. Flies(client[c]) /\ ~Owes(client[c]) /\ ~Exceeds(client[c]) /\ ~Flies(client'[c]) /\ ~Owes(client'[c]) /\ ~Exceeds(client'[c])
    BY <2>1, <2>2, Zenon DEF Flies, Owes, Exceeds
  <2> QED BY <1>1, <1>2, <2>1, <2>3, <2>4, OwnStep DEF One
<1> QED BY <1>3, <1>4, <1>5, <1>6, Zenon

\* The update of an entry that is still in the map leaves it there.
LEMMA UpdateStep == ASSUME StoreInv, NEW c \in StoreClients, UpdateEntry(c) PROVE StoreInv'
<1> DEFINE me == client[c]
           x == entries[me.key]
<1>1. /\ StoreTypes /\ CallOK(me) /\ me.pc = "update" /\ me.key \in StoreKeys /\ me.op \in Creating
      /\ (me.lost \/ x # "absent") /\ x \in {"absent", "forever", "live", "expired"} /\ keyCount \in Int
  BY Zenon DEF StoreInv, StoreTypes, CallsOK, CallOK, Holds, UpdateEntry
<1>2. client' = To(c, "idle") /\ "idle" \in Pcs /\ UNCHANGED <<keyCount, storeClosed, slotDrift>>
  BY Zenon DEF UpdateEntry, Pcs
<1>3. CASE me.lost
  <2>1. entries' = entries
    BY <1>3, Zenon DEF UpdateEntry
  <2>2. client'[c].pc = "idle"
    BY <1>1, <1>2, ToCall, Zenon
  <2>3. ~Flies(client'[c]) /\ ~Owes(client'[c]) /\ ~Exceeds(client'[c]) /\ ~Flies(me) /\ ~Owes(me) /\ ~Exceeds(me)
    BY <1>1, <2>2, Zenon DEF Flies, Owes, Exceeds
  <2> QED BY <1>1, <1>2, <2>1, <2>3, OwnStep DEF One, StoreTypes
<1>4. CASE ~me.lost
  <2>1. PICK y \in {"forever", "live", "expired"} : entries' = [entries EXCEPT ![me.key] = y]
    BY <1>1, <1>4, Zenon DEF UpdateEntry, Creating, Expiry
  <2>2. client'[c].pc = "idle"
    BY <1>1, <1>2, ToCall, Zenon
  <2>3. ~Flies(client'[c]) /\ ~Owes(client'[c]) /\ ~Exceeds(client'[c]) /\ ~Flies(me) /\ ~Owes(me) /\ ~Exceeds(me)
    BY <1>1, <2>2, Zenon DEF Flies, Owes, Exceeds
  <2>4. /\ entries' \in [StoreKeys -> {"absent", "forever", "live", "expired"}]
        /\ \A j \in StoreKeys : entries'[j] = "absent" <=> entries[j] = "absent"
    BY <1>1, <1>4, <2>1, Zenon DEF StoreTypes
  <2> QED BY <1>1, <1>2, <2>3, <2>4, OwnStep DEF One
<1> QED BY <1>3, <1>4, Zenon

\* reserveSlot adds one for a call that holds a slot now or takes it back.
LEMMA ReserveStep == ASSUME StoreInv, NEW c \in StoreClients, ReserveSlot(c) PROVE StoreInv'
<1> DEFINE me == client[c]
           full == keyCount + 1 > MaxKeys
           step == IF full THEN "undo" ELSE IF me.op = "set" THEN "swap" ELSE "publish"
<1>1. /\ StoreTypes /\ CallsOK /\ CallOK(me) /\ me \in CallRecord /\ me.pc = "reserve" /\ me.key \in StoreKeys
      /\ me.op \in Creating \cup {"set"} /\ ~me.lost /\ keyCount \in Int /\ slotDrift \in Nat /\ MaxKeys \in Nat
  BY StoreAssumption, Zenon DEF StoreInv, StoreTypes, CallsOK, CallOK, CallRecord, ReserveSlot
<1>2. /\ client' = [client EXCEPT ![c].pc = step, ![c].reserved = ~full]
      /\ keyCount' = keyCount + 1 /\ UNCHANGED <<entries, storeClosed, slotDrift>>
  BY Zenon DEF ReserveSlot
<1>3. step \in {"undo", "swap", "publish"} /\ step \in Pcs /\ full \in BOOLEAN
  BY DEF Pcs
<1> HIDE DEF step, full
<1>4. /\ client'[c].pc = step /\ client'[c].reserved = ~full /\ client'[c].op = me.op
      /\ client'[c].key = me.key /\ client'[c].lost = me.lost
      /\ client' \in [StoreClients -> CallRecord]
      /\ \A d \in StoreClients \ {c} : client'[d] = client[d]
  BY <1>1, <1>2, <1>3, Zenon DEF StoreTypes, CallRecord
<1>5. StoreTypes'
  BY <1>1, <1>2, <1>4 DEF StoreTypes
<1>6. (full => step = "undo") /\ (~full => step # "undo") /\ (step = "publish" => me.op # "set") /\ (step = "swap" => me.op = "set")
  BY Zenon DEF step
<1>7. CallOK(client[c])'
  BY <1>1, <1>3, <1>4, <1>6, Zenon DEF CallOK, Holds
<1>8. CallsOK'
  BY <1>1, <1>2, <1>4, <1>7, OthersOK, Zenon DEF CallsOK
<1>9. ASSUME MaxKeys > 0 PROVE Ledger'
  <2>1. Flies(client'[c]) /\ ~Owes(client'[c]) /\ ~Flies(me) /\ ~Owes(me) /\ ~Exceeds(me)
    BY <1>1, <1>3, <1>4, <1>6, Zenon DEF Flies, Owes, Exceeds
  <2>2. CASE full
    <3>1. Exceeds(client'[c])
      BY <1>4, <1>6, <2>2, Zenon DEF Exceeds
    <3> QED BY <1>1, <1>2, <1>4, <1>5, <1>9, <2>1, <3>1, LedgerKept DEF StoreInv, One
  <2>3. CASE ~full
    <3>1. keyCount' <= MaxKeys
      BY <1>1, <1>2, <2>3 DEF full
    <3> QED BY <1>1, <1>2, <1>4, <1>5, <1>9, <2>1, <3>1, LedgerKept DEF StoreInv, One
  <2> QED BY <1>3, <2>2, <2>3, Zenon
<1> QED BY <1>5, <1>8, <1>9, Zenon DEF StoreInv

\* LoadOrStore adds a key for a slot that is reserved or is owed from now on.
LEMMA PublishStep == ASSUME StoreInv, NEW c \in StoreClients, Publish(c) PROVE StoreInv'
<1> DEFINE me == client[c]
           k == me.key
           new == entries[k] = "absent"
           step == CASE new -> IF MaxKeys > 0 /\ ~me.reserved THEN "late"
                             ELSE IF me.op = "eval" THEN "update" ELSE "idle"
                   [] ~new /\ me.reserved -> "release"
                   [] OTHER -> "update"
<1>1. /\ StoreTypes /\ CallsOK /\ CallOK(me) /\ me \in CallRecord /\ me.pc = "publish" /\ k \in StoreKeys
      /\ me.op \in Creating /\ ~me.lost /\ keyCount \in Int /\ slotDrift \in Nat /\ me.reserved \in BOOLEAN
  BY Zenon DEF StoreInv, StoreTypes, CallsOK, CallOK, CallRecord, Publish
<1>2. client' = To(c, step) /\ UNCHANGED <<keyCount, storeClosed, slotDrift>>
  BY Zenon DEF Publish
<1>3. /\ step \in {"late", "update", "idle", "release"}
      /\ new /\ MaxKeys > 0 /\ ~me.reserved <=> step = "late"
      /\ ~new /\ me.reserved <=> step = "release"
      /\ ~new /\ ~me.reserved => step = "update"
  BY <1>1, Zenon
<1>4. /\ entries' \in [StoreKeys -> {"absent", "forever", "live", "expired"}]
      /\ entries'[k] # "absent" /\ \A j \in StoreKeys \ {k} : entries'[j] = entries[j]
  BY <1>1, Zenon DEF Publish, StoreTypes, Expiry
<1>5. step \in Pcs
  BY <1>3, Zenon DEF Pcs
<1> HIDE DEF step
<1>6. /\ client'[c].pc = step /\ client' \in [StoreClients -> CallRecord]
      /\ step = "idle" => client'[c] = NoCall
      /\ step # "idle" => client'[c].op = me.op /\ client'[c].key = k /\ client'[c].lost = me.lost
      /\ \A d \in StoreClients \ {c} : client'[d] = client[d]
  BY <1>1, <1>2, <1>5, ToCall
<1>7. StoreTypes'
  BY <1>1, <1>2, <1>4, <1>6, Zenon DEF StoreTypes
<1>8. CallOK(client[c])'
  <2>1. CASE step = "idle"
    BY <1>6, <2>1, NoCallFields, Zenon DEF CallOK, Holds
  <2>2. CASE step # "idle"
    BY <1>1, <1>3, <1>4, <1>6, <2>2, Zenon DEF CallOK, Holds
  <2> QED BY <2>1, <2>2, Zenon
<1>9. CallsOK'
  <2>1. \A j \in StoreKeys : entries[j] # "absent" => entries'[j] # "absent"
    BY <1>4, Zenon
  <2> QED BY <1>1, <1>6, <1>8, <2>1, OthersOK, Zenon DEF CallsOK
<1>10. ASSUME MaxKeys > 0 PROVE Ledger'
  <2>1. /\ Owes(client'[c]) <=> (new /\ ~me.reserved)
        /\ Flies(client'[c]) <=> (~new /\ me.reserved)
        /\ ~Exceeds(client'[c])
    BY <1>3, <1>6, <1>10, Zenon DEF Owes, Flies, Exceeds
  <2>2. (Flies(me) <=> me.reserved) /\ ~Owes(me) /\ ~Exceeds(me)
    BY <1>1, Zenon DEF Flies, Owes, Exceeds
  <2>3. One(entries'[k] # "absent") - One(entries[k] # "absent") = One(new)
    BY <1>4 DEF One
  <2>4. One(Flies(client'[c])) - One(Flies(me)) = 0 - One(new /\ me.reserved)
    BY <1>1, <2>1, <2>2 DEF One
  <2>5. One(Owes(client'[c])) - One(Owes(me)) = One(new /\ ~me.reserved)
    BY <1>1, <2>1, <2>2 DEF One
  <2>6. One(new) - One(new /\ me.reserved) - One(new /\ ~me.reserved) = 0
    BY <1>1 DEF One
  <2>7. One(new) \in Int /\ One(new /\ me.reserved) \in Int /\ One(new /\ ~me.reserved) \in Int
    BY DEF One
  <2>8. keyCount' - One(Exceeds(client'[c])) <= keyCount - One(Exceeds(me))
    BY <1>1, <1>2, <2>1, <2>2 DEF One
  <2>9. keyCount' = keyCount + (One(entries'[k] # "absent") - One(entries[k] # "absent"))
                              + (One(Flies(client'[c])) - One(Flies(me)))
                              - (One(Owes(client'[c])) - One(Owes(me)))
                              - (slotDrift' - slotDrift)
    BY <1>1, <1>2, <2>3, <2>4, <2>5, <2>6, <2>7
  <2>10. \A j \in StoreKeys \ {k} : entries'[j] = "absent" <=> entries[j] = "absent"
    BY <1>4, Zenon
  <2> HIDE DEF new
  <2> QED BY <1>1, <1>6, <1>7, <1>10, <2>8, <2>9, <2>10, LedgerKept, ZenonT(60) DEF StoreInv
<1> QED BY <1>7, <1>9, <1>10 DEF StoreInv

(***************************************************************************)
(* The steps that replace or take out the entry of a key: whoever holds it *)
(* is marked, and the count must move with the key and the call.           *)
(***************************************************************************)
LEMMA MarkStep ==
  ASSUME StoreInv, NEW c \in StoreClients, NEW step \in {"idle", "release", "decrement"}, client[c].pc # "idle",
         client' = Replaced(client[c].key, To(c, step)),
         NEW x \in {"absent", "forever", "live", "expired"},
         entries' = [entries EXCEPT ![client[c].key] = x],
         UNCHANGED <<storeClosed, keyCount>>, slotDrift' \in Nat,
         step # "idle" => ~client[c].lost, step = "release" => client[c].op = "set",
         MaxKeys > 0 =>
           /\ (One(x # "absent") - One(entries[client[c].key] # "absent"))
                + (One(step # "idle") - One(Flies(client[c])))
                + One(Owes(client[c])) - (slotDrift' - slotDrift) = 0
           /\ ~Exceeds(client[c])
  PROVE  StoreInv'
<1> DEFINE k == client[c].key
<1>1. /\ StoreTypes /\ CallsOK /\ k \in StoreKeys /\ keyCount \in Int /\ slotDrift \in Nat
      /\ client[c] \in CallRecord /\ step \in Pcs
  BY Zenon DEF StoreInv, StoreTypes, CallsOK, CallOK, Pcs
<1>2. /\ client' \in [StoreClients -> CallRecord]
      /\ \A d \in StoreClients \ {c} : client'[d].pc = client[d].pc /\ client'[d].reserved = client[d].reserved
  BY <1>1, ToCall, ReplacedCalls
<1>3. entries' \in [StoreKeys -> {"absent", "forever", "live", "expired"}] /\ entries'[k] = x
      /\ \A j \in StoreKeys \ {k} : entries'[j] = entries[j]
  BY <1>1, Zenon DEF StoreTypes
<1>4. StoreTypes'
  BY <1>1, <1>2, <1>3, Zenon DEF StoreTypes
<1>5. /\ client'[c].pc = step
      /\ step # "idle" => client'[c].key = k /\ client'[c].op = client[c].op
      /\ ~client'[c].lost
  <2>1. /\ To(c, step) \in [StoreClients -> CallRecord] /\ To(c, step)[c].pc = step
        /\ step = "idle" => ~To(c, step)[c].lost
        /\ step # "idle" => /\ To(c, step)[c].key = k /\ To(c, step)[c].op = client[c].op
                          /\ To(c, step)[c].lost = client[c].lost
    BY <1>1, ToCall, NoCallFields, ZenonT(60)
  <2> DEFINE cs == To(c, step)
  <2>2. /\ client'[c].pc = cs[c].pc /\ client'[c].key = cs[c].key /\ client'[c].op = cs[c].op
        /\ client'[c].lost =
             (cs[c].lost \/ (cs[c].key = k /\ cs[c].pc \in {"update", "evict", "release"} /\ cs[c].op # "set"))
    BY <2>1, ReplacedCalls
  <2>3. ~(cs[c].pc \in {"update", "evict", "release"} /\ cs[c].op # "set")
    BY <2>1, Zenon
  <2>4. ~cs[c].lost
    BY <2>1, Zenon
  <2> HIDE DEF cs
  <2>5. ~client'[c].lost
    BY <2>2, <2>3, <2>4, Zenon
  <2> QED BY <2>1, <2>2, <2>5, Zenon DEF cs
<1>6. CallOK(client[c])'
  BY <1>1, <1>5, Zenon DEF CallOK, Holds
<1>7. CallsOK'
  BY <1>1, <1>3, <1>6, MarkedOK, Zenon DEF CallsOK
<1>8. ASSUME MaxKeys > 0 PROVE Ledger'
  <2>1. (Flies(client'[c]) <=> step # "idle") /\ ~Owes(client'[c]) /\ ~Exceeds(client'[c])
    BY <1>5, Zenon DEF Flies, Owes, Exceeds
  <2>2. /\ One(Flies(client'[c])) = One(step # "idle") /\ One(Owes(client'[c])) = 0
        /\ One(Exceeds(client'[c])) = 0 /\ One(Exceeds(client[c])) = 0
    BY <1>8, <2>1, Zenon DEF One
  <2>3. /\ One(x # "absent") \in Int /\ One(entries[k] # "absent") \in Int /\ One(step # "idle") \in Int
        /\ One(Flies(client[c])) \in Int /\ One(Owes(client[c])) \in Int
    BY DEF One
  <2>4. keyCount' = keyCount + (One(entries'[k] # "absent") - One(entries[k] # "absent"))
                              + (One(Flies(client'[c])) - One(Flies(client[c])))
                              - (One(Owes(client'[c])) - One(Owes(client[c])))
                              - (slotDrift' - slotDrift)
    BY <1>1, <1>3, <1>8, <2>2, <2>3
  <2>5. keyCount' - One(Exceeds(client'[c])) <= keyCount - One(Exceeds(client[c]))
    BY <1>1, <2>2
  <2>6. \A j \in StoreKeys \ {k} : entries'[j] = "absent" <=> entries[j] = "absent"
    BY <1>3, Zenon
  <2> QED BY <1>1, <1>2, <1>4, <1>8, <2>4, <2>5, <2>6, LedgerKept, Zenon DEF StoreInv
<1> QED BY <1>4, <1>7, <1>8, Zenon DEF StoreInv

\* Set's Swap uses its slot for a new key and keeps it to give it back if the
\* key was there.
LEMMA SwapStep == ASSUME StoreInv, NEW c \in StoreClients, Swap(c) PROVE StoreInv'
<1> DEFINE me == client[c]
           step == IF me.reserved /\ entries[me.key] # "absent" THEN "release" ELSE "idle"
<1>1. /\ me.pc = "swap" /\ me \in CallRecord /\ ~me.lost /\ slotDrift \in Nat
      /\ (MaxKeys > 0 => me.reserved) /\ me.reserved \in BOOLEAN
  BY Zenon DEF StoreInv, StoreTypes, CallsOK, CallOK, CallRecord, Swap
<1>2. /\ client' = Replaced(me.key, To(c, step)) /\ entries' = [entries EXCEPT ![me.key] = Expiry(me.ttl)]
      /\ UNCHANGED <<keyCount, storeClosed, slotDrift>>
  BY Zenon DEF Swap
<1>3. Expiry(me.ttl) \in {"forever", "live"} /\ step \in {"idle", "release"}
  BY Zenon DEF Expiry
<1>4. ~Owes(me) /\ ~Exceeds(me) /\ (Flies(me) <=> me.reserved)
  BY <1>1, Zenon DEF Owes, Exceeds, Flies
<1>5. MaxKeys > 0 => (One(Expiry(me.ttl) # "absent") - One(entries[me.key] # "absent"))
                       + (One(step # "idle") - One(Flies(me))) + One(Owes(me)) - (slotDrift' - slotDrift) = 0
  <2>1. One(Expiry(me.ttl) # "absent") = 1 /\ One(Owes(me)) = 0 /\ slotDrift' - slotDrift = 0
    BY <1>1, <1>2, <1>3, <1>4 DEF One
  <2>2. MaxKeys > 0 => One(Flies(me)) = 1 /\ One(step # "idle") = One(entries[me.key] # "absent")
    BY <1>1, <1>4, Zenon DEF One
  <2>3. One(entries[me.key] # "absent") \in Int
    BY DEF One
  <2> QED BY <2>1, <2>2, <2>3
<1>6. me.op = "set"
  BY <1>1, Zenon DEF StoreInv, CallsOK, CallOK
<1> HIDE DEF step
<1> QED BY <1>1, <1>2, <1>3, <1>4, <1>5, <1>6, MarkStep, Zenon

\* A late reservation that failed deletes its key, or finds it gone.
LEMMA LateDeleteStep == ASSUME StoreInv, NEW c \in StoreClients, LateDelete(c) PROVE StoreInv'
<1> DEFINE me == client[c]
<1>1. me.pc = "lateDelete" /\ slotDrift \in Nat
  BY Zenon DEF StoreInv, StoreTypes, LateDelete
<1>2. /\ client' = Replaced(me.key, To(c, "idle")) /\ entries' = [entries EXCEPT ![me.key] = "absent"]
      /\ slotDrift' = slotDrift + One(entries[me.key] = "absent") /\ UNCHANGED <<keyCount, storeClosed>>
  BY <1>1 DEF LateDelete, One
<1>3. Owes(me) /\ ~Exceeds(me) /\ ~Flies(me) /\ slotDrift' \in Nat
  BY <1>1, <1>2 DEF Owes, Exceeds, Flies, One
<1>4. (One("absent" # "absent") - One(entries[me.key] # "absent"))
        + (One("idle" # "idle") - One(Flies(me))) + One(Owes(me)) - (slotDrift' - slotDrift) = 0
  BY <1>1, <1>2, <1>3 DEF One
<1> QED BY <1>1, <1>2, <1>3, <1>4, MarkStep, Zenon

\* A removal takes out a key that is there, and owes the count one.
LEMMA RemoveStep == ASSUME StoreInv, NEW c \in StoreClients, RemoveKey(c) PROVE StoreInv'
<1> DEFINE me == client[c]
           removes == IF me.pc = "evict" THEN ~me.lost ELSE entries[me.key] # "absent"
           step == IF MaxKeys > 0 THEN "decrement" ELSE "idle"
<1>1. /\ StoreTypes /\ CallOK(me) /\ me.pc \in {"remove", "evict"} /\ me \in CallRecord /\ keyCount \in Int /\ slotDrift \in Nat
  BY Zenon DEF StoreInv, StoreTypes, CallsOK, RemoveKey
<1>2. ~Owes(me) /\ ~Exceeds(me) /\ ~Flies(me)
  BY <1>1, Zenon DEF Owes, Exceeds, Flies
<1>3. CASE removes
  <2>1. /\ client' = Replaced(me.key, To(c, step)) /\ entries' = [entries EXCEPT ![me.key] = "absent"]
        /\ UNCHANGED <<keyCount, storeClosed, slotDrift>>
    BY <1>3, Zenon DEF RemoveKey
  <2>2. entries[me.key] # "absent" /\ ~me.lost
    BY <1>1, <1>3, Zenon DEF CallOK, Holds
  <2>3. MaxKeys > 0 => (One("absent" # "absent") - One(entries[me.key] # "absent"))
                         + (One(step # "idle") - One(Flies(me))) + One(Owes(me)) - (slotDrift' - slotDrift) = 0
    BY <1>1, <1>2, <2>1, <2>2 DEF One
  <2>4. step \in {"idle", "decrement"}
    BY Zenon
  <2> HIDE DEF step
  <2> QED BY <1>1, <1>2, <2>1, <2>2, <2>3, <2>4, MarkStep, Zenon
<1>4. CASE ~removes
  <2>1. client' = To(c, "idle") /\ UNCHANGED <<entries, keyCount, storeClosed, slotDrift>> /\ "idle" \in Pcs
    BY <1>4, Zenon DEF RemoveKey, Pcs
  <2>2. client'[c].pc = "idle"
    BY <1>1, <2>1, ToCall, Zenon
  <2>3. ~Owes(client'[c]) /\ ~Exceeds(client'[c]) /\ ~Flies(client'[c])
    BY <2>2, Zenon DEF Owes, Exceeds, Flies
  <2> QED BY <1>1, <1>2, <2>1, <2>3, OwnStep DEF One, StoreTypes
<1> QED BY <1>3, <1>4, Zenon

\* The cleanup begins an eviction of an entry it saw in the map.
LEMMA SweepStep == ASSUME StoreInv, NEW c \in StoreClients, NEW k \in StoreKeys, Sweep(c, k) PROVE StoreInv'
<1> DEFINE r == client'[c]
<1>1. r \in CallRecord /\ r.op = "get" /\ r.key = k /\ r.pc = "evict" /\ ~r.lost
  BY Zenon DEF Sweep, NoCall, CallRecord, Pcs, Ops, StoreInv, StoreTypes
<1>2. /\ \A d \in StoreClients \ {c} : client'[d] = client[d]
      /\ UNCHANGED <<entries, keyCount, storeClosed, slotDrift>> /\ client[c].pc = "idle" /\ entries[k] = "expired"
  BY Zenon DEF Sweep, StoreInv, StoreTypes
<1>3. client' \in [StoreClients -> CallRecord]
  BY <1>1, <1>2, Zenon DEF Sweep, StoreInv, StoreTypes
<1>4. StoreTypes'
  BY <1>2, <1>3, Zenon DEF StoreInv, StoreTypes
<1>5. CallOK(client[c])'
  BY <1>1, <1>2, Zenon DEF CallOK, Holds
<1>6. CallsOK'
  BY <1>2, <1>5, OthersOK, Zenon DEF CallsOK, StoreInv
<1>7. ASSUME MaxKeys > 0 PROVE Ledger'
  <2>1. ~Flies(r) /\ ~Owes(r) /\ ~Exceeds(r) /\ ~Flies(client[c]) /\ ~Owes(client[c]) /\ ~Exceeds(client[c])
    BY <1>1, <1>2, Zenon DEF Flies, Owes, Exceeds
  <2>2. keyCount \in Int /\ slotDrift \in Nat
    BY Zenon DEF StoreInv, StoreTypes
  <2> QED BY <1>2, <1>4, <1>7, <2>1, <2>2, LedgerKept DEF StoreInv, One
<1> QED BY <1>4, <1>6, <1>7, Zenon DEF StoreInv

\* Time changes neither which keys are there nor where the calls are.
LEMMA ExpireStep == ASSUME StoreInv, NEW k \in StoreKeys, Expire(k) PROVE StoreInv'
<1>1. /\ \A d \in StoreClients :
           /\ client'[d].pc = client[d].pc /\ client'[d].op = client[d].op /\ client'[d].key = client[d].key
           /\ client'[d].reserved = client[d].reserved /\ client'[d].lost = client[d].lost
      /\ client' \in [StoreClients -> CallRecord]
  BY ZenonT(60) DEF Expire, StoreInv, StoreTypes, CallRecord
<1>2. /\ entries' \in [StoreKeys -> {"absent", "forever", "live", "expired"}]
      /\ \A j \in StoreKeys : entries'[j] = "absent" <=> entries[j] = "absent"
      /\ UNCHANGED <<keyCount, storeClosed, slotDrift>>
  BY Zenon DEF Expire, StoreInv, StoreTypes
<1>3. StoreTypes'
  BY <1>1, <1>2, Zenon DEF StoreInv, StoreTypes
<1>4. ASSUME NEW d \in StoreClients PROVE CallOK(client[d])'
  <2>1. CallOK(client[d])
    BY Zenon DEF StoreInv, CallsOK
  <2>2. Holds(client[d]) => client[d].key \in StoreKeys
    BY <2>1, Zenon DEF CallOK, Holds
  <2>3. Holds(client[d])' <=> Holds(client[d])
    BY <1>1, Zenon DEF Holds
  <2>4. Holds(client[d])' => client'[d].lost \/ entries'[client'[d].key] # "absent"
    BY <1>1, <1>2, <2>1, <2>2, <2>3, Zenon DEF CallOK
  <2> QED BY <1>1, <2>1, <2>4, Zenon DEF CallOK
<1>5. Present' = Present /\ InFlight' = InFlight /\ Unpaid' = Unpaid /\ Over' = Over
  BY <1>1, <1>2, Zenon DEF Present, InFlight, Unpaid, Over, In
<1> QED BY <1>2, <1>3, <1>4, <1>5, Zenon DEF StoreInv, CallsOK, Ledger

-----------------------------------------------------------------------------
\* The inductive invariant holds in every reachable state.
THEOREM StoreInvariance == StoreSpec => []StoreInv
<1>1. ASSUME StoreInit PROVE StoreInv
  <2>1. StoreTypes /\ CallsOK
    <3>1. StoreTypes
      <4>1. client \in [StoreClients -> CallRecord]
        BY <1>1, NoCallFields, Zenon DEF StoreInit
      <4>2. entries \in [StoreKeys -> {"absent", "forever", "live", "expired"}]
        BY <1>1, Zenon DEF StoreInit
      <4>3. keyCount \in Int /\ slotDrift \in Nat
        BY <1>1 DEF StoreInit
      <4>4. storeClosed \in BOOLEAN
        BY <1>1, Zenon DEF StoreInit
      <4> QED BY <4>1, <4>2, <4>3, <4>4, Zenon DEF StoreTypes
    <3>2. \A c \in StoreClients : client[c] = NoCall
      BY <1>1, Zenon DEF StoreInit
    <3>3. CallOK(NoCall)
      BY NoCallFields, Zenon DEF CallOK, Holds
    <3> QED BY <3>1, <3>2, <3>3, Zenon DEF CallsOK
  <2>2. Present = {} /\ InFlight = {} /\ Unpaid = {} /\ Over = {}
    BY <1>1, NoCallFields, Zenon DEF StoreInit, Present, InFlight, Unpaid, Over, In
  <2>3. Ledger
    BY <1>1, <2>2, FS_EmptySet, StoreAssumption DEF StoreInit, Ledger
  <2> QED BY <2>1, <2>3, Zenon DEF StoreInv
<1>2. ASSUME StoreInv, [StoreNext]_storeVars PROVE StoreInv'
  <2>1. CASE CloseStore \/ UNCHANGED storeVars
    BY <1>2, <2>1, ZenonT(60) DEF CloseStore, storeVars, StoreInv, StoreTypes, CallsOK, CallOK, Holds, Ledger,
                      Present, InFlight, Unpaid, Over, In
  <2> QED BY Zenon, <1>2, <2>1, StoreCallStep, LoadStep, ReserveStep, CountSteps, SwapStep, PublishStep, LateDeleteStep,
             UpdateStep, RemoveStep, SweepStep, ExpireStep DEF StoreNext
<1> QED BY <1>1, <1>2, PTL DEF StoreSpec

(***************************************************************************)
(* However many clients race on however many keys, the key count and the   *)
(* map agree up to the calls in flight and the recorded drift, so the map  *)
(* holds at most MaxKeys keys and those (memory.go reserveSlot,            *)
(* removeEntry, Set, SetNX, GetSet, IncrBy and the scripts).               *)
(***************************************************************************)
THEOREM CountAndMapAgree == StoreSpec => []StoreLedger
<1>1. ASSUME StoreInv PROVE StoreLedger
  <2> SUFFICES ASSUME MaxKeys > 0 PROVE
         /\ keyCount = Cardinality(Present) + Cardinality(InFlight) - Cardinality(Unpaid) - slotDrift
         /\ Cardinality(Present) <= MaxKeys + Cardinality(Unpaid) + slotDrift
    BY Zenon DEF StoreLedger
  <2>1. Ledger /\ keyCount \in Int /\ slotDrift \in Nat /\ MaxKeys \in Nat
    BY <1>1, StoreAssumption, Zenon DEF StoreInv, StoreTypes
  <2>2. Over \subseteq InFlight /\ IsFiniteSet(InFlight)
    BY StoreAssumption, FS_Subset, Zenon DEF Over, In, InFlight
  <2>3. Cardinality(Over) <= Cardinality(InFlight)
    BY <2>2, FS_Subset, Zenon
  <2>4. Cardinality(Present) \in Nat /\ Cardinality(Unpaid) \in Nat /\ Cardinality(InFlight) \in Nat /\ Cardinality(Over) \in Nat
    <3>1. IsFiniteSet(Present) /\ IsFiniteSet(Unpaid) /\ IsFiniteSet(Over)
      BY StoreAssumption, FS_Subset, Zenon DEF Present, Unpaid, Over, In
    <3> QED BY <2>2, <3>1, FS_CardinalityType, Zenon
  <2> QED BY <2>1, <2>3, <2>4 DEF Ledger
<1> QED BY <1>1, StoreInvariance, PTL

-----------------------------------------------------------------------------
(* The circuit breaker                                                      *)

\* The calls that hold a probe slot.
Holders == {c \in Callers : probe[c]}

\* Where a goroutine owns cb.mu.
Critical ==
  {"halfStamp", "halfReset", "openStamp", "openClear", "openReset",
   "closeStamp", "closeClear", "closeReset", "closeWindow"}

\* A goroutine holds cb.mu exactly while it is inside a transition.
MutexInv == \A c \in Callers : mu = c <=> pc[c] \in Critical

(***************************************************************************)
(* A slot is held from the compare-and-swap to the release, and a          *)
(* goroutine about to swap has loaded a counter below the maximum.         *)
(***************************************************************************)
SlotInv ==
  /\ ProbeSlotsAccounted
  /\ \A c \in Callers :
       /\ probe[c] => pc[c] \in {"fn", "after", "release"}
       /\ pc[c] = "probeCAS" => reg[c] < HalfOpenMaxRequests

\* What each store inside a transition has established so far.
StampInv ==
  /\ TimestampsMatchState
  /\ \A c \in Callers :
       /\ pc[c] \in {"halfStamp", "halfReset"} => state = "HalfOpen" /\ openedAt # 0
       /\ pc[c] = "halfReset" => halfOpenAt # 0
       /\ pc[c] \in {"openStamp", "openClear", "openReset"} => state = "Open"
       /\ pc[c] \in {"openClear", "openReset"} => openedAt # 0
       /\ pc[c] \in {"openReset", "closeReset", "closeWindow"} => halfOpenAt = 0
       /\ pc[c] \in {"closeStamp", "closeClear", "closeReset", "closeWindow"} =>
            state = "Closed"
       /\ pc[c] \in {"closeClear", "closeReset", "closeWindow"} => openedAt = 0

\* The inductive invariant.
Inv == TypeOK /\ MutexInv /\ SlotInv /\ StampInv

-----------------------------------------------------------------------------
(* Lemmas about the operators.                                              *)

(***************************************************************************)
(* The allowance beforeExecute compares with is an integer no larger than  *)
(* HalfOpenMaxRequests, whatever the strategy answers.                     *)
(***************************************************************************)
LEMMA AllowedBounded ==
  ASSUME TypeOK
  PROVE  Allowed \in Int /\ Allowed <= HalfOpenMaxRequests
<1> DEFINE a == MaxConcurrentProbes(Strategy, HalfOpenMaxRequests, successes, halfOpenAt, now)
           start == AtLeastOne(Strategy.start)
           step == AtLeastOne(Strategy.step)
<1>1. /\ successes \in Nat /\ halfOpenAt \in Int /\ now \in Int
      /\ HalfOpenMaxRequests \in Nat \ {0}
      /\ Strategy.type \in {"fixed", "linear", "exponential"}
      /\ Strategy.start \in Int /\ Strategy.step \in Int /\ Strategy.minInterval \in Int
  BY ConfigAssumption DEF TypeOK
<1>2. start \in Nat \ {0} /\ step \in Nat \ {0}
  BY <1>1 DEF AtLeastOne
<1>3. start + successes * step \in Int
  BY <1>1, <1>2
<1>4. start * 2^(successes \div step) \in Int
  <2>1. successes \div step \in Nat
    BY <1>1, <1>2
  <2>2. 2^(successes \div step) \in Int
    BY <2>1
  <2> QED BY <2>2, <1>2
<1>5. \A v \in Int : ClampProbe(v, AtLeastOne(HalfOpenMaxRequests)) \in Int
  BY <1>1 DEF ClampProbe, AtLeastOne
<1>6. a \in Int
  <2> HIDE DEF start, step
  <2>1. CASE Strategy.type = "fixed"
    BY <1>1, <2>1 DEF MaxConcurrentProbes
  <2>2. CASE Strategy.type = "linear"
    BY <1>1, <1>2, <1>3, <1>5, <2>2 DEF MaxConcurrentProbes, start, step
  <2>3. CASE Strategy.type = "exponential"
    BY <1>1, <1>2, <1>4, <1>5, <2>3 DEF MaxConcurrentProbes, start, step
  <2> QED BY <1>1, <2>1, <2>2, <2>3, Zenon
<1> QED BY <1>1, <1>6 DEF Allowed

\* Recording an outcome keeps the window a sequence of outcomes.
LEMMA RecordedType ==
  ASSUME NEW w \in Seq([fail : BOOLEAN, at : Nat]), NEW f \in BOOLEAN, NEW t \in Nat
  PROVE  Recorded(w, f, t) \in Seq([fail : BOOLEAN, at : Nat])
<1> DEFINE E == [fail : BOOLEAN, at : Nat]
           X == {i \in DOMAIN w : w[i].at <= t - WindowDuration}
<1>1. [fail |-> f, at |-> t] \in E /\ [fail |-> f, at |-> 0] \in E
  BY Zenon
<1>2. Expired(w, t) \in Nat
  <2>1. IsFiniteSet(1..Len(w))
    BY FS_Interval
  <2>2. X \in SUBSET (1..Len(w))
    OBVIOUS
  <2>3. IsFiniteSet(X)
    BY <2>1, <2>2, FS_Subset, Zenon
  <2> QED BY <2>3, FS_CardinalityType, Zenon DEF Expired
<1> HIDE DEF E
<1>3. w \in Seq(E)
  BY Zenon DEF E
<1>4. SubSeq(w, Expired(w, t) + 1, Len(w)) \in Seq(E)
  BY <1>2, <1>3
<1> DEFINE all == Append(w, [fail |-> f, at |-> 0])
<1>5. Append(SubSeq(w, Expired(w, t) + 1, Len(w)), [fail |-> f, at |-> t]) \in Seq(E)
  BY <1>1, <1>4
<1>6. all \in Seq(E) /\ all # << >>
  <2>1. PICK e \in E : e = [fail |-> f, at |-> 0]
    BY <1>1, Zenon
  <2>2. Append(w, e) \in Seq(E) /\ Len(Append(w, e)) = Len(w) + 1 /\ Len(w) \in Nat
    BY <1>3
  <2> QED
    BY <2>1, <2>2
<1>7. Tail(all) \in Seq(E)
  <2> HIDE DEF all
  <2> QED BY <1>6
<1>8. Recorded(w, f, t) \in Seq(E)
  <2>1. CASE WindowType = "TimeBased"
    BY <1>5, <2>1, Zenon DEF Recorded
  <2>2. CASE WindowType # "TimeBased"
    <3>1. Recorded(w, f, t) = IF Len(all) > WindowSize THEN Tail(all) ELSE all
      BY <2>2, Zenon DEF Recorded
    <3> HIDE DEF all
    <3> QED BY <3>1, <1>6, <1>7, Zenon
  <2> QED BY <2>1, <2>2, Zenon
<1> QED BY <1>8, Zenon DEF E

\* The slot holders form a finite set.
LEMMA HoldersFinite == IsFiniteSet(Holders) /\ Cardinality(Holders) \in Nat
BY ConfigAssumption, FS_Subset, FS_CardinalityType, Zenon DEF Holders

-----------------------------------------------------------------------------
(* The step of the inductive invariant, conjunct by conjunct.              *)

\* Every step keeps the types; a release finds the counter positive.
LEMMA TypeStep ==
  ASSUME Inv, [Next]_vars
  PROVE  TypeOK'
<1>1. CASE UNCHANGED vars
  BY <1>1, Zenon DEF Inv, TypeOK, States, Labels, vars, fields, locals
<1>2. CASE Tick
  BY <1>2, ConfigAssumption DEF Inv, TypeOK, States, Labels, Tick, fields, locals
<1>3. ASSUME NEW c \in Callers, BeginExecute(c) \/ TakeMutex(c) \/ Step(c)
      PROVE  TypeOK'
  <2>1. CASE BeginExecute(c)
    BY <2>1, ConfigAssumption, Zenon DEF Inv, TypeOK, States, Labels, BeginExecute, At, Goto, fields
  <2>2. CASE LoadOpenedAt(c)
    BY <2>2, ConfigAssumption DEF Inv, TypeOK, States, Labels, LoadOpenedAt, At, Goto, fields
  <2>3. CASE CheckOpenTimeout(c)
    BY <2>3, ConfigAssumption, Zenon DEF Inv, TypeOK, States, Labels, CheckOpenTimeout, At, Goto, fields
  <2>4. CASE LoadInflight(c)
    BY <2>4, ConfigAssumption, Zenon DEF Inv, TypeOK, States, Labels, LoadInflight, At, Goto, fields
  <2>5. CASE CheckAllowance(c)
    BY <2>5, ConfigAssumption, Zenon DEF Inv, TypeOK, States, Labels, CheckAllowance, At, Goto, fields
  <2>6. CASE AcquireProbe(c)
    <3>1. halfOpenInflight' \in Nat
      BY <2>6 DEF Inv, TypeOK, AcquireProbe
    <3>2. probe' \in [Callers -> BOOLEAN]
      BY <2>6, Zenon DEF Inv, TypeOK, AcquireProbe
    <3>3. pc' \in [Callers -> Labels]
      BY <2>6, Zenon DEF Inv, TypeOK, Labels, AcquireProbe, Goto
    <3> QED BY <2>6, <3>1, <3>2, <3>3, Zenon DEF Inv, TypeOK, AcquireProbe
  <2>7. CASE RunFn(c)
    <3>1. \A r \in Results : IsFailure(r) \in BOOLEAN
      BY Zenon DEF IsFailure
    <3>2. failed' \in [Callers -> BOOLEAN]
      BY <2>7, <3>1, Zenon DEF Inv, TypeOK, RunFn
    <3>3. pc' \in [Callers -> Labels]
      BY <2>7, Zenon DEF Inv, TypeOK, Labels, RunFn, Goto
    <3> QED BY <2>7, <3>2, <3>3, Zenon DEF Inv, TypeOK, RunFn, fields
  <2>8. CASE LoadState(c)
    BY <2>8, ConfigAssumption, Zenon DEF Inv, TypeOK, States, Labels, LoadState, At, Goto, fields
  <2>9. CASE ReleaseProbe(c)
    <3>1. ASSUME probe[c] PROVE halfOpenInflight >= 1
      <4>1. Holders # {}
        BY <3>1, Zenon DEF Holders
      <4>2. Cardinality(Holders) # 0
        BY <4>1, HoldersFinite, FS_EmptySet, Zenon
      <4> QED BY <4>2, HoldersFinite DEF Inv, SlotInv, ProbeSlotsAccounted, Holders
    <3> QED BY <2>9, <3>1 DEF Inv, TypeOK, States, Labels, ReleaseProbe, At, Goto
  <2>10. CASE Record(c)
    <3>1. win' \in Seq([fail : BOOLEAN, at : Nat])
      BY <2>10, RecordedType DEF Inv, TypeOK, Record
    <3>2. pc' \in [Callers -> Labels]
      BY <2>10, Zenon DEF Inv, TypeOK, States, Labels, Record, Goto
    <3> QED BY <2>10, <3>1, <3>2, Zenon DEF Inv, TypeOK, Record
  <2>11. CASE AddSuccess(c)
    BY <2>11, ConfigAssumption DEF Inv, TypeOK, States, Labels, AddSuccess, At, Goto, fields
  <2>12. CASE EnterHalfOpen(c)
    BY <2>12, ConfigAssumption, Zenon DEF Inv, TypeOK, States, Labels, EnterHalfOpen, At, Goto, fields, Lock
  <2>13. CASE EnterOpen(c)
    BY <2>13, ConfigAssumption DEF Inv, TypeOK, States, Labels, EnterOpen, At, Goto, fields, Lock
  <2>14. CASE EnterClosed(c)
    BY <2>14, ConfigAssumption, Zenon DEF Inv, TypeOK, States, Labels, EnterClosed, At, Goto, fields, Lock
  <2>15. CASE StampOpenedAt(c)
    <3>1. openedAt' \in {0, now} /\ pc' \in [Callers -> Labels]
      BY <2>15, Zenon DEF Inv, TypeOK, Labels, StampOpenedAt, Goto
    <3> QED BY <2>15, <3>1 DEF Inv, TypeOK, StampOpenedAt
  <2>16. CASE StampHalfOpenAt(c)
    <3>1. halfOpenAt' \in {0, now} /\ pc' \in [Callers -> Labels]
      BY <2>16, Zenon DEF Inv, TypeOK, Labels, StampHalfOpenAt, Goto
    <3> QED BY <2>16, <3>1 DEF Inv, TypeOK, StampHalfOpenAt
  <2>17. CASE ResetSuccesses(c)
    BY <2>17, ConfigAssumption, ZenonT(60) DEF Inv, TypeOK, States, Labels, ResetSuccesses, At, Goto, fields, Unlock
  <2>18. CASE ResetWindow(c)
    BY <2>18, ConfigAssumption DEF Inv, TypeOK, States, Labels, ResetWindow, At, Goto, fields, Unlock
  <2> QED
    BY <1>3, <2>1, <2>2, <2>3, <2>4, <2>5, <2>6, <2>7, <2>8, <2>9, <2>10, <2>11, <2>12, <2>13, <2>14, <2>15, <2>16, <2>17, <2>18, Zenon DEF TakeMutex, Step
<1> QED BY <1>1, <1>2, <1>3, Zenon DEF Next

\* Only the owner of cb.mu is inside a transition.
LEMMA MutexStep ==
  ASSUME Inv, [Next]_vars
  PROVE  MutexInv'
<1>1. CASE UNCHANGED vars
  BY <1>1, Zenon DEF Inv, TypeOK, MutexInv, Critical, vars, fields, locals
<1>2. CASE Tick
  BY <1>2, ConfigAssumption, Zenon DEF Inv, TypeOK, MutexInv, Critical, Tick, fields, locals
<1>3. ASSUME NEW c \in Callers, BeginExecute(c) \/ TakeMutex(c) \/ Step(c)
      PROVE  MutexInv'
  <2>1. CASE BeginExecute(c)
    <3>1. \E l \in {"fn", "resetLoad", "probeLoad"} : pc' = [pc EXCEPT ![c] = l]
      BY <2>1, Zenon DEF Inv, TypeOK, States, BeginExecute, Goto
    <3> QED BY <2>1, <3>1, ConfigAssumption, Zenon DEF Inv, TypeOK, MutexInv, Critical, BeginExecute, At, fields
  <2>2. CASE LoadOpenedAt(c)
    BY <2>2, ConfigAssumption, Zenon DEF Inv, TypeOK, MutexInv, Critical, LoadOpenedAt, At, Goto, fields
  <2>3. CASE CheckOpenTimeout(c)
    BY <2>3, ConfigAssumption, Zenon DEF Inv, TypeOK, MutexInv, Critical, CheckOpenTimeout, At, Goto, fields
  <2>4. CASE LoadInflight(c)
    BY <2>4, ConfigAssumption, Zenon DEF Inv, TypeOK, MutexInv, Critical, LoadInflight, At, Goto, fields
  <2>5. CASE CheckAllowance(c)
    BY <2>5, ConfigAssumption, Zenon DEF Inv, TypeOK, MutexInv, Critical, CheckAllowance, At, Goto, fields
  <2>6. CASE AcquireProbe(c)
    <3>1. pc[c] = "probeCAS" /\ mu' = mu /\ \E l \in {"fn", "probeLoad"} : pc' = [pc EXCEPT ![c] = l]
      BY <2>6, Zenon DEF AcquireProbe, At, Goto
    <3> QED BY <3>1, Zenon DEF Inv, TypeOK, MutexInv, Critical
  <2>7. CASE RunFn(c)
    BY <2>7, ConfigAssumption, Zenon DEF Inv, TypeOK, MutexInv, Critical, RunFn, At, Goto, fields
  <2>8. CASE LoadState(c)
    BY <2>8, ConfigAssumption, Zenon DEF Inv, TypeOK, MutexInv, Critical, LoadState, At, Goto, fields
  <2>9. CASE ReleaseProbe(c)
    BY <2>9, ConfigAssumption, Zenon DEF Inv, TypeOK, MutexInv, Critical, ReleaseProbe, At, Goto, fields
  <2>10. CASE Record(c)
    <3>1. \E l \in {"idle", "toOpen", "addSuccess"} : pc' = [pc EXCEPT ![c] = l]
      BY <2>10, Zenon DEF Inv, TypeOK, States, Record, Goto
    <3> QED BY <2>10, <3>1, ConfigAssumption, Zenon DEF Inv, TypeOK, MutexInv, Critical, Record, At, fields
  <2>11. CASE AddSuccess(c)
    BY <2>11, ConfigAssumption, Zenon DEF Inv, TypeOK, MutexInv, Critical, AddSuccess, At, Goto, fields
  <2>12. CASE EnterHalfOpen(c)
    BY <2>12, ConfigAssumption, Zenon DEF Inv, TypeOK, MutexInv, Critical, EnterHalfOpen, At, Goto, fields, Lock
  <2>13. CASE EnterOpen(c)
    BY <2>13, ConfigAssumption, Zenon DEF Inv, TypeOK, MutexInv, Critical, EnterOpen, At, Goto, fields, Lock
  <2>14. CASE EnterClosed(c)
    BY <2>14, ConfigAssumption, Zenon DEF Inv, TypeOK, MutexInv, Critical, EnterClosed, At, Goto, fields, Lock
  <2>15. CASE StampOpenedAt(c)
    BY <2>15, ConfigAssumption DEF Inv, TypeOK, MutexInv, Critical, StampOpenedAt, At, Goto, fields
  <2>16. CASE StampHalfOpenAt(c)
    BY <2>16, ConfigAssumption DEF Inv, TypeOK, MutexInv, Critical, StampHalfOpenAt, At, Goto, fields
  <2>17. CASE ResetSuccesses(c)
    BY <2>17, ConfigAssumption DEF Inv, TypeOK, MutexInv, Critical, ResetSuccesses, At, Goto, fields, Unlock
  <2>18. CASE ResetWindow(c)
    BY <2>18, ConfigAssumption, Zenon DEF Inv, TypeOK, MutexInv, Critical, ResetWindow, At, Goto, fields, Unlock
  <2> QED
    BY <1>3, <2>1, <2>2, <2>3, <2>4, <2>5, <2>6, <2>7, <2>8, <2>9, <2>10, <2>11, <2>12, <2>13, <2>14, <2>15, <2>16, <2>17, <2>18 DEF TakeMutex, Step
<1> QED BY <1>1, <1>2, <1>3 DEF Next

\* Slots are taken and given back one for one, and never past the maximum.
LEMMA SlotStep ==
  ASSUME Inv, [Next]_vars
  PROVE  SlotInv'
<1>1. CASE UNCHANGED vars
  BY <1>1, Zenon DEF Inv, TypeOK, SlotInv, ProbeSlotsAccounted, vars, fields, locals
<1>2. CASE Tick
  BY <1>2, Zenon DEF Inv, TypeOK, SlotInv, ProbeSlotsAccounted, Tick, fields, locals
<1>3. ASSUME NEW c \in Callers, BeginExecute(c) \/ TakeMutex(c) \/ Step(c)
      PROVE  SlotInv'
  <2>1. CASE BeginExecute(c)
    <3>1. probe' = probe
      BY <2>1, Zenon DEF Inv, TypeOK, SlotInv, BeginExecute, At
    <3>2. \E l \in {"fn", "resetLoad", "probeLoad"} : pc' = [pc EXCEPT ![c] = l]
      BY <2>1, Zenon DEF Inv, TypeOK, States, BeginExecute, Goto
    <3> QED BY <2>1, <3>1, <3>2, Zenon
        DEF Inv, TypeOK, SlotInv, ProbeSlotsAccounted, BeginExecute, At, fields
  <2>2. CASE LoadOpenedAt(c)
    BY <2>2, Zenon DEF Inv, TypeOK, SlotInv, ProbeSlotsAccounted, LoadOpenedAt, At, Goto, fields
  <2>3. CASE CheckOpenTimeout(c)
    BY <2>3, Zenon DEF Inv, TypeOK, SlotInv, ProbeSlotsAccounted, CheckOpenTimeout, At, Goto, fields
  <2>4. CASE LoadInflight(c)
    BY <2>4, Zenon DEF Inv, TypeOK, SlotInv, ProbeSlotsAccounted, LoadInflight, At, Goto, fields
  <2>5. CASE CheckAllowance(c)
    BY <2>5, AllowedBounded, ConfigAssumption DEF Inv, TypeOK, SlotInv, ProbeSlotsAccounted, CheckAllowance, At, Goto, fields
  <2>6. CASE AcquireProbe(c)
    <3>1. CASE halfOpenInflight = reg[c]
      <4>1. Holders' = Holders \cup {c} /\ c \notin Holders
        BY <2>6, <3>1, Zenon DEF Inv, TypeOK, SlotInv, AcquireProbe, At, Holders
      <4>2. Cardinality(Holders') = Cardinality(Holders) + 1
        BY <4>1, HoldersFinite, FS_AddElement, Zenon
      <4>3. ProbeSlotsAccounted'
        BY <2>6, <3>1, <4>2, HoldersFinite, ConfigAssumption
        DEF Inv, TypeOK, SlotInv, ProbeSlotsAccounted, AcquireProbe, At, Holders
      <4> QED BY <2>6, <3>1, <4>3, Zenon DEF Inv, TypeOK, SlotInv, AcquireProbe, At, Goto
    <3>2. CASE halfOpenInflight # reg[c]
      BY <2>6, <3>2, Zenon DEF Inv, TypeOK, SlotInv, ProbeSlotsAccounted, AcquireProbe, At, Goto
    <3> QED BY <3>1, <3>2, Zenon
  <2>7. CASE RunFn(c)
    BY <2>7, Zenon DEF Inv, TypeOK, SlotInv, ProbeSlotsAccounted, RunFn, At, Goto, fields
  <2>8. CASE LoadState(c)
    BY <2>8, Zenon DEF Inv, TypeOK, SlotInv, ProbeSlotsAccounted, LoadState, At, Goto, fields
  <2>9. CASE ReleaseProbe(c)
    <3>1. Holders' = Holders \ {c}
      BY <2>9, Zenon DEF Inv, TypeOK, ReleaseProbe, Holders
    <3>2. Cardinality(Holders') = IF probe[c] THEN Cardinality(Holders) - 1
                                              ELSE Cardinality(Holders)
      BY <3>1, HoldersFinite, FS_RemoveElement, Zenon DEF Holders
    <3>3. ProbeSlotsAccounted'
      BY <2>9, <3>2, HoldersFinite, ConfigAssumption
      DEF Inv, TypeOK, SlotInv, ProbeSlotsAccounted, ReleaseProbe, Holders
    <3> QED BY <2>9, <3>3, Zenon DEF Inv, TypeOK, SlotInv, ReleaseProbe, At, Goto
  <2>10. CASE Record(c)
    <3>1. \E l \in {"idle", "toOpen", "addSuccess"} : pc' = [pc EXCEPT ![c] = l]
      BY <2>10, Zenon DEF Inv, TypeOK, States, Record, Goto
    <3> QED BY <2>10, <3>1, Zenon DEF Inv, TypeOK, SlotInv, ProbeSlotsAccounted, Record, At, fields
  <2>11. CASE AddSuccess(c)
    BY <2>11, Zenon DEF Inv, TypeOK, SlotInv, ProbeSlotsAccounted, AddSuccess, At, Goto, fields
  <2>12. CASE EnterHalfOpen(c)
    BY <2>12, Zenon DEF Inv, TypeOK, SlotInv, ProbeSlotsAccounted, EnterHalfOpen, At, Goto, fields, Lock
  <2>13. CASE EnterOpen(c)
    BY <2>13, Zenon DEF Inv, TypeOK, SlotInv, ProbeSlotsAccounted, EnterOpen, At, Goto, fields, Lock
  <2>14. CASE EnterClosed(c)
    BY <2>14, Zenon DEF Inv, TypeOK, SlotInv, ProbeSlotsAccounted, EnterClosed, At, Goto, fields, Lock
  <2>15. CASE StampOpenedAt(c)
    BY <2>15, Zenon DEF Inv, TypeOK, SlotInv, ProbeSlotsAccounted, StampOpenedAt, At, Goto, fields
  <2>16. CASE StampHalfOpenAt(c)
    BY <2>16, Zenon DEF Inv, TypeOK, SlotInv, ProbeSlotsAccounted, StampHalfOpenAt, At, Goto, fields
  <2>17. CASE ResetSuccesses(c)
    BY <2>17, Zenon DEF Inv, TypeOK, SlotInv, ProbeSlotsAccounted, ResetSuccesses, At, Goto, fields, Unlock
  <2>18. CASE ResetWindow(c)
    BY <2>18, Zenon DEF Inv, TypeOK, SlotInv, ProbeSlotsAccounted, ResetWindow, At, Goto, fields, Unlock
  <2> QED
    BY <1>3, <2>1, <2>2, <2>3, <2>4, <2>5, <2>6, <2>7, <2>8, <2>9, <2>10, <2>11, <2>12, <2>13, <2>14, <2>15, <2>16, <2>17, <2>18 DEF TakeMutex, Step
<1> QED BY <1>1, <1>2, <1>3 DEF Next

\* The stores of a transition leave timestamps and state in agreement.
LEMMA StampStep ==
  ASSUME Inv, [Next]_vars
  PROVE  StampInv'
<1>1. CASE UNCHANGED vars
  BY <1>1, Zenon DEF Inv, TypeOK, MutexInv, Critical, StampInv, TimestampsMatchState, vars, fields, locals
<1>2. CASE Tick
  BY <1>2, ConfigAssumption DEF Inv, TypeOK, MutexInv, Critical, StampInv, TimestampsMatchState, Tick, fields, locals
<1>3. ASSUME NEW c \in Callers, BeginExecute(c) \/ TakeMutex(c) \/ Step(c)
      PROVE  StampInv'
  <2>1. CASE BeginExecute(c)
    <3>1. \E l \in {"fn", "resetLoad", "probeLoad"} : pc' = [pc EXCEPT ![c] = l]
      BY <2>1, Zenon DEF Inv, TypeOK, States, BeginExecute, Goto
    <3> QED BY <2>1, <3>1, ConfigAssumption, ZenonT(60) DEF Inv, TypeOK, MutexInv, Critical, StampInv, TimestampsMatchState, BeginExecute, At, fields
  <2>2. CASE LoadOpenedAt(c)
    BY <2>2, ConfigAssumption, ZenonT(60) DEF Inv, TypeOK, MutexInv, Critical, StampInv, TimestampsMatchState, LoadOpenedAt, At, Goto, fields
  <2>3. CASE CheckOpenTimeout(c)
    BY <2>3, ConfigAssumption, ZenonT(60) DEF Inv, TypeOK, MutexInv, Critical, StampInv, TimestampsMatchState, CheckOpenTimeout, At, Goto, fields
  <2>4. CASE LoadInflight(c)
    BY <2>4, ConfigAssumption, Zenon DEF Inv, TypeOK, MutexInv, Critical, StampInv, TimestampsMatchState, LoadInflight, At, Goto, fields
  <2>5. CASE CheckAllowance(c)
    BY <2>5, ConfigAssumption, ZenonT(60) DEF Inv, TypeOK, MutexInv, Critical, StampInv, TimestampsMatchState, CheckAllowance, At, Goto, fields
  <2>6. CASE AcquireProbe(c)
    BY <2>6, ConfigAssumption DEF Inv, TypeOK, MutexInv, Critical, StampInv, TimestampsMatchState, AcquireProbe, At, Goto, fields
  <2>7. CASE RunFn(c)
    BY <2>7, ConfigAssumption, Zenon DEF Inv, TypeOK, MutexInv, Critical, StampInv, TimestampsMatchState, RunFn, At, Goto, fields
  <2>8. CASE LoadState(c)
    BY <2>8, ConfigAssumption, Zenon DEF Inv, TypeOK, MutexInv, Critical, StampInv, TimestampsMatchState, LoadState, At, Goto, fields
  <2>9. CASE ReleaseProbe(c)
    BY <2>9, ConfigAssumption, Zenon DEF Inv, TypeOK, MutexInv, Critical, StampInv, TimestampsMatchState, ReleaseProbe, At, Goto, fields
  <2>10. CASE Record(c)
    <3>1. \E l \in {"idle", "toOpen", "addSuccess"} : pc' = [pc EXCEPT ![c] = l]
      BY <2>10, Zenon DEF Inv, TypeOK, States, Record, Goto
    <3> QED BY <2>10, <3>1, ConfigAssumption DEF Inv, TypeOK, MutexInv, Critical, StampInv, TimestampsMatchState, Record, At, fields
  <2>11. CASE AddSuccess(c)
    BY <2>11, ConfigAssumption DEF Inv, TypeOK, MutexInv, Critical, StampInv, TimestampsMatchState, AddSuccess, At, Goto, fields
  <2>12. CASE EnterHalfOpen(c)
    BY <2>12, ConfigAssumption, ZenonT(60) DEF Inv, TypeOK, MutexInv, Critical, StampInv, TimestampsMatchState, EnterHalfOpen, At, Goto, fields, Lock
  <2>13. CASE EnterOpen(c)
    BY <2>13, ConfigAssumption DEF Inv, TypeOK, MutexInv, Critical, StampInv, TimestampsMatchState, EnterOpen, At, Goto, fields, Lock
  <2>14. CASE EnterClosed(c)
    BY <2>14, ConfigAssumption, ZenonT(60) DEF Inv, TypeOK, MutexInv, Critical, StampInv, TimestampsMatchState, EnterClosed, At, Goto, fields, Lock
  <2>15. CASE StampOpenedAt(c)
    BY <2>15, ConfigAssumption DEF Inv, TypeOK, MutexInv, Critical, StampInv, TimestampsMatchState, StampOpenedAt, At, Goto, fields
  <2>16. CASE StampHalfOpenAt(c)
    BY <2>16, ConfigAssumption DEF Inv, TypeOK, MutexInv, Critical, StampInv, TimestampsMatchState, StampHalfOpenAt, At, Goto, fields
  <2>17. CASE ResetSuccesses(c)
    BY <2>17, ConfigAssumption DEF Inv, TypeOK, MutexInv, Critical, StampInv, TimestampsMatchState, ResetSuccesses, At, Goto, fields, Unlock
  <2>18. CASE ResetWindow(c)
    BY <2>18, ConfigAssumption, ZenonT(60) DEF Inv, TypeOK, MutexInv, Critical, StampInv, TimestampsMatchState, ResetWindow, At, Goto, fields, Unlock
  <2> QED
    BY <1>3, <2>1, <2>2, <2>3, <2>4, <2>5, <2>6, <2>7, <2>8, <2>9, <2>10, <2>11, <2>12, <2>13, <2>14, <2>15, <2>16, <2>17, <2>18 DEF TakeMutex, Step
<1> QED BY <1>1, <1>2, <1>3 DEF Next

-----------------------------------------------------------------------------
\* The inductive invariant holds in every reachable state.
THEOREM Invariance == Spec => []Inv
<1>1. Init => Inv
  <2> SUFFICES ASSUME Init PROVE Inv
    BY Zenon
  <2>1. TypeOK
    BY ConfigAssumption DEF Init, TypeOK, States, Labels
  <2>2. ProbeSlotsAccounted
    <3>1. {c \in Callers : probe[c]} = {}
      BY Zenon DEF Init
    <3>2. Cardinality({c \in Callers : probe[c]}) = 0
      BY <3>1, FS_EmptySet, Zenon
    <3> QED BY <3>2, ConfigAssumption DEF Init, ProbeSlotsAccounted
  <2> QED BY <2>1, <2>2, ConfigAssumption, Zenon
      DEF Init, Inv, MutexInv, Critical, SlotInv, StampInv, TimestampsMatchState
<1>2. Inv /\ [Next]_vars => Inv'
  BY TypeStep, MutexStep, SlotStep, StampStep, Zenon DEF Inv
<1> QED BY <1>1, <1>2, PTL DEF Spec

(***************************************************************************)
(* Type correctness of the breaker's fields and locals; in particular      *)
(* halfOpenInflight never goes negative.                                   *)
(***************************************************************************)
THEOREM TypeCorrect == Spec => []TypeOK
BY Invariance, PTL DEF Inv

(***************************************************************************)
(* With any number of goroutines, halfOpenInflight is the number of calls  *)
(* that hold a slot and at most HalfOpenMaxRequests.                       *)
(***************************************************************************)
THEOREM ProbeSlots == Spec => []ProbeSlotsAccounted
<1>1. Inv => ProbeSlotsAccounted
  BY Zenon DEF Inv, SlotInv
<1> QED BY <1>1, Invariance, PTL

\* Outside the transitions, openedAt and halfOpenAt agree with the state.
THEOREM Timestamps == Spec => []TimestampsMatchState
<1>1. Inv => TimestampsMatchState
  BY Zenon DEF Inv, StampInv
<1> QED BY <1>1, Invariance, PTL

\* No interleaving takes a closed circuit to half-open.
THEOREM ClosedStaysOutOfProbation == Spec => ClosedNeverHalfOpens
<1>1. [Next]_vars => [state = "Closed" => state' # "HalfOpen"]_vars
  <2> SUFFICES ASSUME [Next]_vars, state = "Closed" PROVE state' # "HalfOpen"
    BY Zenon DEF vars, fields
  <2>1. CASE UNCHANGED vars
    BY <2>1, Zenon DEF vars, fields
  <2>2. CASE Tick
    BY <2>2, Zenon DEF Tick, fields
  <2>3. ASSUME NEW c \in Callers, BeginExecute(c) \/ TakeMutex(c) \/ Step(c)
        PROVE  state' # "HalfOpen"
    BY <2>3, Zenon DEF BeginExecute, TakeMutex, Step, EnterHalfOpen, EnterOpen, EnterClosed,
      LoadOpenedAt, CheckOpenTimeout, LoadInflight, CheckAllowance, AcquireProbe, RunFn,
      LoadState, ReleaseProbe, Record, AddSuccess, StampOpenedAt,
      StampHalfOpenAt, ResetSuccesses, ResetWindow, fields
  <2> QED BY <2>1, <2>2, <2>3, Zenon DEF Next
<1> QED BY <1>1, PTL DEF Spec, ClosedNeverHalfOpens

-----------------------------------------------------------------------------
(* The semaphore bulkhead                                                   *)

Places == {"idle", "waiting", "leave_acquired", "leave_rejected", "observe_acquired",
           "observe_rejected", "acquired", "running", "releasing", "returned", "rejected"}

BulkheadTypes ==
  /\ blocking \in BOOLEAN
  /\ sem \in Int /\ inflight \in Int /\ waiting \in Int /\ rejected \in Int
  /\ waitStats \in [count : Nat, sum : Int, min : Int, max : Int]
  /\ waitClock \in Int
  /\ callPc \in [BulkheadCalls -> Places]
  /\ waitStart \in [BulkheadCalls -> Int]

\* The inductive invariant.
BulkheadInv == BulkheadTypes /\ BulkheadAccounted

-----------------------------------------------------------------------------

(***************************************************************************)
(* The step of a call from one place to another changes the number of      *)
(* calls in a set of places by whether it enters and whether it leaves the *)
(* set.                                                                    *)
(***************************************************************************)
LEMMA CallMoves ==
  ASSUME BulkheadTypes, NEW c \in BulkheadCalls, NEW here \in Places, NEW next \in Places,
         Moves(c, here, next), NEW P \in SUBSET Places
  PROVE  /\ CallsAt(P) \in Nat
         /\ (here \in P <=> next \in P) => CallsAt(P)' = CallsAt(P)
         /\ here \notin P /\ next \in P => CallsAt(P)' = CallsAt(P) + 1
         /\ here \in P /\ next \notin P => CallsAt(P)' = CallsAt(P) - 1
<1> DEFINE S == {d \in BulkheadCalls : callPc[d] \in P}
           T == {d \in BulkheadCalls : callPc'[d] \in P}
<1>1. IsFiniteSet(S) /\ IsFiniteSet(T) /\ Cardinality(S) \in Nat
  BY BulkheadAssumption, FS_Subset, FS_CardinalityType, Zenon
<1>2. callPc[c] = here /\ callPc'[c] = next /\ \A d \in BulkheadCalls \ {c} : callPc'[d] = callPc[d]
  BY Zenon DEF Moves, BulkheadTypes
<1>3. (here \in P <=> next \in P) => T = S
  BY <1>2
<1>4. here \notin P /\ next \in P => T = S \cup {c} /\ c \notin S
  BY <1>2
<1>5. here \in P /\ next \notin P => T = S \ {c} /\ c \in S
  BY <1>2
<1>6. CallsAt(P) = Cardinality(S) /\ CallsAt(P)' = Cardinality(T)
  BY Zenon DEF CallsAt
<1> HIDE DEF S, T
<1>7. here \notin P /\ next \in P => Cardinality(T) = Cardinality(S) + 1
  BY <1>1, <1>4, FS_AddElement
<1>8. here \in P /\ next \notin P => Cardinality(T) = Cardinality(S) - 1
  BY <1>1, <1>5, FS_RemoveElement, Zenon
<1> QED BY <1>1, <1>3, <1>6, <1>7, <1>8, Zenon

\* The product of a bound and a count grows with the bound.
LEMMA Scaled ==
  ASSUME NEW a \in Int, NEW b \in Int, NEW n \in Nat, a <= b
  PROVE  a * n <= b * n
OBVIOUS

\* ... and with the count, by the bound.
LEMMA OneMore ==
  ASSUME NEW a \in Int, NEW n \in Nat
  PROVE  a * (n + 1) = a * n + a /\ a * n \in Int
OBVIOUS

\* observe() keeps the mean between the minimum and the maximum.
LEMMA ObserveBounds ==
  ASSUME NEW w \in [count : Nat, sum : Int, min : Int, max : Int], NEW d \in Int,
         w.min * w.count <= w.sum, w.sum <= w.max * w.count
  PROVE  /\ Observe(w, d) \in [count : Nat, sum : Int, min : Int, max : Int]
         /\ Observe(w, d).count = w.count + 1
         /\ Observe(w, d).min * Observe(w, d).count <= Observe(w, d).sum
         /\ Observe(w, d).sum <= Observe(w, d).max * Observe(w, d).count
<1> DEFINE o == Observe(w, d)
<1>1. o \in [count : Nat, sum : Int, min : Int, max : Int] /\ o.count = w.count + 1 /\ o.sum = w.sum + d
  BY DEF Observe
<1>2. o.max >= w.max /\ o.max >= d
  BY DEF Observe
<1>3. o.min <= d /\ (w.count = 0 \/ o.min <= w.min)
  BY DEF Observe
<1> HIDE DEF o
<1>4. w.max * w.count <= o.max * w.count
  BY <1>1, <1>2, Scaled, Zenon
<1>5. o.min * w.count <= w.min * w.count
  <2>1. CASE w.count = 0
    BY <1>1, <2>1
  <2>2. CASE o.min <= w.min
    BY <1>1, <2>2, Scaled, Zenon
  <2> QED BY <1>3, <2>1, <2>2, Zenon
<1>6. o.max * (w.count + 1) = o.max * w.count + o.max /\ o.min * (w.count + 1) = o.min * w.count + o.min
  BY <1>1, OneMore, Zenon
<1>7. w.max * w.count \in Int /\ w.min * w.count \in Int /\ o.max * w.count \in Int /\ o.min * w.count \in Int
  BY <1>1, OneMore, Zenon
<1>8. o.min * w.count + o.min <= w.sum + d /\ w.sum + d <= o.max * w.count + o.max
  <2> DEFINE x == w.max * w.count
             y == w.min * w.count
             u == o.max * w.count
             v == o.min * w.count
  <2>1. x \in Int /\ y \in Int /\ u \in Int /\ v \in Int /\ x <= u /\ v <= y /\ y <= w.sum /\ w.sum <= x
    BY <1>4, <1>5, <1>7, Zenon
  <2>2. o.max \in Int /\ o.min \in Int /\ o.max >= d /\ o.min <= d /\ w.sum \in Int
    BY <1>1, <1>2, <1>3, Zenon
  <2> HIDE DEF x, y, u, v
  <2>3. v + o.min <= w.sum + d /\ w.sum + d <= u + o.max
    BY <2>1, <2>2
  <2> QED BY <2>3, Zenon DEF u, v
<1>9. o.min * o.count <= o.sum /\ o.sum <= o.max * o.count
  <2>1. o.count = w.count + 1 /\ o.sum = w.sum + d
    BY <1>1, Zenon
  <2> QED BY <1>6, <1>8, <2>1, Zenon
<1> QED BY <1>1, <1>9, Zenon DEF o

-----------------------------------------------------------------------------
(***************************************************************************)
(* Every step keeps the accounts: each of the counters moves with the      *)
(* place of the call it counts, and the semaphore is at its capacity at    *)
(* most because both acquisitions test it.                                 *)
(***************************************************************************)
LEMMA BulkheadInvStep == BulkheadInv /\ [BulkheadNext]_bulkheadVars => BulkheadInv'
<1> SUFFICES ASSUME BulkheadInv, [BulkheadNext]_bulkheadVars PROVE BulkheadInv'
  BY Zenon
<1> DEFINE H == Holding
           R == {"running", "releasing"}
           W == {"waiting", "leave_acquired", "leave_rejected"}
           J == {"rejected"}
           D == {"acquired", "running", "releasing", "returned", "rejected"}
<1>0. /\ BulkheadTypes /\ BulkheadAccounted
      /\ H \in SUBSET Places /\ R \in SUBSET Places /\ W \in SUBSET Places
      /\ J \in SUBSET Places /\ D \in SUBSET Places
  BY Zenon DEF BulkheadInv, Places, Holding
<1>1. ASSUME NEW c \in BulkheadCalls, TryAcquire(c) PROVE BulkheadInv'
  <2>1. Moves(c, "idle", "acquired") /\ "idle" \in Places /\ "acquired" \in Places
    BY <1>1, Zenon DEF TryAcquire, Places
  <2>2. CallsAt(H)' = CallsAt(H) + 1 /\ CallsAt(R)' = CallsAt(R) /\ CallsAt(W)' = CallsAt(W) /\ CallsAt(J)' = CallsAt(J)
    BY <1>0, <2>1, CallMoves DEF Holding
  <2>3. ~blocking /\ ~blocking'
    BY <1>1, Zenon DEF TryAcquire
  <2>4. BulkheadTypes'
    BY <1>0, <1>1, <2>1 DEF TryAcquire, Moves, BulkheadTypes
  <2>5. sem + 1 <= MaxConcurrency
    BY <1>0, <1>1, BulkheadAssumption DEF TryAcquire, BulkheadTypes
  <2> QED BY <1>0, <1>1, <2>2, <2>3, <2>4, <2>5, Zenon DEF TryAcquire, BulkheadInv, BulkheadAccounted
<1>2. ASSUME NEW c \in BulkheadCalls, RejectFull(c) PROVE BulkheadInv'
  <2>1. Moves(c, "idle", "rejected") /\ "idle" \in Places /\ "rejected" \in Places
    BY <1>2, Zenon DEF RejectFull, Places
  <2>2. CallsAt(H)' = CallsAt(H) /\ CallsAt(R)' = CallsAt(R) /\ CallsAt(W)' = CallsAt(W) /\ CallsAt(J)' = CallsAt(J) + 1
    BY <1>0, <2>1, CallMoves DEF Holding
  <2>3. ~blocking /\ ~blocking'
    BY <1>2, Zenon DEF RejectFull
  <2>4. BulkheadTypes'
    BY <1>0, <1>2, <2>1 DEF RejectFull, Moves, BulkheadTypes
  <2> QED BY <1>0, <1>2, <2>2, <2>3, <2>4, BulkheadAssumption, Zenon DEF RejectFull, BulkheadInv, BulkheadAccounted
<1>3. ASSUME NEW c \in BulkheadCalls, EnterWait(c) PROVE BulkheadInv'
  <2>1. Moves(c, "idle", "waiting") /\ "idle" \in Places /\ "waiting" \in Places
    BY <1>3, Zenon DEF EnterWait, Places
  <2>2. /\ CallsAt(H)' = CallsAt(H) /\ CallsAt(R)' = CallsAt(R) /\ CallsAt(W)' = CallsAt(W) + 1
        /\ CallsAt(J)' = CallsAt(J) /\ CallsAt(D)' = CallsAt(D)
    BY <1>0, <2>1, CallMoves DEF Holding
  <2>3. BulkheadTypes'
    BY <1>0, <1>3, <2>1 DEF EnterWait, Moves, BulkheadTypes
  <2> QED BY <1>0, <1>3, <2>2, <2>3, Zenon DEF EnterWait, BulkheadInv, BulkheadAccounted
<1>4. ASSUME NEW c \in BulkheadCalls, WaitAcquire(c) PROVE BulkheadInv'
  <2>1. Moves(c, "waiting", "leave_acquired") /\ "waiting" \in Places /\ "leave_acquired" \in Places
    BY <1>4, Zenon DEF WaitAcquire, Places
  <2>2. /\ CallsAt(H)' = CallsAt(H) + 1 /\ CallsAt(R)' = CallsAt(R) /\ CallsAt(W)' = CallsAt(W)
        /\ CallsAt(J)' = CallsAt(J) /\ CallsAt(D)' = CallsAt(D)
    BY <1>0, <2>1, CallMoves DEF Holding
  <2>3. BulkheadTypes'
    BY <1>0, <1>4, <2>1 DEF WaitAcquire, Moves, BulkheadTypes
  <2>4. sem + 1 <= MaxConcurrency
    BY <1>0, <1>4, BulkheadAssumption DEF WaitAcquire, BulkheadTypes
  <2> QED BY <1>0, <1>4, <2>2, <2>3, <2>4, Zenon DEF WaitAcquire, BulkheadInv, BulkheadAccounted
<1>5. ASSUME NEW c \in BulkheadCalls, GiveUp(c) PROVE BulkheadInv'
  <2>1. Moves(c, "waiting", "leave_rejected") /\ "waiting" \in Places /\ "leave_rejected" \in Places
    BY <1>5, Zenon DEF GiveUp, Places
  <2>2. /\ CallsAt(H)' = CallsAt(H) /\ CallsAt(R)' = CallsAt(R) /\ CallsAt(W)' = CallsAt(W)
        /\ CallsAt(J)' = CallsAt(J) /\ CallsAt(D)' = CallsAt(D)
    BY <1>0, <2>1, CallMoves DEF Holding
  <2>3. BulkheadTypes'
    BY <1>0, <1>5, <2>1 DEF GiveUp, Moves, BulkheadTypes
  <2> QED BY <1>0, <1>5, <2>2, <2>3, Zenon DEF GiveUp, BulkheadInv, BulkheadAccounted
<1>6. ASSUME NEW c \in BulkheadCalls, LeaveWait(c) PROVE BulkheadInv'
  <2>1. PICK a \in {"acquired", "rejected"} :
          \/ a = "acquired" /\ Moves(c, "leave_acquired", "observe_acquired")
          \/ a = "rejected" /\ Moves(c, "leave_rejected", "observe_rejected")
    BY <1>6, Zenon DEF LeaveWait
  <2>2. {"leave_acquired", "observe_acquired", "leave_rejected", "observe_rejected"} \subseteq Places
    BY Zenon DEF Places
  <2>3. /\ CallsAt(H)' = CallsAt(H) /\ CallsAt(R)' = CallsAt(R) /\ CallsAt(W)' = CallsAt(W) - 1
        /\ CallsAt(J)' = CallsAt(J) /\ CallsAt(D)' = CallsAt(D)
    <3>1. CASE Moves(c, "leave_acquired", "observe_acquired")
      BY <1>0, <2>2, <3>1, CallMoves DEF Holding
    <3>2. CASE Moves(c, "leave_rejected", "observe_rejected")
      BY <1>0, <2>2, <3>2, CallMoves DEF Holding
    <3> QED BY <2>1, <3>1, <3>2, Zenon
  <2>4. BulkheadTypes'
    BY <1>0, <1>6, <2>2 DEF LeaveWait, Moves, BulkheadTypes
  <2> QED BY <1>0, <1>6, <2>3, <2>4, Zenon DEF LeaveWait, BulkheadInv, BulkheadAccounted
<1>7. ASSUME NEW c \in BulkheadCalls, ObserveWait(c) PROVE BulkheadInv'
  <2>1. /\ waitStats' \in [count : Nat, sum : Int, min : Int, max : Int]
        /\ waitStats'.count = waitStats.count + 1
        /\ waitStats'.min * waitStats'.count <= waitStats'.sum
        /\ waitStats'.sum <= waitStats'.max * waitStats'.count
    <3>1. waitClock - waitStart[c] \in Int /\ waitStats' = Observe(waitStats, waitClock - waitStart[c])
      BY <1>0, <1>7 DEF ObserveWait, BulkheadTypes
    <3>2. waitStats.min * waitStats.count <= waitStats.sum /\ waitStats.sum <= waitStats.max * waitStats.count
      BY <1>0, Zenon DEF BulkheadAccounted
    <3>3. waitStats \in [count : Nat, sum : Int, min : Int, max : Int]
      BY <1>0, Zenon DEF BulkheadTypes
    <3> QED BY <3>1, <3>2, <3>3, ObserveBounds, Zenon
  <2>2. {"observe_acquired", "acquired", "observe_rejected", "rejected"} \subseteq Places
    BY Zenon DEF Places
  <2>3. CASE Moves(c, "observe_acquired", "acquired") /\ UNCHANGED rejected
    <3>1. /\ CallsAt(H)' = CallsAt(H) /\ CallsAt(R)' = CallsAt(R) /\ CallsAt(W)' = CallsAt(W)
          /\ CallsAt(J)' = CallsAt(J) /\ CallsAt(D)' = CallsAt(D) + 1
      BY <1>0, <2>2, <2>3, CallMoves DEF Holding
    <3>2. BulkheadTypes'
      BY <1>0, <1>7, <2>1, <2>2, <2>3, Zenon DEF ObserveWait, Moves, BulkheadTypes
    <3> QED BY <1>0, <1>7, <2>1, <2>3, <3>1, <3>2, ZenonT(60) DEF ObserveWait, BulkheadInv, BulkheadAccounted
  <2>4. CASE Moves(c, "observe_rejected", "rejected") /\ rejected' = rejected + 1
    <3>1. /\ CallsAt(H)' = CallsAt(H) /\ CallsAt(R)' = CallsAt(R) /\ CallsAt(W)' = CallsAt(W)
          /\ CallsAt(J)' = CallsAt(J) + 1 /\ CallsAt(D)' = CallsAt(D) + 1
      BY <1>0, <2>2, <2>4, CallMoves DEF Holding
    <3>2. BulkheadTypes'
      BY <1>0, <1>7, <2>1, <2>2, <2>4 DEF ObserveWait, Moves, BulkheadTypes
    <3> QED BY <1>0, <1>7, <2>1, <2>4, <3>1, <3>2, ZenonT(60) DEF ObserveWait, BulkheadInv, BulkheadAccounted
  <2> QED BY <1>7, <2>3, <2>4, Zenon DEF ObserveWait
<1>8. ASSUME NEW c \in BulkheadCalls, StartFn(c) PROVE BulkheadInv'
  <2>1. Moves(c, "acquired", "running") /\ "acquired" \in Places /\ "running" \in Places
    BY <1>8, Zenon DEF StartFn, Places
  <2>2. /\ CallsAt(H)' = CallsAt(H) /\ CallsAt(R)' = CallsAt(R) + 1 /\ CallsAt(W)' = CallsAt(W)
        /\ CallsAt(J)' = CallsAt(J) /\ CallsAt(D)' = CallsAt(D)
    BY <1>0, <2>1, CallMoves DEF Holding
  <2>3. BulkheadTypes'
    BY <1>0, <1>8, <2>1 DEF StartFn, Moves, BulkheadTypes
  <2> QED BY <1>0, <1>8, <2>2, <2>3, Zenon DEF StartFn, BulkheadInv, BulkheadAccounted
<1>9. ASSUME NEW c \in BulkheadCalls, FinishFn(c) PROVE BulkheadInv'
  <2>1. Moves(c, "running", "releasing") /\ "running" \in Places /\ "releasing" \in Places
    BY <1>9, Zenon DEF FinishFn, Places
  <2>2. /\ CallsAt(H)' = CallsAt(H) - 1 /\ CallsAt(R)' = CallsAt(R) /\ CallsAt(W)' = CallsAt(W)
        /\ CallsAt(J)' = CallsAt(J) /\ CallsAt(D)' = CallsAt(D)
    BY <1>0, <2>1, CallMoves DEF Holding
  <2>3. BulkheadTypes'
    BY <1>0, <1>9, <2>1 DEF FinishFn, Moves, BulkheadTypes
  <2>4. sem - 1 <= MaxConcurrency
    BY <1>0, BulkheadAssumption DEF BulkheadTypes, BulkheadAccounted
  <2> QED BY <1>0, <1>9, <2>2, <2>3, <2>4, Zenon DEF FinishFn, BulkheadInv, BulkheadAccounted
<1>10. ASSUME NEW c \in BulkheadCalls, EndCall(c) PROVE BulkheadInv'
  <2>1. Moves(c, "releasing", "returned") /\ "releasing" \in Places /\ "returned" \in Places
    BY <1>10, Zenon DEF EndCall, Places
  <2>2. /\ CallsAt(H)' = CallsAt(H) /\ CallsAt(R)' = CallsAt(R) - 1 /\ CallsAt(W)' = CallsAt(W)
        /\ CallsAt(J)' = CallsAt(J) /\ CallsAt(D)' = CallsAt(D)
    BY <1>0, <2>1, CallMoves DEF Holding
  <2>3. BulkheadTypes'
    BY <1>0, <1>10, <2>1 DEF EndCall, Moves, BulkheadTypes
  <2> QED BY <1>0, <1>10, <2>2, <2>3, Zenon DEF EndCall, BulkheadInv, BulkheadAccounted
<1>11. CASE WaitTick
  <2>1. BulkheadTypes'
    BY <1>0, <1>11 DEF WaitTick, BulkheadTypes
  <2> QED BY <1>0, <1>11, <2>1, Zenon DEF WaitTick, BulkheadInv, BulkheadAccounted, CallsAt
<1>12. CASE UNCHANGED bulkheadVars
  BY <1>0, <1>12, Zenon DEF bulkheadVars, BulkheadInv, BulkheadTypes, BulkheadAccounted, CallsAt
<1> QED BY <1>1, <1>2, <1>3, <1>4, <1>5, <1>6, <1>7, <1>8, <1>9, <1>10, <1>11, <1>12, Zenon
        DEF BulkheadNext, BulkheadStep

-----------------------------------------------------------------------------
(***************************************************************************)
(* However many calls race for the semaphore, the timer and the context,   *)
(* no slot of it is lost or invented, at most MaxConcurrency functions     *)
(* run, and the gauges and wait statistics never drift (bulkhead.go        *)
(* Execute).                                                               *)
(***************************************************************************)
THEOREM NoSlotLost == BulkheadSpec => []BulkheadAccounted
<1>1. ASSUME BulkheadInit PROVE BulkheadInv
  <2>1. \A P \in SUBSET (Places \ {"idle"}) : CallsAt(P) = 0
    <3> SUFFICES ASSUME NEW P \in SUBSET (Places \ {"idle"}) PROVE CallsAt(P) = 0
      BY Zenon
    <3>1. {c \in BulkheadCalls : callPc[c] \in P} = {}
      BY <1>1, Zenon DEF BulkheadInit
    <3> QED BY <3>1, FS_EmptySet, Zenon DEF CallsAt
  <2>2. /\ CallsAt(Holding) = 0 /\ CallsAt({"running", "releasing"}) = 0
        /\ CallsAt({"waiting", "leave_acquired", "leave_rejected"}) = 0 /\ CallsAt({"rejected"}) = 0
        /\ CallsAt({"acquired", "running", "releasing", "returned", "rejected"}) = 0
    BY <2>1, Zenon DEF Places, Holding
  <2>3. BulkheadTypes
    BY <1>1 DEF BulkheadInit, BulkheadTypes, Places
  <2> QED BY <1>1, <2>2, <2>3, BulkheadAssumption DEF BulkheadInit, BulkheadInv, BulkheadAccounted
<1>2. BulkheadInv => BulkheadAccounted
  BY Zenon DEF BulkheadInv
<1> QED BY <1>1, <1>2, BulkheadInvStep, PTL DEF BulkheadSpec
=============================================================================
