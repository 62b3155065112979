------------------------- MODULE LeakyBucketProofs --------------------------
(***************************************************************************)
(* The leaky bucket, for any number of calls, batches, priorities, resets  *)
(* and queues a key has had: its tokens are neither lost nor doubled, and  *)
(* the queue in the map has a leaker.                                      *)
(***************************************************************************)
EXTENDS LeakyBucket, SumTheorems

\* What proves a step that names no prover.
USE SMTT(30), Z3T(30), Zenon

Slots == [call : LeakyCalls, i : Nat]
Waiters == [call : LeakyCalls, i : {1}, prio : Int, seq : Nat]
QueueRecords ==
  [fifo : Seq(Slots), heap : SUBSET Waiters, nextSeq : Nat,
   leaker : {"none", "wait", "check", "drain", "exited"}]
CallRecords ==
  [pc : {"new", "enqueue", "wait", "returned"}, q : 0..MaxQueues, viaHeap : BOOLEAN, cancelled : BOOLEAN,
   res : Seq({"none", "allow", "deny"})]
Resetters == [pc : {"idle", "drain", "delete"}, q : 0..MaxQueues, left : Int]

LeakyType ==
  /\ mapped \in 0..MaxQueues /\ queues \in [Incarnations -> QueueRecords]
  /\ calls \in [LeakyCalls -> CallRecords] /\ resetter \in Resetters

\* The token has no answer yet, and its call waits for one at queue i.
Awaits(t, i) == calls[t.call].q = i /\ t.i \in DOMAIN calls[t.call].res /\ calls[t.call].res[t.i] = "none"

\* The channel of queue i: the tokens of calls that wait, or have left them behind.
FifoOk(i) ==
  /\ \A k \in DOMAIN queues[i].fifo :
       /\ calls[queues[i].fifo[k].call].pc \in {"wait", "returned"}
       /\ calls[queues[i].fifo[k].call].pc = "wait" =>
            Awaits(queues[i].fifo[k], i) /\ ~calls[queues[i].fifo[k].call].viaHeap
  /\ \A k, l \in DOMAIN queues[i].fifo : queues[i].fifo[k] = queues[i].fifo[l] => k = l

\* The heap of queue i: one token of each of its calls, told apart by seq.
HeapOk(i) ==
  /\ IsFiniteSet(queues[i].heap)
  /\ \A t \in queues[i].heap :
       calls[t.call].pc = "wait" /\ calls[t.call].viaHeap /\ Awaits(t, i) /\ t.seq < queues[i].nextSeq
  /\ \A t, u \in queues[i].heap : t # u => t.call # u.call /\ t.seq # u.seq

CapacityOk(i) == Len(queues[i].fifo) + Cardinality(queues[i].heap) <= LeakyCapacity

\* A call that waits has its unanswered tokens in its queue.
CallOk(c) ==
  /\ (calls[c].pc \in {"new", "enqueue"} => ~calls[c].viaHeap) /\ (calls[c].pc = "enqueue" => calls[c].q # 0)
  /\ calls[c].pc = "wait" =>
       /\ calls[c].q # 0 /\ (calls[c].viaHeap => Len(calls[c].res) = 1)
       /\ \A j \in DOMAIN calls[c].res : calls[c].res[j] = "none" =>
            IF calls[c].viaHeap THEN calls[c].cancelled \/ \E t \in queues[calls[c].q].heap : t.call = c
            ELSE \E k \in DOMAIN queues[calls[c].q].fifo : queues[calls[c].q].fifo[k] = [call |-> c, i |-> j]

LeakyInv ==
  /\ LeakyType /\ (resetter.pc = "drain" => resetter.q # 0)
  /\ \A i \in Incarnations : FifoOk(i) /\ HeapOk(i) /\ CapacityOk(i)
  /\ \A c \in LeakyCalls : CallOk(c)

\* The order of the heap, on a set of waiters that seq tells apart: it has a first.
Apart(S) == S \subseteq Waiters /\ \A t, u \in S : t # u => t.seq # u.seq
First(S, t) == t \in S /\ \A u \in S \ {t} : Less(t, u)

\* A heap that is not empty has one waiter before all the others, the one the leaker pops.
LEMMA HeapHasFirst ==
  ASSUME NEW S, IsFiniteSet(S), S # {}, Apart(S)
  PROVE  \E t \in S : First(S, t)
<1> DEFINE Bad(n) == \E T : IsFiniteSet(T) /\ T # {} /\ Apart(T) /\ Cardinality(T) = n /\ ~(\E t \in T : First(T, t))
<1>1. SUFFICES ASSUME Bad(Cardinality(S)) PROVE FALSE
  BY Zenon
<1>2. Cardinality(S) \in Nat
  BY FS_CardinalityType, Zenon
<1>3. PICK n \in Nat : Bad(n) /\ \A m \in Nat : m < n => ~Bad(m)
  <2> HIDE DEF Bad
  <2>1. {m \in Nat : Bad(m)} # {} /\ {m \in Nat : Bad(m)} \subseteq Nat
    BY <1>1, <1>2, Zenon
  <2>2. PICK n \in {m \in Nat : Bad(m)} : \A m \in {m \in Nat : Bad(m)} : n <= m
    BY <2>1, LeastNumber, Zenon
  <2> QED
    BY <2>2
<1>4. PICK T : IsFiniteSet(T) /\ T # {} /\ Apart(T) /\ Cardinality(T) = n /\ ~(\E t \in T : First(T, t))
  BY <1>3, Zenon
<1>5. PICK x \in T : TRUE
  BY <1>4, Zenon
<1>6. PICK R : R = T \ {x}
  BY Zenon
<1>7. IsFiniteSet(R) /\ Cardinality(R) = n - 1 /\ n - 1 \in Nat /\ n - 1 < n
  <2>1. IsFiniteSet(R) /\ Cardinality(R) = Cardinality(T) - 1
    BY <1>4, <1>6, FS_RemoveElement, Zenon
  <2>2. Cardinality(R) \in Nat
    BY <2>1, FS_CardinalityType, Zenon
  <2> QED
    BY <1>4, <2>1, <2>2
<1>8. R # {}
  <2>1. ASSUME R = {} PROVE FALSE
    <3>1. First(T, x)
      BY <1>6, <2>1, Zenon DEF First
    <3> QED
      BY <1>4, <3>1, Zenon
  <2> QED
    BY <2>1, Zenon
<1>9. Apart(R)
  BY <1>4, <1>6, Zenon DEF Apart
<1>10. PICK m \in R : First(R, m)
  BY <1>3, <1>7, <1>8, <1>9, Zenon
<1>11. m \in T /\ m # x /\ m \in Waiters /\ x \in Waiters /\ m.seq # x.seq
  BY <1>4, <1>6, <1>10, Zenon DEF Apart
<1>12. /\ m.prio \in Int /\ x.prio \in Int /\ m.seq \in Nat /\ x.seq \in Nat
  BY <1>11, Zenon DEF Waiters
<1>13. CASE Less(m, x)
  <2>1. First(T, m)
    BY <1>6, <1>10, <1>11, <1>13, Zenon DEF First
  <2> QED
    BY <1>4, <1>11, <2>1, Zenon
<1>14. CASE ~Less(m, x)
  <2>1. Less(x, m)
    BY <1>11, <1>12, <1>14 DEF Less
  <2>2. ASSUME NEW u \in T \ {x} PROVE Less(x, u)
    <3>1. CASE u = m
      BY <2>1, <3>1, Zenon
    <3>2. CASE u # m
      <4>1. Less(m, u)
        BY <1>6, <1>10, <2>2, <3>2, Zenon DEF First
      <4>2. u.prio \in Int /\ u.seq \in Nat
        BY <1>4, Zenon DEF Apart, Waiters
      <4> QED
        BY <1>12, <2>1, <4>1, <4>2 DEF Less
    <3> QED
      BY <3>1, <3>2, Zenon
  <2>3. First(T, x)
    BY <2>2, Zenon DEF First
  <2> QED
    BY <1>4, <2>3, Zenon
<1> QED
  BY <1>13, <1>14, Zenon

\* One queue changes and some tokens get their answer: every token that leaves the
\* queue is answered or, in the heap, of a cancelled call, and none that stays is.
Serves(i, r, Hit) ==
  /\ r \in QueueRecords /\ queues' = [queues EXCEPT ![i] = r] /\ r.nextSeq = queues[i].nextSeq
  /\ r.heap \subseteq queues[i].heap
  /\ \A t \in queues[i].heap \ r.heap : <<t.call, t.i>> \in Hit \/ calls[t.call].cancelled
  /\ \/ r.fifo = queues[i].fifo
     \/ /\ queues[i].fifo # <<>> /\ r.fifo = Tail(queues[i].fifo)
        /\ <<Head(queues[i].fifo).call, Head(queues[i].fifo).i>> \in Hit
  /\ \A t \in r.heap : <<t.call, t.i>> \notin Hit
  /\ \A k \in DOMAIN r.fifo : calls[r.fifo[k].call].pc = "wait" => <<r.fifo[k].call, r.fifo[k].i>> \notin Hit
  /\ \A h \in Hit : calls[h[1]].pc = "wait" => calls[h[1]].q = i

Answers(Hit) ==
  /\ calls' \in [LeakyCalls -> CallRecords]
  /\ \A c \in LeakyCalls :
       /\ calls'[c].pc = calls[c].pc /\ calls'[c].q = calls[c].q /\ calls'[c].viaHeap = calls[c].viaHeap
       /\ calls'[c].cancelled = calls[c].cancelled /\ Len(calls'[c].res) = Len(calls[c].res)
       /\ \A j \in DOMAIN calls[c].res :
            calls[c].pc = "wait" => (calls'[c].res[j] = "none" <=> calls[c].res[j] = "none" /\ <<c, j>> \notin Hit)

\* What the tokens of a queue in the middle of such a step look like.
LEMMA StillAwaits ==
  ASSUME LeakyInv, NEW Hit, Answers(Hit), NEW t, t.call \in LeakyCalls, NEW i, Awaits(t, i),
         calls[t.call].pc = "wait", <<t.call, t.i>> \notin Hit
  PROVE  Awaits(t, i)'
<1>1. PICK c \in LeakyCalls : c = t.call
  BY Zenon
<1>2. calls[c].res \in Seq({"none", "allow", "deny"}) /\ calls'[c].res \in Seq({"none", "allow", "deny"})
  BY Zenon DEF LeakyInv, LeakyType, CallRecords, Answers
<1>3. DOMAIN calls'[c].res = DOMAIN calls[c].res
  BY <1>2 DEF Answers
<1> QED
  BY <1>1, <1>3, Zenon DEF Answers, Awaits

\* Answering the tokens that leave a queue, and no other, keeps the invariant.
LEMMA ServeStep ==
  ASSUME LeakyInv, NEW i \in Incarnations, NEW r, NEW Hit, Serves(i, r, Hit), Answers(Hit),
         mapped' \in 0..MaxQueues, resetter' \in Resetters, resetter'.pc = "drain" => resetter'.q # 0
  PROVE  LeakyInv'
<1>1. /\ queues \in [Incarnations -> QueueRecords] /\ calls \in [LeakyCalls -> CallRecords]
      /\ queues' = [queues EXCEPT ![i] = r] /\ r \in QueueRecords
  BY Zenon DEF LeakyInv, LeakyType, Serves
<1>2. \A j \in Incarnations : queues'[j] = IF j = i THEN r ELSE queues[j]
  BY <1>1, Zenon
<1>3. LeakyType'
  <2>1. queues' \in [Incarnations -> QueueRecords] /\ calls' \in [LeakyCalls -> CallRecords]
    BY <1>1, Zenon DEF Answers
  <2> QED
    BY <2>1, Zenon DEF LeakyInv, LeakyType
<1>4. \A j \in Incarnations : FifoOk(j) /\ HeapOk(j) /\ CapacityOk(j)
  BY Zenon DEF LeakyInv
<1>5. \A t : t.call \in LeakyCalls /\ calls[t.call].pc = "wait" /\ <<t.call, t.i>> \notin Hit =>
        \A j : Awaits(t, j) => Awaits(t, j)'
  BY StillAwaits, Zenon
<1>6. \A c \in LeakyCalls : calls'[c].pc = calls[c].pc /\ calls'[c].q = calls[c].q /\ calls'[c].viaHeap = calls[c].viaHeap
                            /\ calls'[c].cancelled = calls[c].cancelled
  BY Zenon DEF Answers
<1>7. ASSUME NEW j \in Incarnations, j # i PROVE FifoOk(j)' /\ HeapOk(j)' /\ CapacityOk(j)'
  <2>1. queues'[j] = queues[j] /\ FifoOk(j) /\ HeapOk(j) /\ CapacityOk(j)
    BY <1>2, <1>4, <1>7, Zenon
  <2>2. \A h \in Hit : calls[h[1]].pc = "wait" => calls[h[1]].q = i
    BY Zenon DEF Serves
  <2>3. \A t : calls[t.call].pc = "wait" /\ Awaits(t, j) => <<t.call, t.i>> \notin Hit
    BY <1>7, <2>2, Zenon DEF Awaits
  <2>4. \A k \in DOMAIN queues[j].fifo : queues[j].fifo[k] \in Slots
    BY <1>1 DEF QueueRecords
  <2>5. \A t \in queues[j].heap : t \in Waiters
    BY <1>1, Zenon DEF QueueRecords
  <2>6. FifoOk(j)'
    <3>1. ASSUME NEW k \in DOMAIN queues[j].fifo
          PROVE  /\ calls'[queues[j].fifo[k].call].pc \in {"wait", "returned"}
                 /\ calls'[queues[j].fifo[k].call].pc = "wait" =>
                      Awaits(queues[j].fifo[k], j)' /\ ~calls'[queues[j].fifo[k].call].viaHeap
      <4>1. PICK t : t = queues[j].fifo[k]
        BY Zenon
      <4>2. t.call \in LeakyCalls
        BY <2>4, <4>1, Zenon DEF Slots
      <4>3. calls[t.call].pc \in {"wait", "returned"} /\ (calls[t.call].pc = "wait" => Awaits(t, j) /\ ~calls[t.call].viaHeap)
        BY <2>1, <4>1, Zenon DEF FifoOk
      <4>4. calls'[t.call].pc = "wait" => Awaits(t, j)'
        BY <1>5, <1>6, <2>3, <4>2, <4>3, Zenon
      <4> QED
        BY <1>6, <2>1, <4>1, <4>2, <4>3, <4>4, Zenon DEF Awaits
    <3> QED
      BY <2>1, <3>1, ZenonT(60) DEF FifoOk, Awaits
  <2>7. HeapOk(j)'
    <3>1. ASSUME NEW t \in queues[j].heap
          PROVE  calls'[t.call].pc = "wait" /\ calls'[t.call].viaHeap /\ Awaits(t, j)' /\ t.seq < queues[j].nextSeq
      <4>1. t.call \in LeakyCalls
        BY <2>5, Zenon DEF Waiters
      <4>2. calls[t.call].pc = "wait" /\ calls[t.call].viaHeap /\ Awaits(t, j) /\ t.seq < queues[j].nextSeq
        BY <2>1, Zenon DEF HeapOk
      <4>3. Awaits(t, j)'
        BY <1>5, <2>3, <4>1, <4>2, Zenon
      <4> QED
        BY <1>6, <4>1, <4>2, <4>3, Zenon
    <3> QED
      BY <2>1, <3>1, Zenon DEF HeapOk
  <2> QED
    BY <2>1, <2>6, <2>7, Zenon DEF CapacityOk
<1>8. PICK q \in QueueRecords : q = queues[i]
  BY <1>1, Zenon
<1>9. queues'[i] = r /\ q.fifo \in Seq(Slots) /\ r.fifo \in Seq(Slots) /\ q.heap \subseteq Waiters
  BY <1>1, <1>2, Zenon DEF QueueRecords
<1>10. r.heap \subseteq q.heap /\ r.nextSeq = q.nextSeq /\ IsFiniteSet(q.heap)
  BY <1>4, <1>8, Zenon DEF Serves, HeapOk
<1>11. PICK d \in {0, 1} : /\ Len(r.fifo) = Len(q.fifo) - d /\ \A k \in 1..Len(r.fifo) : r.fifo[k] = q.fifo[k + d]
                           /\ d = 1 => q.fifo # <<>> /\ <<q.fifo[1].call, q.fifo[1].i>> \in Hit
  <2>1. CASE r.fifo = q.fifo
    BY <1>9, <2>1
  <2>2. CASE q.fifo # <<>> /\ r.fifo = Tail(q.fifo) /\ <<Head(q.fifo).call, Head(q.fifo).i>> \in Hit
    BY <1>9, <2>2
  <2> QED
    BY <1>8, <2>1, <2>2, Zenon DEF Serves
<1>12. FifoOk(i)'
  <2>1. FifoOk(i)
    BY <1>4, Zenon
  <2>2. ASSUME NEW k \in DOMAIN r.fifo
        PROVE  /\ k + d \in DOMAIN q.fifo /\ r.fifo[k] = q.fifo[k + d] /\ r.fifo[k].call \in LeakyCalls
               /\ calls[r.fifo[k].call].pc \in {"wait", "returned"}
               /\ calls[r.fifo[k].call].pc = "wait" => Awaits(r.fifo[k], i) /\ ~calls[r.fifo[k].call].viaHeap
    <3>1. k + d \in DOMAIN q.fifo /\ r.fifo[k] = q.fifo[k + d]
      <4>1. Len(r.fifo) \in Nat /\ Len(q.fifo) \in Nat /\ Len(r.fifo) = Len(q.fifo) - d /\ k \in 1..Len(r.fifo)
        BY <1>9, <1>11
      <4>2. k + d \in 1..Len(q.fifo)
        BY <4>1
      <4>3. DOMAIN q.fifo = 1..Len(q.fifo)
        BY <1>9
      <4> QED
        BY <1>11, <4>1, <4>2, <4>3, Zenon
    <3>2. q.fifo[k + d] \in Slots
      BY <1>9, <3>1
    <3>3. PICK t \in Slots : t = q.fifo[k + d]
      BY <3>2, Zenon
    <3>4. /\ t.call \in LeakyCalls /\ calls[t.call].pc \in {"wait", "returned"}
          /\ calls[t.call].pc = "wait" => Awaits(t, i) /\ ~calls[t.call].viaHeap
      BY <1>8, <2>1, <3>1, <3>3, Zenon DEF FifoOk, Slots
    <3> QED
      BY <3>1, <3>3, <3>4, Zenon
  <2>3. ASSUME NEW k \in DOMAIN r.fifo
        PROVE  /\ calls'[r.fifo[k].call].pc \in {"wait", "returned"}
               /\ calls'[r.fifo[k].call].pc = "wait" => Awaits(r.fifo[k], i)' /\ ~calls'[r.fifo[k].call].viaHeap
    <3>1. calls[r.fifo[k].call].pc = "wait" => <<r.fifo[k].call, r.fifo[k].i>> \notin Hit
      BY Zenon DEF Serves
    <3> QED
      BY <1>5, <1>6, <2>2, <3>1, Zenon
  <2>4. \A k, l \in DOMAIN r.fifo : r.fifo[k] = r.fifo[l] => k = l
    <3>1. \A k, l \in DOMAIN q.fifo : q.fifo[k] = q.fifo[l] => k = l
      BY <1>8, <2>1, Zenon DEF FifoOk
    <3>2. ASSUME NEW k \in DOMAIN r.fifo, NEW l \in DOMAIN r.fifo, r.fifo[k] = r.fifo[l] PROVE k = l
      <4>1. k + d = l + d
        BY <2>2, <3>1, <3>2
      <4>2. k \in Int /\ l \in Int
        BY <1>9
      <4> QED
        BY <4>1, <4>2
    <3> QED
      BY <3>2, Zenon
  <2> QED
    BY <1>9, <2>3, <2>4, Zenon DEF FifoOk, Awaits
<1>13. HeapOk(i)'
  <2>1. HeapOk(i)
    BY <1>4, Zenon
  <2>2. IsFiniteSet(r.heap)
    BY <1>10, FS_Subset, Zenon
  <2>3. \A t \in r.heap : t.call \in LeakyCalls /\ <<t.call, t.i>> \notin Hit
    BY <1>9, <1>10, Zenon DEF Serves, Waiters
  <2> QED
    BY <1>5, <1>6, <1>8, <1>9, <1>10, <2>1, <2>2, <2>3, ZenonT(60) DEF HeapOk
<1>14. CapacityOk(i)'
  <2>1. Cardinality(r.heap) <= Cardinality(q.heap) /\ Cardinality(r.heap) \in Nat /\ Cardinality(q.heap) \in Nat
    BY <1>10, FS_Subset, FS_CardinalityType, Zenon
  <2>2. Len(q.fifo) + Cardinality(q.heap) <= LeakyCapacity /\ Len(q.fifo) \in Nat /\ Len(r.fifo) \in Nat
    BY <1>4, <1>8, <1>9 DEF CapacityOk
  <2> QED
    BY <1>9, <1>11, <2>1, <2>2, LeakyAssumption DEF CapacityOk
<1>15. ASSUME NEW c \in LeakyCalls PROVE CallOk(c)'
  <2>1. PICK me \in CallRecords : me = calls[c]
    BY <1>1, Zenon
  <2>2. PICK it : it = calls'[c]
    BY Zenon
  <2>3. /\ it.pc = me.pc /\ it.q = me.q /\ it.viaHeap = me.viaHeap /\ it.cancelled = me.cancelled /\ Len(it.res) = Len(me.res)
        /\ DOMAIN it.res = DOMAIN me.res
    BY <1>1, <2>1, <2>2 DEF Answers, CallRecords
  <2>4. CallOk(c)
    BY Zenon DEF LeakyInv
  <2>5. (it.pc \in {"new", "enqueue"} => ~it.viaHeap) /\ (it.pc = "enqueue" => it.q # 0)
    BY <2>1, <2>3, <2>4, Zenon DEF CallOk
  <2>6. ASSUME me.pc = "wait" PROVE me.q \in Incarnations /\ (me.viaHeap => Len(me.res) = 1)
    BY <2>1, <2>4, <2>6, LeakyAssumption DEF CallOk, CallRecords, Incarnations
  <2>7. ASSUME me.pc = "wait", NEW j \in DOMAIN it.res, it.res[j] = "none"
        PROVE  IF me.viaHeap THEN me.cancelled \/ \E t \in queues'[me.q].heap : t.call = c
               ELSE \E k \in DOMAIN queues'[me.q].fifo : queues'[me.q].fifo[k] = [call |-> c, i |-> j]
    <3>1. me.res[j] = "none" /\ <<c, j>> \notin Hit /\ j \in DOMAIN me.res
      BY <2>1, <2>2, <2>3, <2>7, Zenon DEF Answers
    <3>2. IF me.viaHeap THEN me.cancelled \/ \E t \in queues[me.q].heap : t.call = c
          ELSE \E k \in DOMAIN queues[me.q].fifo : queues[me.q].fifo[k] = [call |-> c, i |-> j]
      BY <2>1, <2>4, <2>7, <3>1, Zenon DEF CallOk
    <3>3. CASE me.q # i
      BY <1>2, <2>6, <2>7, <3>2, <3>3, Zenon
    <3>4. CASE me.q = i /\ me.viaHeap
      <4>1. j = 1
        BY <2>1, <2>6, <2>7, <3>1, <3>4 DEF CallRecords
      <4>2. ASSUME NEW t \in q.heap, t.call = c, ~me.cancelled PROVE t \in r.heap
        <5>1. t.i = 1
          BY <1>9, Zenon DEF Waiters
        <5> QED
          BY <1>8, <2>1, <3>1, <4>1, <4>2, <5>1, Zenon DEF Serves
      <4> QED
        BY <1>8, <1>9, <3>2, <3>4, <4>2, Zenon
    <3>5. CASE me.q = i /\ ~me.viaHeap
      <4>1. PICK k \in DOMAIN q.fifo : q.fifo[k] = [call |-> c, i |-> j]
        BY <1>8, <3>2, <3>5, Zenon
      <4>2. q.fifo[k].call = c /\ q.fifo[k].i = j /\ k \in 1..Len(q.fifo)
        BY <1>9, <4>1
      <4>3. ~(d = 1 /\ k = 1)
        BY <1>11, <3>1, <4>2, Zenon
      <4>4. k - d \in 1..Len(r.fifo) /\ r.fifo[k - d] = q.fifo[k]
        <5>1. Len(r.fifo) \in Nat /\ Len(q.fifo) \in Nat /\ Len(r.fifo) = Len(q.fifo) - d
          BY <1>9, <1>11
        <5>2. k - d \in 1..Len(r.fifo) /\ (k - d) + d = k
          BY <4>2, <4>3, <5>1
        <5> QED
          BY <1>11, <5>2, Zenon
      <4> QED
        BY <1>9, <3>5, <4>1, <4>4
    <3> QED
      BY <3>3, <3>4, <3>5, Zenon
  <2> QED
    BY <2>2, <2>3, <2>5, <2>6, <2>7 DEF CallOk, Incarnations
<1> QED
  BY <1>2, <1>3, <1>7, <1>12, <1>13, <1>14, <1>15, Zenon DEF LeakyInv

\* Steps that touch neither tokens nor answers.
SameTokens ==
  /\ queues' \in [Incarnations -> QueueRecords]
  /\ \A i \in Incarnations : /\ queues'[i].fifo = queues[i].fifo /\ queues'[i].heap = queues[i].heap
                             /\ queues'[i].nextSeq = queues[i].nextSeq
SameAnswers ==
  /\ calls' \in [LeakyCalls -> CallRecords]
  /\ \A c \in LeakyCalls :
       \/ /\ calls'[c].pc = calls[c].pc /\ calls'[c].q = calls[c].q /\ calls'[c].viaHeap = calls[c].viaHeap
          /\ calls'[c].res = calls[c].res /\ (calls[c].cancelled => calls'[c].cancelled)
       \/ calls[c].pc = "new" /\ calls'[c].pc = "enqueue" /\ calls'[c].q # 0 /\ calls'[c].viaHeap = calls[c].viaHeap

\* So does a step that moves no token and answers none.
LEMMA QuietStep ==
  ASSUME LeakyInv, SameTokens, SameAnswers,
         mapped' \in 0..MaxQueues, resetter' \in Resetters, resetter'.pc = "drain" => resetter'.q # 0
  PROVE  LeakyInv'
<1>1. queues \in [Incarnations -> QueueRecords] /\ calls \in [LeakyCalls -> CallRecords]
  BY Zenon DEF LeakyInv, LeakyType
<1>2. LeakyType'
  BY Zenon DEF LeakyType, SameTokens, SameAnswers
<1>3. ASSUME NEW c \in LeakyCalls, calls[c].pc \in {"wait", "returned"}
      PROVE  /\ calls'[c].pc = calls[c].pc /\ calls'[c].q = calls[c].q /\ calls'[c].viaHeap = calls[c].viaHeap
             /\ calls'[c].res = calls[c].res /\ (calls[c].cancelled => calls'[c].cancelled)
  BY <1>3, Zenon DEF SameAnswers
<1>4. ASSUME NEW i \in Incarnations PROVE FifoOk(i)' /\ HeapOk(i)' /\ CapacityOk(i)'
  <2>1. FifoOk(i) /\ HeapOk(i) /\ CapacityOk(i)
    BY Zenon DEF LeakyInv
  <2>2. queues'[i].fifo = queues[i].fifo /\ queues'[i].heap = queues[i].heap /\ queues'[i].nextSeq = queues[i].nextSeq
    BY Zenon DEF SameTokens
  <2>3. queues[i].fifo \in Seq(Slots) /\ queues[i].heap \subseteq Waiters
    BY <1>1, Zenon DEF QueueRecords
  <2>4. FifoOk(i)'
    <3>1. ASSUME NEW k \in DOMAIN queues[i].fifo
          PROVE  /\ calls'[queues[i].fifo[k].call].pc \in {"wait", "returned"}
                 /\ calls'[queues[i].fifo[k].call].pc = "wait" =>
                      Awaits(queues[i].fifo[k], i)' /\ ~calls'[queues[i].fifo[k].call].viaHeap
      <4>1. PICK t \in Slots : t = queues[i].fifo[k]
        BY <2>3
      <4>2. t.call \in LeakyCalls /\ calls[t.call].pc \in {"wait", "returned"}
            /\ (calls[t.call].pc = "wait" => Awaits(t, i) /\ ~calls[t.call].viaHeap)
        BY <2>1, <4>1, Zenon DEF FifoOk, Slots
      <4> QED
        BY <1>3, <2>2, <4>1, <4>2, ZenonT(60) DEF Awaits
    <3> QED
      BY <2>1, <2>2, <3>1, ZenonT(60) DEF FifoOk, Awaits
  <2>5. HeapOk(i)'
    <3>1. ASSUME NEW t \in queues[i].heap
          PROVE  calls'[t.call].pc = "wait" /\ calls'[t.call].viaHeap /\ Awaits(t, i)' /\ t.seq < queues[i].nextSeq
      <4>1. t.call \in LeakyCalls
        BY <2>3, Zenon DEF Waiters
      <4>2. calls[t.call].pc = "wait" /\ calls[t.call].viaHeap /\ Awaits(t, i) /\ t.seq < queues[i].nextSeq
        BY <2>1, Zenon DEF HeapOk
      <4> QED
        BY <1>3, <4>1, <4>2, Zenon DEF Awaits
    <3> QED
      BY <2>1, <2>2, <3>1, Zenon DEF HeapOk
  <2> QED
    BY <2>1, <2>2, <2>4, <2>5, Zenon DEF CapacityOk
<1>5. ASSUME NEW c \in LeakyCalls PROVE CallOk(c)'
  <2>1. CallOk(c)
    BY Zenon DEF LeakyInv
  <2>2. CASE calls[c].pc = "new" /\ calls'[c].pc = "enqueue" /\ calls'[c].q # 0 /\ calls'[c].viaHeap = calls[c].viaHeap
    BY <2>1, <2>2, Zenon DEF CallOk
  <2>3. CASE /\ calls'[c].pc = calls[c].pc /\ calls'[c].q = calls[c].q /\ calls'[c].viaHeap = calls[c].viaHeap
             /\ calls'[c].res = calls[c].res /\ (calls[c].cancelled => calls'[c].cancelled)
    <3>1. CASE calls[c].pc # "wait"
      BY <2>1, <2>3, <3>1, Zenon DEF CallOk
    <3>2. CASE calls[c].pc = "wait"
      <4>1. calls[c].q # 0 /\ calls[c].q \in 0..MaxQueues
        BY <1>1, <2>1, <3>2, Zenon DEF CallOk, CallRecords
      <4>2. calls[c].q \in Incarnations
        BY <4>1, LeakyAssumption DEF Incarnations
      <4>3. /\ queues'[calls[c].q].fifo = queues[calls[c].q].fifo
            /\ queues'[calls[c].q].heap = queues[calls[c].q].heap
        BY <4>2, Zenon DEF SameTokens
      <4> QED
        BY <2>1, <2>3, <3>2, <4>1, <4>3 DEF CallOk
    <3> QED
      BY <3>1, <3>2, Zenon
  <2> QED
    BY <2>2, <2>3, Zenon DEF SameAnswers
<1> QED
  BY <1>2, <1>4, <1>5, Zenon DEF LeakyInv

\* A call returns, whether it ever waited or not: no waiter of it is in a heap by then.
LEMMA GoneStep ==
  ASSUME LeakyInv, NEW c \in LeakyCalls, NEW r \in CallRecords, r.pc = "returned", calls' = [calls EXCEPT ![c] = r],
         queues' \in [Incarnations -> QueueRecords],
         \A i \in Incarnations : /\ queues'[i].fifo = queues[i].fifo /\ queues'[i].nextSeq = queues[i].nextSeq
                                 /\ queues'[i].heap = {t \in queues[i].heap : t.call # c},
         UNCHANGED <<mapped, resetter>>
  PROVE  LeakyInv'
<1>1. queues \in [Incarnations -> QueueRecords] /\ calls \in [LeakyCalls -> CallRecords]
  BY Zenon DEF LeakyInv, LeakyType
<1>2. \A d \in LeakyCalls : calls'[d] = IF d = c THEN r ELSE calls[d]
  BY <1>1, Zenon
<1>3. LeakyType'
  <2>1. calls' \in [LeakyCalls -> CallRecords]
    BY <1>1, Zenon
  <2> QED
    BY <2>1, Zenon DEF LeakyInv, LeakyType
<1>4. ASSUME NEW i \in Incarnations PROVE FifoOk(i)' /\ HeapOk(i)' /\ CapacityOk(i)'
  <2>1. FifoOk(i) /\ HeapOk(i) /\ CapacityOk(i)
    BY Zenon DEF LeakyInv
  <2>2. queues'[i].fifo = queues[i].fifo /\ queues'[i].nextSeq = queues[i].nextSeq
    BY Zenon
  <2>3. queues[i].fifo \in Seq(Slots) /\ queues[i].heap \subseteq Waiters
    BY <1>1, Zenon DEF QueueRecords
  <2>4. FifoOk(i)'
    <3>1. ASSUME NEW k \in DOMAIN queues[i].fifo
          PROVE  /\ calls'[queues[i].fifo[k].call].pc \in {"wait", "returned"}
                 /\ calls'[queues[i].fifo[k].call].pc = "wait" =>
                      Awaits(queues[i].fifo[k], i)' /\ ~calls'[queues[i].fifo[k].call].viaHeap
      <4>1. PICK t \in Slots : t = queues[i].fifo[k]
        BY <2>3
      <4>2. t.call \in LeakyCalls /\ calls[t.call].pc \in {"wait", "returned"}
            /\ (calls[t.call].pc = "wait" => Awaits(t, i) /\ ~calls[t.call].viaHeap)
        BY <2>1, <4>1, Zenon DEF FifoOk, Slots
      <4> QED
        BY <1>2, <2>2, <4>1, <4>2, ZenonT(60) DEF Awaits
    <3> QED
      BY <2>1, <2>2, <3>1, ZenonT(60) DEF FifoOk, Awaits
  <2>5. PICK h : h = queues'[i].heap /\ h = {t \in queues[i].heap : t.call # c}
    BY Zenon
  <2>6. h \subseteq queues[i].heap /\ IsFiniteSet(h) /\ IsFiniteSet(queues[i].heap)
    BY <2>1, <2>5, FS_Subset, Zenon DEF HeapOk
  <2>7. HeapOk(i)'
    <3>1. ASSUME NEW t \in h
          PROVE  calls'[t.call].pc = "wait" /\ calls'[t.call].viaHeap /\ Awaits(t, i)' /\ t.seq < queues[i].nextSeq
      <4>1. t.call \in LeakyCalls /\ t.call # c
        BY <2>3, <2>5, Zenon DEF Waiters
      <4>2. calls[t.call].pc = "wait" /\ calls[t.call].viaHeap /\ Awaits(t, i) /\ t.seq < queues[i].nextSeq
        BY <2>1, <2>6, Zenon DEF HeapOk
      <4> QED
        BY <1>2, <4>1, <4>2 DEF Awaits
    <3>2. \A t, u \in h : t # u => t.call # u.call /\ t.seq # u.seq
      BY <2>1, <2>6, Zenon DEF HeapOk
    <3> QED
      BY <2>2, <2>5, <2>6, <3>1, <3>2, Zenon DEF HeapOk
  <2>8. CapacityOk(i)'
    <3>1. Cardinality(h) <= Cardinality(queues[i].heap) /\ Cardinality(h) \in Nat /\ Cardinality(queues[i].heap) \in Nat
      BY <2>6, FS_Subset, FS_CardinalityType, Zenon
    <3>2. Len(queues[i].fifo) \in Nat
      BY <2>3
    <3> QED
      BY <2>1, <2>2, <2>5, <3>1, <3>2, LeakyAssumption DEF CapacityOk
  <2> QED
    BY <2>4, <2>7, <2>8, Zenon
<1>5. ASSUME NEW d \in LeakyCalls PROVE CallOk(d)'
  <2>1. CallOk(d)
    BY Zenon DEF LeakyInv
  <2>2. CASE d = c
    BY <1>2, <2>2, Zenon DEF CallOk
  <2>3. CASE d # c
    <3>1. calls'[d] = calls[d]
      BY <1>2, <2>3, Zenon
    <3>2. CASE calls[d].pc # "wait"
      BY <2>1, <3>1, <3>2, Zenon DEF CallOk
    <3>3. CASE calls[d].pc = "wait"
      <4>1. calls[d].q # 0 /\ calls[d].q \in 0..MaxQueues
        BY <1>1, <2>1, <3>3, Zenon DEF CallOk, CallRecords
      <4>2. calls[d].q \in Incarnations
        BY <4>1, LeakyAssumption DEF Incarnations
      <4>3. /\ queues'[calls[d].q].fifo = queues[calls[d].q].fifo
            /\ \A t \in queues[calls[d].q].heap : t.call = d => t \in queues'[calls[d].q].heap
        BY <2>3, <4>2, Zenon
      <4>4. ASSUME NEW j \in DOMAIN calls[d].res, calls[d].res[j] = "none"
            PROVE  IF calls[d].viaHeap THEN calls[d].cancelled \/ \E t \in queues'[calls[d].q].heap : t.call = d
                   ELSE \E k \in DOMAIN queues'[calls[d].q].fifo : queues'[calls[d].q].fifo[k] = [call |-> d, i |-> j]
        <5>1. IF calls[d].viaHeap THEN calls[d].cancelled \/ \E t \in queues[calls[d].q].heap : t.call = d
              ELSE \E k \in DOMAIN queues[calls[d].q].fifo : queues[calls[d].q].fifo[k] = [call |-> d, i |-> j]
          BY <2>1, <3>3, <4>4, Zenon DEF CallOk
        <5> QED
          BY <4>3, <5>1, Zenon
      <4>5. calls[d].viaHeap => Len(calls[d].res) = 1
        BY <2>1, <3>3, Zenon DEF CallOk
      <4>6. PICK me : me = calls[d] /\ me = calls'[d]
        BY <3>1, Zenon
      <4>7. /\ me.pc = "wait" /\ me.q # 0 /\ (me.viaHeap => Len(me.res) = 1)
            /\ \A j \in DOMAIN me.res : me.res[j] = "none" =>
                 IF me.viaHeap THEN me.cancelled \/ \E t \in queues'[me.q].heap : t.call = d
                 ELSE \E k \in DOMAIN queues'[me.q].fifo : queues'[me.q].fifo[k] = [call |-> d, i |-> j]
        BY <3>3, <4>1, <4>4, <4>5, <4>6
      <4> QED
        BY <4>6, <4>7 DEF CallOk
    <3> QED
      BY <3>2, <3>3, Zenon
  <2> QED
    BY <2>2, <2>3, Zenon
<1> QED
  BY <1>3, <1>4, <1>5, Zenon DEF LeakyInv

\* The call that is about to enqueue has no token anywhere, so its step disturbs no
\* other call's tokens.
LEMMA OthersKeepTokens ==
  ASSUME LeakyInv, NEW c \in LeakyCalls, calls[c].pc = "enqueue", NEW r \in CallRecords,
         calls' = [calls EXCEPT ![c] = r], NEW i \in Incarnations
  PROVE  /\ \A t, k : k \in DOMAIN queues[i].fifo /\ queues[i].fifo[k] = t =>
              /\ t.call \in LeakyCalls \ {c} /\ calls'[t.call].pc \in {"wait", "returned"}
              /\ calls'[t.call].pc = "wait" => Awaits(t, i)' /\ ~calls'[t.call].viaHeap
         /\ \A t : t \in queues[i].heap =>
              t.call \in LeakyCalls \ {c} /\ calls'[t.call].pc = "wait" /\ calls'[t.call].viaHeap /\ Awaits(t, i)'
<1>1. queues \in [Incarnations -> QueueRecords] /\ calls \in [LeakyCalls -> CallRecords] /\ FifoOk(i) /\ HeapOk(i)
  BY Zenon DEF LeakyInv, LeakyType
<1>2. \A d \in LeakyCalls \ {c} : calls'[d] = calls[d]
  BY <1>1, Zenon
<1>3. queues[i].fifo \in Seq(Slots) /\ queues[i].heap \subseteq Waiters
  BY <1>1, Zenon DEF QueueRecords
<1>4. ASSUME NEW t, NEW k, k \in DOMAIN queues[i].fifo, queues[i].fifo[k] = t
      PROVE  /\ t.call \in LeakyCalls \ {c} /\ calls'[t.call].pc \in {"wait", "returned"}
             /\ calls'[t.call].pc = "wait" => Awaits(t, i)' /\ ~calls'[t.call].viaHeap
  <2>1. t \in Slots
    BY <1>3, <1>4
  <2>2. t.call \in LeakyCalls /\ calls[t.call].pc \in {"wait", "returned"}
        /\ (calls[t.call].pc = "wait" => Awaits(t, i) /\ ~calls[t.call].viaHeap)
    BY <1>1, <1>4, <2>1, Zenon DEF FifoOk, Slots
  <2>3. t.call \in LeakyCalls \ {c} /\ calls'[t.call] = calls[t.call]
    BY <1>2, <2>2, Zenon
  <2> QED
    BY <2>2, <2>3, Zenon DEF Awaits
<1>5. ASSUME NEW t, t \in queues[i].heap
      PROVE  t.call \in LeakyCalls \ {c} /\ calls'[t.call].pc = "wait" /\ calls'[t.call].viaHeap /\ Awaits(t, i)'
  <2>1. t.call \in LeakyCalls
    BY <1>3, <1>5, Zenon DEF Waiters
  <2>2. calls[t.call].pc = "wait" /\ calls[t.call].viaHeap /\ Awaits(t, i)
    BY <1>1, <1>5, Zenon DEF HeapOk
  <2>3. t.call \in LeakyCalls \ {c} /\ calls'[t.call] = calls[t.call]
    BY <1>2, <2>1, <2>2, Zenon
  <2> QED
    BY <2>2, <2>3, Zenon DEF Awaits
<1> QED
  BY <1>4, <1>5, Zenon

\* A call's tokens join its queue i, which becomes q: nothing else changes.
Joins(c, i, r, q) ==
  /\ calls[c].pc = "enqueue" /\ r \in CallRecords /\ calls' = [calls EXCEPT ![c] = r] /\ r.pc = "wait" /\ r.q = i
  /\ q \in QueueRecords /\ queues' = [queues EXCEPT ![i] = q] /\ UNCHANGED <<mapped, resetter>>

\* So does a call whose tokens join a queue, if they do so in order.
LEMMA JoinStep ==
  ASSUME LeakyInv, NEW c \in LeakyCalls, NEW i \in Incarnations, NEW r, NEW q, Joins(c, i, r, q),
         FifoOk(i)', HeapOk(i)', CapacityOk(i)', CallOk(c)',
         \A t \in queues[i].heap : t \in q.heap,
         \A k \in DOMAIN queues[i].fifo : k \in DOMAIN q.fifo /\ q.fifo[k] = queues[i].fifo[k]
  PROVE  LeakyInv'
<1>1. queues \in [Incarnations -> QueueRecords] /\ calls \in [LeakyCalls -> CallRecords]
  BY Zenon DEF LeakyInv, LeakyType
<1>2. /\ r \in CallRecords /\ calls' = [calls EXCEPT ![c] = r] /\ calls[c].pc = "enqueue"
      /\ q \in QueueRecords /\ queues' = [queues EXCEPT ![i] = q] /\ UNCHANGED <<mapped, resetter>>
  BY Zenon DEF Joins
<1>3. LeakyType'
  <2>1. queues' \in [Incarnations -> QueueRecords] /\ calls' \in [LeakyCalls -> CallRecords]
    BY <1>1, <1>2, Zenon
  <2> QED
    BY <1>2, <2>1, Zenon DEF LeakyInv, LeakyType
<1>4. ASSUME NEW j \in Incarnations, j # i PROVE FifoOk(j)' /\ HeapOk(j)' /\ CapacityOk(j)'
  <2>1. queues'[j] = queues[j] /\ FifoOk(j) /\ HeapOk(j) /\ CapacityOk(j)
    BY <1>1, <1>2, <1>4, Zenon DEF LeakyInv
  <2>2. \A t, k : k \in DOMAIN queues[j].fifo /\ queues[j].fifo[k] = t =>
              /\ t.call \in LeakyCalls \ {c} /\ calls'[t.call].pc \in {"wait", "returned"}
              /\ calls'[t.call].pc = "wait" => Awaits(t, j)' /\ ~calls'[t.call].viaHeap
    BY <1>2, OthersKeepTokens, Zenon
  <2>3. \A t : t \in queues[j].heap =>
              t.call \in LeakyCalls \ {c} /\ calls'[t.call].pc = "wait" /\ calls'[t.call].viaHeap /\ Awaits(t, j)'
    BY <1>2, OthersKeepTokens, Zenon
  <2>4. FifoOk(j)'
    BY <2>1, <2>2, ZenonT(60) DEF FifoOk, Awaits
  <2>5. HeapOk(j)'
    BY <2>1, <2>3, Zenon DEF HeapOk
  <2> QED
    BY <2>1, <2>4, <2>5, Zenon DEF CapacityOk
<1>5. ASSUME NEW d \in LeakyCalls, d # c PROVE CallOk(d)'
  <2>1. PICK me \in CallRecords : me = calls[d] /\ me = calls'[d]
    BY <1>1, <1>2, <1>5, Zenon
  <2>2. CallOk(d)
    BY Zenon DEF LeakyInv
  <2>3. CASE me.pc # "wait"
    BY <2>1, <2>2, <2>3, Zenon DEF CallOk
  <2>4. CASE me.pc = "wait"
    <3>1. me.q # 0 /\ me.q \in 0..MaxQueues /\ (me.viaHeap => Len(me.res) = 1)
      BY <2>1, <2>2, <2>4, Zenon DEF CallOk, CallRecords
    <3>2. me.q \in Incarnations
      BY <3>1, LeakyAssumption DEF Incarnations
    <3>3. /\ \A t \in queues[me.q].heap : t \in queues'[me.q].heap
          /\ \A k \in DOMAIN queues[me.q].fifo :
               k \in DOMAIN queues'[me.q].fifo /\ queues'[me.q].fifo[k] = queues[me.q].fifo[k]
      BY <1>1, <1>2, <3>2, Zenon
    <3>4. ASSUME NEW j \in DOMAIN me.res, me.res[j] = "none"
          PROVE  IF me.viaHeap THEN me.cancelled \/ \E t \in queues'[me.q].heap : t.call = d
                 ELSE \E k \in DOMAIN queues'[me.q].fifo : queues'[me.q].fifo[k] = [call |-> d, i |-> j]
      <4>1. IF me.viaHeap THEN me.cancelled \/ \E t \in queues[me.q].heap : t.call = d
            ELSE \E k \in DOMAIN queues[me.q].fifo : queues[me.q].fifo[k] = [call |-> d, i |-> j]
        BY <2>1, <2>2, <2>4, <3>4 DEF CallOk
      <4> QED
        BY <3>3, <4>1, Zenon
    <3> QED
      BY <2>1, <2>4, <3>1, <3>4 DEF CallOk
  <2> QED
    BY <2>3, <2>4, Zenon
<1>6. resetter'.pc = "drain" => resetter'.q # 0
  BY <1>2, Zenon DEF LeakyInv
<1> QED
  BY <1>3, <1>4, <1>5, <1>6, Zenon DEF LeakyInv

\* How long the channel is once the tokens of a call are in it.
LEMMA Joined ==
  ASSUME NEW S, NEW s \in Seq(S), NEW t \in Seq(S)
  PROVE  Len(s \o t) = Len(s) + Len(t) /\ Len(s) \in Nat
OBVIOUS

\* allow1 and AllowN.
LEMMA FifoJoins ==
  ASSUME LeakyInv, NEW c \in LeakyCalls, NEW n \in BatchSizes, EnqueueFifo(c, n),
         ~(LeakyCapacity - Depth(queues[calls[c].q]) < n)
  PROVE  LeakyInv'
<1>1. queues \in [Incarnations -> QueueRecords] /\ calls \in [LeakyCalls -> CallRecords] /\ CallOk(c)
  BY Zenon DEF LeakyInv, LeakyType
<1>2. calls[c].pc = "enqueue" /\ UNCHANGED <<mapped, resetter>> /\ n \in 1..LeakyCapacity /\ n \in Nat
  BY LeakyAssumption DEF EnqueueFifo
<1>3. PICK i \in Incarnations : i = calls[c].q
  <2>1. calls[c].q \in 0..MaxQueues /\ calls[c].q # 0
    BY <1>1, <1>2, Zenon DEF CallOk, CallRecords
  <2> QED
    BY <2>1, LeakyAssumption DEF Incarnations
<1>4. PICK old \in QueueRecords : old = queues[i]
  BY <1>1, Zenon
<1>5. PICK ts : ts = TokensOf(c, n)
  BY Zenon
<1>6. /\ ts \in Seq(Slots) /\ Len(ts) = n
      /\ \A k \in 1..n : ts[k] = [call |-> c, i |-> k]
  BY <1>2, <1>5 DEF TokensOf, Slots
<1>7. PICK q : q = [old EXCEPT !.fifo = @ \o ts]
  BY Zenon
<1>8. old.fifo \in Seq(Slots) /\ old.fifo \o ts \in Seq(Slots)
  BY <1>6 DEF QueueRecords
<1>9. q \in QueueRecords /\ q.fifo = old.fifo \o ts /\ q.heap = old.heap /\ q.nextSeq = old.nextSeq
  BY <1>7, <1>8, Zenon DEF QueueRecords
<1>10. queues' = [queues EXCEPT ![i] = q]
  BY <1>1, <1>3, <1>4, <1>5, <1>7, Zenon DEF EnqueueFifo
<1>11. PICK me \in CallRecords : me = calls[c]
  BY <1>1, Zenon
<1>12. PICK none : none = [k \in 1..n |-> "none"]
  BY Zenon
<1>13. none \in Seq({"none", "allow", "deny"}) /\ Len(none) = n /\ DOMAIN none = 1..n /\ \A k \in 1..n : none[k] = "none"
  BY <1>2, <1>12
<1>14. PICK r : r = [me EXCEPT !.pc = "wait", !.res = none]
  BY Zenon
<1>15. r \in CallRecords /\ r.pc = "wait" /\ r.q = i /\ r.res = none /\ ~r.viaHeap
  <2>1. ~me.viaHeap
    BY <1>1, <1>2, <1>11, Zenon DEF CallOk
  <2>2. r \in CallRecords /\ r.pc = "wait" /\ r.q = me.q /\ r.res = none /\ r.viaHeap = me.viaHeap
    BY <1>13, <1>14, Zenon DEF CallRecords
  <2> QED
    BY <1>3, <1>11, <2>1, <2>2, Zenon
<1>16. calls' = [calls EXCEPT ![c] = r]
  BY <1>1, <1>11, <1>12, <1>14, Zenon DEF EnqueueFifo
<1>17. calls'[c] = r /\ queues'[i] = q
  BY <1>1, <1>10, <1>16, Zenon
<1>18. FifoOk(i) /\ HeapOk(i) /\ CapacityOk(i)
  BY Zenon DEF LeakyInv
<1>19. \A t, k : k \in DOMAIN old.fifo /\ old.fifo[k] = t =>
              /\ t.call \in LeakyCalls \ {c} /\ calls'[t.call].pc \in {"wait", "returned"}
              /\ calls'[t.call].pc = "wait" => Awaits(t, i)' /\ ~calls'[t.call].viaHeap
  BY <1>2, <1>4, <1>15, <1>16, OthersKeepTokens, ZenonT(60)
<1>20. \A t : t \in old.heap =>
              t.call \in LeakyCalls \ {c} /\ calls'[t.call].pc = "wait" /\ calls'[t.call].viaHeap /\ Awaits(t, i)'
  BY <1>2, <1>4, <1>15, <1>16, OthersKeepTokens, ZenonT(60)
<1>21. ASSUME NEW k \in DOMAIN q.fifo
       PROVE  \/ k \in DOMAIN old.fifo /\ q.fifo[k] = old.fifo[k]
              \/ k - Len(old.fifo) \in 1..n /\ q.fifo[k] = [call |-> c, i |-> k - Len(old.fifo)]
  <2>1. k \in 1..(Len(old.fifo) + n) /\ Len(old.fifo) \in Nat
    BY <1>6, <1>8, <1>9, <1>21
  <2>2. CASE k <= Len(old.fifo)
    BY <1>6, <1>8, <1>9, <2>1, <2>2
  <2>3. CASE ~(k <= Len(old.fifo))
    <3>1. k - Len(old.fifo) \in 1..n
      BY <1>2, <2>1, <2>3
    <3>2. q.fifo[k] = ts[k - Len(old.fifo)]
      BY <1>6, <1>8, <1>9, <2>1, <2>3
    <3> QED
      BY <1>6, <3>1, <3>2, Zenon
  <2> QED
    BY <2>2, <2>3, Zenon
<1>22. FifoOk(i)'
  <2>1. ASSUME NEW t, NEW k \in DOMAIN q.fifo, q.fifo[k] = t
        PROVE  /\ calls'[t.call].pc \in {"wait", "returned"}
               /\ calls'[t.call].pc = "wait" => Awaits(t, i)' /\ ~calls'[t.call].viaHeap
    <3>1. CASE k \in DOMAIN old.fifo /\ q.fifo[k] = old.fifo[k]
      BY <1>19, <2>1, <3>1, Zenon
    <3>2. CASE k - Len(old.fifo) \in 1..n /\ q.fifo[k] = [call |-> c, i |-> k - Len(old.fifo)]
      <4>1. t.call = c /\ t.i \in 1..n
        BY <2>1, <3>2
      <4> QED
        BY <1>13, <1>15, <1>17, <4>1, Zenon DEF Awaits
    <3> QED
      BY <1>21, <3>1, <3>2, Zenon
  <2>2. ASSUME NEW k \in DOMAIN q.fifo, NEW l \in DOMAIN q.fifo, q.fifo[k] = q.fifo[l] PROVE k = l
    <3>1. k \in Nat /\ l \in Nat /\ Len(old.fifo) \in Nat
      BY <1>8, <1>9
    <3>2. CASE k \in DOMAIN old.fifo /\ q.fifo[k] = old.fifo[k] /\ l \in DOMAIN old.fifo /\ q.fifo[l] = old.fifo[l]
      BY <1>4, <1>18, <2>2, <3>2, Zenon DEF FifoOk
    <3>3. CASE /\ k - Len(old.fifo) \in 1..n /\ q.fifo[k] = [call |-> c, i |-> k - Len(old.fifo)]
               /\ l - Len(old.fifo) \in 1..n /\ q.fifo[l] = [call |-> c, i |-> l - Len(old.fifo)]
      <4>1. q.fifo[k].i = k - Len(old.fifo) /\ q.fifo[l].i = l - Len(old.fifo)
        BY <3>3
      <4> QED
        BY <2>2, <3>1, <4>1
    <3>4. \A x \in DOMAIN old.fifo : old.fifo[x].call # c
      BY <1>19, Zenon
    <3>5. \A x : [call |-> c, i |-> x].call = c
      BY Zenon
    <3> QED
      BY <1>21, <2>2, <3>2, <3>3, <3>4, <3>5, ZenonT(60)
  <2> QED
    BY <1>17, <2>1, <2>2, Zenon DEF FifoOk, Awaits
<1>23. HeapOk(i)'
  BY <1>4, <1>9, <1>17, <1>18, <1>20, Zenon DEF HeapOk
<1>24. CapacityOk(i)'
  <2>1. Len(q.fifo) = Len(old.fifo) + n /\ Len(old.fifo) \in Nat
    BY <1>6, <1>8, <1>9, Joined, Zenon
  <2>2. Cardinality(old.heap) \in Nat
    BY <1>4, <1>18, FS_CardinalityType, Zenon DEF HeapOk
  <2>3. ~(LeakyCapacity - (Len(old.fifo) + Cardinality(old.heap)) < n)
    BY <1>3, <1>4, Zenon DEF Depth
  <2>4. (Len(old.fifo) + n) + Cardinality(old.heap) <= LeakyCapacity
    BY <1>2, <2>1, <2>2, <2>3, LeakyAssumption
  <2> QED
    BY <1>9, <1>17, <2>1, <2>4, Zenon DEF CapacityOk
<1>25. ASSUME NEW j \in 1..n PROVE \E k \in DOMAIN q.fifo : q.fifo[k] = [call |-> c, i |-> j]
  <2>1. Len(old.fifo) + j \in DOMAIN q.fifo /\ q.fifo[Len(old.fifo) + j] = ts[j]
    BY <1>2, <1>6, <1>8, <1>9
  <2> QED
    BY <1>6, <2>1, Zenon
<1>26. CallOk(c)'
  <2>1. i # 0
    BY LeakyAssumption DEF Incarnations
  <2> QED
    BY <1>13, <1>15, <1>17, <1>25, <2>1, ZenonT(60) DEF CallOk
<1>27. \A t \in queues[i].heap : t \in q.heap
  BY <1>4, <1>9, Zenon
<1>28. \A k \in DOMAIN queues[i].fifo : k \in DOMAIN q.fifo /\ q.fifo[k] = queues[i].fifo[k]
  BY <1>4, <1>6, <1>8, <1>9
<1>29. Joins(c, i, r, q)
  BY <1>2, <1>9, <1>10, <1>15, <1>16, Zenon DEF Joins
<1> QED
  BY <1>22, <1>23, <1>24, <1>26, <1>27, <1>28, <1>29, JoinStep, Zenon

\* allowP1.
LEMMA HeapJoins ==
  ASSUME LeakyInv, NEW c \in LeakyCalls, NEW p \in Priorities, EnqueueHeap(c, p),
         ~(Depth(queues[calls[c].q]) >= LeakyCapacity)
  PROVE  LeakyInv'
<1>1. queues \in [Incarnations -> QueueRecords] /\ calls \in [LeakyCalls -> CallRecords] /\ CallOk(c)
  BY Zenon DEF LeakyInv, LeakyType
<1>2. calls[c].pc = "enqueue" /\ UNCHANGED <<mapped, resetter>> /\ p \in Int
  BY LeakyAssumption, Zenon DEF EnqueueHeap
<1>3. PICK i \in Incarnations : i = calls[c].q
  <2>1. calls[c].q \in 0..MaxQueues /\ calls[c].q # 0
    BY <1>1, <1>2, Zenon DEF CallOk, CallRecords
  <2> QED
    BY <2>1, LeakyAssumption DEF Incarnations
<1>4. PICK old \in QueueRecords : old = queues[i]
  BY <1>1, Zenon
<1>5. PICK w : w = [call |-> c, i |-> 1, prio |-> p, seq |-> old.nextSeq]
  BY Zenon
<1>6. w \in Waiters /\ w.call = c /\ w.i = 1 /\ w.seq = old.nextSeq /\ old.nextSeq \in Nat
  BY <1>2, <1>5, Zenon DEF Waiters, QueueRecords
<1>7. PICK q : q = [old EXCEPT !.heap = @ \cup {w}, !.nextSeq = @ + 1]
  BY Zenon
<1>8. q \in QueueRecords /\ q.fifo = old.fifo /\ q.heap = old.heap \cup {w} /\ q.nextSeq = old.nextSeq + 1
  <2>1. PICK h : h = old.heap \cup {w}
    BY Zenon
  <2>2. PICK s : s = old.nextSeq + 1
    BY Zenon
  <2>3. h \in SUBSET Waiters /\ s \in Nat
    BY <1>6, <2>1, <2>2 DEF QueueRecords
  <2>4. q = [old EXCEPT !.heap = h, !.nextSeq = s]
    BY <1>7, <2>1, <2>2, Zenon
  <2>5. q \in QueueRecords /\ q.fifo = old.fifo /\ q.heap = h /\ q.nextSeq = s
    BY <2>3, <2>4, Zenon DEF QueueRecords
  <2> QED
    BY <2>1, <2>2, <2>5, Zenon
<1>9. queues' = [queues EXCEPT ![i] = q]
  BY <1>1, <1>3, <1>4, <1>5, <1>7, ZenonT(60) DEF EnqueueHeap
<1>10. PICK me \in CallRecords : me = calls[c]
  BY <1>1, Zenon
<1>11. PICK r : r = [me EXCEPT !.pc = "wait", !.viaHeap = TRUE, !.res = <<"none">>]
  BY Zenon
<1>12. <<"none">> \in Seq({"none", "allow", "deny"}) /\ Len(<<"none">>) = 1 /\ DOMAIN <<"none">> = {1} /\ <<"none">>[1] = "none"
  OBVIOUS
<1>13. r \in CallRecords /\ r.pc = "wait" /\ r.q = i /\ r.res = <<"none">> /\ r.viaHeap
  <2>1. r \in CallRecords /\ r.pc = "wait" /\ r.q = me.q /\ r.res = <<"none">>
    BY <1>11, <1>12, Zenon DEF CallRecords
  <2>2. r.viaHeap = TRUE
    BY <1>11, Zenon DEF CallRecords
  <2> QED
    BY <1>3, <1>10, <2>1, <2>2, Zenon
<1>14. calls' = [calls EXCEPT ![c] = r]
  BY <1>1, <1>10, <1>11, Zenon DEF EnqueueHeap
<1>15. calls'[c] = r /\ queues'[i] = q
  BY <1>1, <1>9, <1>14, Zenon
<1>16. FifoOk(i) /\ HeapOk(i) /\ CapacityOk(i)
  BY Zenon DEF LeakyInv
<1>17. \A t, k : k \in DOMAIN old.fifo /\ old.fifo[k] = t =>
              /\ t.call \in LeakyCalls \ {c} /\ calls'[t.call].pc \in {"wait", "returned"}
              /\ calls'[t.call].pc = "wait" => Awaits(t, i)' /\ ~calls'[t.call].viaHeap
  BY <1>2, <1>4, <1>13, <1>14, OthersKeepTokens, ZenonT(60)
<1>18. \A t : t \in old.heap =>
              t.call \in LeakyCalls \ {c} /\ calls'[t.call].pc = "wait" /\ calls'[t.call].viaHeap /\ Awaits(t, i)'
  BY <1>2, <1>4, <1>13, <1>14, OthersKeepTokens, ZenonT(60)
<1>19. FifoOk(i)'
  BY <1>4, <1>8, <1>15, <1>16, <1>17, Zenon DEF FifoOk, Awaits
<1>20. Awaits(w, i)'
  BY <1>6, <1>12, <1>13, <1>15, Zenon DEF Awaits
<1>21. HeapOk(i)'
  <2>1. IsFiniteSet(old.heap) /\ \A t \in old.heap : t.seq < old.nextSeq /\ t.seq \in Nat
    BY <1>4, <1>16, Zenon DEF HeapOk, QueueRecords, Waiters
  <2>2. IsFiniteSet(q.heap)
    <3>1. IsFiniteSet(old.heap \cup {w})
      BY <2>1, FS_AddElement, Zenon
    <3> QED
      BY <1>8, <3>1, Zenon
  <2>3. ASSUME NEW t, t \in q.heap
        PROVE  calls'[t.call].pc = "wait" /\ calls'[t.call].viaHeap /\ Awaits(t, i)' /\ t.seq < q.nextSeq
    <3>1. CASE t \in old.heap
      BY <1>6, <1>8, <1>18, <2>1, <3>1
    <3>2. CASE t = w
      BY <1>6, <1>8, <1>13, <1>15, <1>20, <3>2
    <3> QED
      BY <1>8, <2>3, <3>1, <3>2, Zenon
  <2>4. \A t, u \in old.heap : t # u => t.call # u.call /\ t.seq # u.seq
    BY <1>4, <1>16, Zenon DEF HeapOk
  <2>5. \A t \in old.heap : t.call # w.call /\ t.seq # w.seq
    BY <1>6, <1>18, <2>1
  <2>6. \A t, u \in q.heap : t # u => t.call # u.call /\ t.seq # u.seq
    BY <1>8, <2>4, <2>5, Zenon
  <2> QED
    BY <1>15, <2>2, <2>3, <2>6, Zenon DEF HeapOk
<1>22. CapacityOk(i)'
  <2>1. IsFiniteSet(old.heap) /\ w \notin old.heap
    BY <1>4, <1>6, <1>16, <1>18, Zenon DEF HeapOk
  <2>2. Cardinality(q.heap) = Cardinality(old.heap) + 1 /\ Cardinality(old.heap) \in Nat
    BY <1>8, <2>1, FS_AddElement, FS_CardinalityType
  <2>3. ~(Len(old.fifo) + Cardinality(old.heap) >= LeakyCapacity) /\ Len(old.fifo) \in Nat
    BY <1>3, <1>4 DEF Depth, QueueRecords
  <2> QED
    <3>1. Len(q.fifo) + Cardinality(q.heap) <= LeakyCapacity
      BY <1>8, <2>2, <2>3, LeakyAssumption
    <3> QED
      BY <1>15, <3>1, Zenon DEF CapacityOk
<1>23. CallOk(c)'
  <2>1. i # 0 /\ w \in q.heap
    BY <1>8, LeakyAssumption DEF Incarnations
  <2> QED
    BY <1>6, <1>12, <1>13, <1>15, <2>1, Zenon DEF CallOk
<1>24. Joins(c, i, r, q)
  BY <1>2, <1>8, <1>9, <1>13, <1>14, Zenon DEF Joins
<1> QED
  BY <1>4, <1>8, <1>19, <1>21, <1>22, <1>23, <1>24, JoinStep, Zenon

\* One answer is sent.
LEMMA AnsweredIs ==
  ASSUME LeakyInv, NEW t, t.call \in LeakyCalls, calls[t.call].pc = "wait" => t.i \in DOMAIN calls[t.call].res,
         NEW a \in {"allow", "deny"}, calls' = Answered(calls, t, a)
  PROVE  Answers({<<t.call, t.i>>})
<1>1. calls \in [LeakyCalls -> CallRecords]
  BY Zenon DEF LeakyInv, LeakyType
<1>2. CASE calls[t.call].pc # "wait"
  <2>1. calls' = calls
    BY <1>2, Zenon DEF Answered
  <2> QED
    BY <1>1, <1>2, <2>1, Zenon DEF Answers
<1>3. CASE calls[t.call].pc = "wait"
  <2>1. PICK c \in LeakyCalls : c = t.call
    BY Zenon
  <2>2. PICK j : j = t.i
    BY Zenon
  <2>3. PICK me \in CallRecords : me = calls[c]
    BY <1>1, Zenon
  <2>4. PICK res : res = [me.res EXCEPT ![j] = a]
    BY Zenon
  <2>5. j \in DOMAIN me.res /\ me.res \in Seq({"none", "allow", "deny"})
    BY <1>3, <2>1, <2>2, <2>3, Zenon DEF CallRecords
  <2>6. /\ res \in Seq({"none", "allow", "deny"}) /\ Len(res) = Len(me.res)
        /\ \A k \in DOMAIN me.res : res[k] = IF k = j THEN a ELSE me.res[k]
    BY <2>4, <2>5
  <2>7. PICK r : r = [me EXCEPT !.res = res]
    BY Zenon
  <2>8. /\ r \in CallRecords /\ r.pc = me.pc /\ r.q = me.q /\ r.viaHeap = me.viaHeap
        /\ r.cancelled = me.cancelled /\ r.res = res
    BY <2>6, <2>7, Zenon DEF CallRecords
  <2>9. calls' = [calls EXCEPT ![c] = r]
    BY <1>1, <1>3, <2>1, <2>2, <2>3, <2>4, <2>7, Zenon DEF Answered
  <2>10. calls' \in [LeakyCalls -> CallRecords] /\ \A d \in LeakyCalls : calls'[d] = IF d = c THEN r ELSE calls[d]
    BY <1>1, <2>8, <2>9, Zenon
  <2>11. ASSUME NEW d \in LeakyCalls
         PROVE  /\ calls'[d].pc = calls[d].pc /\ calls'[d].q = calls[d].q /\ calls'[d].viaHeap = calls[d].viaHeap
                /\ calls'[d].cancelled = calls[d].cancelled /\ Len(calls'[d].res) = Len(calls[d].res)
                /\ \A k \in DOMAIN calls[d].res :
                     calls'[d].res[k] = "none" <=> calls[d].res[k] = "none" /\ <<d, k>> \notin {<<c, j>>}
    <3>1. CASE d = c
      BY <2>3, <2>6, <2>8, <2>10, <3>1
    <3>2. CASE d # c
      BY <2>10, <3>2, Zenon
    <3> QED
      BY <3>1, <3>2, Zenon
  <2> QED
    BY <2>1, <2>2, <2>10, <2>11 DEF Answers
<1> QED
  BY <1>2, <1>3, Zenon

\* The waiters of a heap are all denied.
LEMMA DeniedIs ==
  ASSUME LeakyInv, NEW i \in Incarnations, calls' = AllDenied(calls, queues[i].heap)
  PROVE  Answers({<<t.call, t.i>> : t \in queues[i].heap})
<1>1. calls \in [LeakyCalls -> CallRecords]
  BY Zenon DEF LeakyInv, LeakyType
<1>2. PICK heap : heap = queues[i].heap
  BY Zenon
<1>3. PICK Hit : Hit = {<<t.call, t.i>> : t \in heap}
  BY Zenon
<1>4. ASSUME NEW c \in LeakyCalls
      PROVE  /\ calls'[c] \in CallRecords
             /\ calls'[c].pc = calls[c].pc /\ calls'[c].q = calls[c].q /\ calls'[c].viaHeap = calls[c].viaHeap
             /\ calls'[c].cancelled = calls[c].cancelled /\ Len(calls'[c].res) = Len(calls[c].res)
             /\ \A k \in DOMAIN calls[c].res :
                  calls[c].pc = "wait" => (calls'[c].res[k] = "none" <=> calls[c].res[k] = "none" /\ <<c, k>> \notin Hit)
  <2>1. PICK me \in CallRecords : me = calls[c]
    BY <1>1, Zenon
  <2>2. CASE ~(me.pc = "wait" /\ \E t \in heap : t.call = c)
    <3>1. calls'[c] = me
      BY <1>2, <2>1, <2>2, Zenon DEF AllDenied
    <3>2. me.pc = "wait" => \A k : <<c, k>> \notin Hit
      BY <1>3, <2>2, Zenon
    <3> QED
      BY <2>1, <3>1, <3>2, Zenon
  <2>3. CASE me.pc = "wait" /\ \E t \in heap : t.call = c
    <3>1. PICK res : res = [k \in DOMAIN me.res |-> IF \E t \in heap : t.call = c /\ t.i = k THEN "deny" ELSE me.res[k]]
      BY Zenon
    <3>2. calls'[c] = [me EXCEPT !.res = res]
      BY <1>2, <2>1, <2>3, <3>1, Zenon DEF AllDenied
    <3>3. me.res \in Seq({"none", "allow", "deny"})
      BY Zenon DEF CallRecords
    <3>4. /\ res \in Seq({"none", "allow", "deny"}) /\ Len(res) = Len(me.res)
      BY <3>1, <3>3
    <3>5. \A k \in DOMAIN me.res : res[k] = "none" <=> me.res[k] = "none" /\ <<c, k>> \notin Hit
      <4>1. \A k : <<c, k>> \in Hit <=> \E t \in heap : t.call = c /\ t.i = k
        BY <1>3, Zenon
      <4> QED
        BY <3>1, <4>1, Zenon
    <3>6. /\ calls'[c] \in CallRecords /\ calls'[c].pc = me.pc /\ calls'[c].q = me.q /\ calls'[c].viaHeap = me.viaHeap
          /\ calls'[c].cancelled = me.cancelled /\ calls'[c].res = res
      BY <3>2, <3>4, Zenon DEF CallRecords
    <3> QED
      BY <2>1, <3>4, <3>5, <3>6, Zenon
  <2> QED
    BY <2>2, <2>3, Zenon
<1>5. calls' \in [LeakyCalls -> CallRecords]
  <2>1. DOMAIN calls' = LeakyCalls /\ calls' = [c \in LeakyCalls |-> calls'[c]]
    BY Zenon DEF AllDenied
  <2> QED
    BY <1>4, <2>1, Zenon
<1> QED
  BY <1>2, <1>3, <1>4, <1>5, ZenonT(60) DEF Answers

\* The head of the channel is served or denied.
LEMMA HeadServes ==
  ASSUME LeakyInv, NEW i \in Incarnations, NEW r \in QueueRecords, queues' = [queues EXCEPT ![i] = r],
         queues[i].fifo # <<>>, r.fifo = Tail(queues[i].fifo), r.nextSeq = queues[i].nextSeq,
         r.heap \subseteq queues[i].heap, \A t \in queues[i].heap \ r.heap : calls[t.call].cancelled
  PROVE  Serves(i, r, {<<Head(queues[i].fifo).call, Head(queues[i].fifo).i>>})
<1>1. PICK q \in QueueRecords : q = queues[i]
  BY Zenon DEF LeakyInv, LeakyType
<1>2. q.fifo \in Seq(Slots) /\ q.fifo # <<>> /\ q.heap \subseteq Waiters
  BY <1>1, Zenon DEF QueueRecords
<1>3. /\ Head(q.fifo) = q.fifo[1] /\ 1 \in DOMAIN q.fifo /\ q.fifo[1] \in Slots
      /\ \A k \in DOMAIN r.fifo : k + 1 \in DOMAIN q.fifo /\ r.fifo[k] = q.fifo[k + 1] /\ k + 1 # 1 /\ r.fifo[k] \in Slots
  <2>1. Head(q.fifo) = q.fifo[1] /\ 1 \in DOMAIN q.fifo /\ q.fifo[1] \in Slots
    BY <1>2
  <2>2. ASSUME NEW k \in DOMAIN r.fifo PROVE k + 1 \in DOMAIN q.fifo /\ r.fifo[k] = q.fifo[k + 1] /\ k + 1 # 1
    BY <1>1, <1>2
  <2>3. \A k \in DOMAIN q.fifo : q.fifo[k] \in Slots
    BY <1>2
  <2> QED
    BY <2>1, <2>2, <2>3, Zenon
<1>4. PICK x \in Slots : x = Head(q.fifo)
  BY <1>3, Zenon
<1>5. FifoOk(i) /\ HeapOk(i)
  BY Zenon DEF LeakyInv
<1>6. calls[x.call].pc = "wait" => Awaits(x, i) /\ ~calls[x.call].viaHeap
  BY <1>1, <1>3, <1>4, <1>5, Zenon DEF FifoOk
<1>7. \A t \in r.heap : <<t.call, t.i>> \notin {<<x.call, x.i>>}
  <2>1. \A t \in r.heap : calls[t.call].pc = "wait" /\ calls[t.call].viaHeap
    BY <1>5, Zenon DEF HeapOk
  <2> QED
    BY <1>6, <2>1, Zenon
<1>8. \A k \in DOMAIN r.fifo : <<r.fifo[k].call, r.fifo[k].i>> \notin {<<x.call, x.i>>}
  <2>1. ASSUME NEW y \in Slots, y.call = x.call, y.i = x.i PROVE y = x
    BY <2>1 DEF Slots
  <2>2. \A k \in DOMAIN r.fifo : r.fifo[k] # x
    BY <1>1, <1>3, <1>4, <1>5 DEF FifoOk
  <2> QED
    BY <1>3, <2>1, <2>2, Zenon
<1>9. calls[x.call].pc = "wait" => calls[x.call].q = i
  BY <1>6, Zenon DEF Awaits
<1>10. \A h \in {<<x.call, x.i>>} : calls[h[1]].pc = "wait" => calls[h[1]].q = i
  BY <1>9
<1>11. /\ queues[i].fifo # <<>> /\ r.fifo = Tail(queues[i].fifo)
       /\ <<Head(queues[i].fifo).call, Head(queues[i].fifo).i>> \in {<<x.call, x.i>>}
  BY <1>1, <1>4, Zenon
<1>12. Serves(i, r, {<<x.call, x.i>>})
  BY <1>7, <1>8, <1>10, <1>11, Zenon DEF Serves
<1> QED
  BY <1>1, <1>4, <1>12, Zenon

\* A tick finds a live waiter in the heap.
LEMMA WaiterServes ==
  ASSUME LeakyInv, NEW i \in Incarnations, NEW r \in QueueRecords, queues' = [queues EXCEPT ![i] = r],
         LiveWaiters(queues[i].heap) # {}, r.fifo = queues[i].fifo, r.nextSeq = queues[i].nextSeq,
         r.heap = HeapAfterPop(queues[i].heap), NEW w, w = ReadyWaiter(queues[i].heap)
  PROVE  /\ w \in queues[i].heap /\ Live(w)
         /\ Serves(i, r, {<<w.call, w.i>>})
<1>1. PICK q \in QueueRecords : q = queues[i]
  BY Zenon DEF LeakyInv, LeakyType
<1>2. FifoOk(i) /\ HeapOk(i) /\ q.heap \subseteq Waiters /\ q.fifo \in Seq(Slots)
  BY <1>1, Zenon DEF LeakyInv, QueueRecords
<1>3. PICK L : L = LiveWaiters(q.heap) /\ L \subseteq q.heap
  BY Zenon DEF LiveWaiters
<1>4. IsFiniteSet(L) /\ L # {} /\ Apart(L)
  BY <1>1, <1>2, <1>3, FS_Subset, Zenon DEF HeapOk, Apart
<1>5. PICK f \in L : First(L, f)
  BY <1>4, HeapHasFirst, Zenon
<1>6. w = CHOOSE t \in L : \A u \in L \ {t} : Less(t, u)
  BY <1>1, <1>3, Zenon DEF ReadyWaiter
<1>7. w \in L /\ \A u \in L \ {w} : Less(w, u)
  <2>1. \E t \in L : \A u \in L \ {t} : Less(t, u)
    BY <1>5, Zenon DEF First
  <2> QED
    BY <1>6, <2>1, Zenon
<1>8. w \in q.heap /\ Live(w) /\ w \in Waiters
  BY <1>2, <1>3, <1>7, Zenon DEF LiveWaiters
<1>9. r.heap = {t \in q.heap : Less(w, t)}
  BY <1>1, Zenon DEF HeapAfterPop
<1>10. \A t \in q.heap : Live(t) <=> ~calls[t.call].cancelled
  BY Zenon DEF Live
<1>11. \A t \in q.heap \ r.heap : <<t.call, t.i>> \in {<<w.call, w.i>>} \/ calls[t.call].cancelled
  <2>1. ASSUME NEW t \in q.heap \ r.heap, t # w PROVE ~Live(t)
    <3>1. ~Less(w, t)
      BY <1>9, Zenon
    <3>2. t \notin L
      BY <1>7, <2>1, <3>1, Zenon
    <3> QED
      BY <1>3, <3>2, Zenon DEF LiveWaiters
  <2>2. ASSUME NEW t \in q.heap \ r.heap, t # w PROVE calls[t.call].cancelled
    BY <1>10, <2>1, <2>2, Zenon
  <2> QED
    BY <2>2, Zenon
<1>12. ~Less(w, w)
  BY <1>8 DEF Less, Waiters
<1>13. calls[w.call].pc = "wait" /\ calls[w.call].viaHeap /\ Awaits(w, i)
  BY <1>1, <1>2, <1>8, Zenon DEF HeapOk
<1>14. \A t \in r.heap : <<t.call, t.i>> \notin {<<w.call, w.i>>}
  <2>1. \A t \in r.heap : t # w /\ t \in q.heap
    BY <1>9, <1>12, Zenon
  <2>2. \A t \in r.heap : t.call # w.call
    BY <1>1, <1>2, <1>8, <2>1, Zenon DEF HeapOk
  <2> QED
    BY <2>2, Zenon
<1>15. \A k \in DOMAIN r.fifo : calls[r.fifo[k].call].pc = "wait" => <<r.fifo[k].call, r.fifo[k].i>> \notin {<<w.call, w.i>>}
  <2>1. \A k \in DOMAIN r.fifo : calls[r.fifo[k].call].pc = "wait" => ~calls[r.fifo[k].call].viaHeap
    BY <1>1, <1>2, ZenonT(60) DEF FifoOk
  <2> QED
    BY <1>13, <2>1, Zenon
<1>16. \A h \in {<<w.call, w.i>>} : calls[h[1]].pc = "wait" => calls[h[1]].q = i
  <2>1. calls[w.call].q = i
    BY <1>13, Zenon DEF Awaits
  <2>2. <<w.call, w.i>>[1] = w.call
    BY Zenon
  <2> QED
    BY <2>1, <2>2, Zenon
<1>17. r.heap \subseteq queues[i].heap
  BY <1>1, <1>9, Zenon
<1>18. Serves(i, r, {<<w.call, w.i>>})
  BY <1>1, <1>11, <1>14, <1>15, <1>16, <1>17, Zenon DEF Serves
<1> QED
  BY <1>1, <1>8, <1>18, Zenon

\* The whole heap is denied, by drainQueue or Reset.
LEMMA HeapServes ==
  ASSUME LeakyInv, NEW i \in Incarnations, NEW r \in QueueRecords, queues' = [queues EXCEPT ![i] = r],
         r.fifo = queues[i].fifo, r.nextSeq = queues[i].nextSeq, r.heap = {}
  PROVE  Serves(i, r, {<<t.call, t.i>> : t \in queues[i].heap})
<1>1. PICK Hit : Hit = {<<t.call, t.i>> : t \in queues[i].heap}
  BY Zenon
<1>2. FifoOk(i) /\ HeapOk(i)
  BY Zenon DEF LeakyInv
<1>3. \A k \in DOMAIN r.fifo : calls[r.fifo[k].call].pc = "wait" => <<r.fifo[k].call, r.fifo[k].i>> \notin Hit
  <2>1. \A k \in DOMAIN r.fifo : calls[r.fifo[k].call].pc = "wait" => ~calls[r.fifo[k].call].viaHeap
    BY <1>2, Zenon DEF FifoOk
  <2>2. \A t \in queues[i].heap : calls[t.call].viaHeap
    BY <1>2, Zenon DEF HeapOk
  <2> QED
    BY <1>1, <2>1, <2>2, Zenon
<1>4. \A h \in Hit : calls[h[1]].pc = "wait" => calls[h[1]].q = i
  <2>1. \A t \in queues[i].heap : calls[t.call].q = i
    BY <1>2, Zenon DEF HeapOk, Awaits
  <2> QED
    BY <1>1, <2>1
<1>5. \A t \in queues[i].heap \ r.heap : <<t.call, t.i>> \in Hit
  BY <1>1, Zenon
<1>6. Serves(i, r, Hit)
  BY <1>3, <1>4, <1>5, Zenon DEF Serves
<1> QED
  BY <1>1, <1>6, Zenon

\* One tick of a leaker.
LEMMA LeakStep ==
  ASSUME LeakyInv, NEW i \in Incarnations, LeakTick(i)
  PROVE  LeakyInv'
<1>1. /\ queues \in [Incarnations -> QueueRecords] /\ calls \in [LeakyCalls -> CallRecords] /\ mapped' \in 0..MaxQueues
      /\ resetter' \in Resetters /\ (resetter'.pc = "drain" => resetter'.q # 0) /\ FifoOk(i) /\ HeapOk(i)
  BY Zenon DEF LeakyInv, LeakyType, LeakTick
<1>2. PICK q \in QueueRecords : q = queues[i]
  BY <1>1, Zenon
<1>3. q.fifo \in Seq(Slots) /\ q.heap \subseteq Waiters
  BY Zenon DEF QueueRecords
<1>4. CASE LiveWaiters(q.heap) = {} /\ q.fifo = <<>>
  <2>1. queues' = [queues EXCEPT ![i].heap = {}] /\ calls' = calls
    BY <1>2, <1>4, Zenon DEF LeakTick
  <2>2. PICK r : r = [q EXCEPT !.heap = {}]
    BY Zenon
  <2>3. r \in QueueRecords /\ r.fifo = q.fifo /\ r.nextSeq = q.nextSeq /\ r.heap = {}
    BY <2>2, Zenon DEF QueueRecords
  <2>4. queues' = [queues EXCEPT ![i] = r]
    BY <1>1, <1>2, <2>1, <2>2, Zenon
  <2>5. \A t \in q.heap : calls[t.call].cancelled
    <3>1. \A t \in q.heap : ~Live(t)
      BY <1>4, Zenon DEF LiveWaiters
    <3> QED
      BY <3>1, Zenon DEF Live
  <2>6. Serves(i, r, {})
    BY <1>2, <2>3, <2>4, <2>5, Zenon DEF Serves
  <2>7. Answers({})
    BY <1>1, <2>1, Zenon DEF Answers
  <2> QED
    BY <1>1, <2>6, <2>7, ServeStep, Zenon
<1>5. CASE LiveWaiters(q.heap) # {}
  <2>1. PICK w : w = ReadyWaiter(q.heap)
    BY Zenon
  <2>2. PICK h : h = HeapAfterPop(q.heap)
    BY Zenon
  <2>3. h \in SUBSET Waiters
    BY <1>3, <2>2, Zenon DEF HeapAfterPop
  <2>4. PICK a \in {"allow", "deny"} : a = IF Live(w) THEN "allow" ELSE "deny"
    BY Zenon
  <2>5. queues' = [queues EXCEPT ![i].heap = HeapAfterPop(@), ![i].leaker = "check", ![i].fifo = q.fifo]
        /\ calls' = Answered(calls, w, a)
    BY <1>1, <1>2, <1>5, <2>1, <2>4, Zenon DEF LeakTick
  <2>6. PICK r : r = [q EXCEPT !.heap = h, !.leaker = "check", !.fifo = q.fifo]
    BY Zenon
  <2>7. r \in QueueRecords /\ r.fifo = q.fifo /\ r.nextSeq = q.nextSeq /\ r.heap = h
    BY <2>3, <2>6, Zenon DEF QueueRecords
  <2>8. queues' = [queues EXCEPT ![i] = r]
    BY <1>1, <1>2, <2>2, <2>5, <2>6, Zenon
  <2>9. w \in q.heap /\ Serves(i, r, {<<w.call, w.i>>})
    BY <1>2, <1>5, <2>1, <2>2, <2>7, <2>8, WaiterServes, Zenon
  <2>10. w.call \in LeakyCalls /\ (calls[w.call].pc = "wait" => w.i \in DOMAIN calls[w.call].res)
    BY <1>1, <1>2, <1>3, <2>9, Zenon DEF HeapOk, Awaits, Waiters
  <2>11. Answers({<<w.call, w.i>>})
    BY <2>5, <2>10, AnsweredIs, Zenon
  <2> QED
    BY <1>1, <2>9, <2>11, ServeStep, Zenon
<1>6. CASE LiveWaiters(q.heap) = {} /\ q.fifo # <<>>
  <2>1. PICK x : x = Head(q.fifo)
    BY Zenon
  <2>2. PICK a \in {"allow", "deny"} : a = IF Live(x) THEN "allow" ELSE "deny"
    OBVIOUS
  <2>3. HeapAfterPop(q.heap) = {}
    BY <1>6, Zenon DEF HeapAfterPop
  <2>4. queues' = [queues EXCEPT ![i].heap = HeapAfterPop(@), ![i].leaker = "check", ![i].fifo = Tail(q.fifo)]
        /\ calls' = Answered(calls, x, a)
    BY <1>1, <1>2, <1>6, <2>1, <2>2, Zenon DEF LeakTick
  <2>5. PICK r : r = [q EXCEPT !.heap = {}, !.leaker = "check", !.fifo = Tail(q.fifo)]
    BY Zenon
  <2>6. Tail(q.fifo) \in Seq(Slots) /\ 1 \in DOMAIN q.fifo /\ x = q.fifo[1] /\ x \in Slots
    BY <1>3, <1>6, <2>1
  <2>7. r \in QueueRecords /\ r.fifo = Tail(q.fifo) /\ r.nextSeq = q.nextSeq /\ r.heap = {}
    BY <2>5, <2>6, Zenon DEF QueueRecords
  <2>8. queues' = [queues EXCEPT ![i] = r]
    BY <1>1, <1>2, <2>3, <2>4, <2>5, Zenon
  <2>9. \A t \in q.heap : calls[t.call].cancelled
    <3>1. \A t \in q.heap : ~Live(t)
      BY <1>6, Zenon DEF LiveWaiters
    <3> QED
      BY <3>1, Zenon DEF Live
  <2>10. Serves(i, r, {<<Head(queues[i].fifo).call, Head(queues[i].fifo).i>>})
    BY <1>2, <1>6, <2>7, <2>8, <2>9, HeadServes, Zenon
  <2>11. x.call \in LeakyCalls /\ (calls[x.call].pc = "wait" => x.i \in DOMAIN calls[x.call].res)
    BY <1>1, <1>2, <2>6, Zenon DEF FifoOk, Awaits, Slots
  <2>12. Answers({<<x.call, x.i>>})
    BY <2>4, <2>11, AnsweredIs, Zenon
  <2> QED
    BY <1>1, <1>2, <2>1, <2>10, <2>12, ServeStep, Zenon
<1> QED
  BY <1>4, <1>5, <1>6, Zenon

\* One token of a channel is denied, or a heap once the channel is empty, by
\* drainQueue or by Reset.
LEMMA EmptyStep ==
  ASSUME LeakyInv, NEW i \in Incarnations, NEW r \in QueueRecords, queues' = [queues EXCEPT ![i] = r],
         r.nextSeq = queues[i].nextSeq,
         \/ /\ queues[i].fifo # <<>> /\ r.fifo = Tail(queues[i].fifo) /\ r.heap = queues[i].heap
            /\ calls' = Answered(calls, Head(queues[i].fifo), "deny")
         \/ r.fifo = queues[i].fifo /\ r.heap = {} /\ calls' = AllDenied(calls, queues[i].heap),
         mapped' \in 0..MaxQueues, resetter' \in Resetters, resetter'.pc = "drain" => resetter'.q # 0
  PROVE  LeakyInv'
<1>1. PICK q \in QueueRecords : q = queues[i]
  BY Zenon DEF LeakyInv, LeakyType
<1>2. q.fifo \in Seq(Slots) /\ FifoOk(i)
  BY Zenon DEF QueueRecords, LeakyInv
<1>3. CASE /\ q.fifo # <<>> /\ r.fifo = Tail(q.fifo) /\ r.heap = q.heap /\ calls' = Answered(calls, Head(q.fifo), "deny")
  <2>1. Serves(i, r, {<<Head(queues[i].fifo).call, Head(queues[i].fifo).i>>})
    BY <1>1, <1>3, HeadServes, Zenon
  <2>2. PICK x : x = Head(q.fifo)
    BY Zenon
  <2>3. 1 \in DOMAIN q.fifo /\ x = q.fifo[1] /\ x \in Slots
    BY <1>2, <1>3, <2>2
  <2>4. x.call \in LeakyCalls /\ (calls[x.call].pc = "wait" => x.i \in DOMAIN calls[x.call].res)
    BY <1>1, <1>2, <2>3, Zenon DEF FifoOk, Awaits, Slots
  <2>5. Answers({<<x.call, x.i>>})
    BY <1>3, <2>2, <2>4, AnsweredIs, Zenon
  <2> QED
    BY <1>1, <2>1, <2>2, <2>5, ServeStep, Zenon
<1>4. CASE r.fifo = q.fifo /\ r.heap = {} /\ calls' = AllDenied(calls, q.heap)
  <2>1. Serves(i, r, {<<t.call, t.i>> : t \in queues[i].heap})
    BY <1>1, <1>4, HeapServes, Zenon
  <2>2. Answers({<<t.call, t.i>> : t \in queues[i].heap})
    BY <1>1, <1>4, DeniedIs, Zenon
  <2> QED
    BY <2>1, <2>2, ServeStep, Zenon
<1> QED
  BY <1>1, <1>3, <1>4, Zenon

\* The leaker's drain after Close or Reset answers every token it takes out.
LEMMA DrainStep ==
  ASSUME LeakyInv, NEW i \in Incarnations, DrainQueue(i)
  PROVE  LeakyInv'
<1>1. /\ queues \in [Incarnations -> QueueRecords] /\ mapped' \in 0..MaxQueues
      /\ resetter' \in Resetters /\ (resetter'.pc = "drain" => resetter'.q # 0)
  BY Zenon DEF LeakyInv, LeakyType, DrainQueue
<1>2. PICK q \in QueueRecords : q = queues[i]
  BY <1>1, Zenon
<1>3. q.fifo \in Seq(Slots) /\ q.heap \subseteq Waiters
  BY DEF QueueRecords
<1>4. CASE q.fifo # <<>>
  <2>1. queues' = [queues EXCEPT ![i].fifo = Tail(@)] /\ calls' = Answered(calls, Head(q.fifo), "deny")
    BY <1>2, <1>4, Zenon DEF DrainQueue
  <2>2. PICK r : r = [q EXCEPT !.fifo = Tail(@)]
    BY Zenon
  <2>3. Tail(q.fifo) \in Seq(Slots)
    BY <1>3, <1>4
  <2>4. r \in QueueRecords /\ r.fifo = Tail(q.fifo) /\ r.nextSeq = q.nextSeq /\ r.heap = q.heap
    BY <2>2, <2>3, Zenon DEF QueueRecords
  <2>5. queues' = [queues EXCEPT ![i] = r]
    BY <1>1, <1>2, <2>1, <2>2, Zenon
  <2> QED
    BY <1>1, <1>2, <1>4, <2>1, <2>4, <2>5, EmptyStep, Zenon
<1>5. CASE q.fifo = <<>>
  <2>1. queues' = [queues EXCEPT ![i].heap = {}, ![i].leaker = "exited"] /\ calls' = AllDenied(calls, q.heap)
    BY <1>2, <1>5, Zenon DEF DrainQueue
  <2>2. PICK r : r = [q EXCEPT !.heap = {}, !.leaker = "exited"]
    BY Zenon
  <2>3. r \in QueueRecords /\ r.fifo = q.fifo /\ r.nextSeq = q.nextSeq /\ r.heap = {}
    BY <2>2, Zenon DEF QueueRecords
  <2>4. queues' = [queues EXCEPT ![i] = r]
    BY <1>1, <1>2, <2>1, <2>2, Zenon
  <2> QED
    BY <1>1, <1>2, <1>5, <2>1, <2>3, <2>4, EmptyStep, ZenonT(60)
<1> QED
  BY <1>4, <1>5, Zenon

\* Reset drains the queue it removed from the map, as the leaker does.
LEMMA ResetDrainStep ==
  ASSUME LeakyInv, ResetDrain
  PROVE  LeakyInv'
<1>1. /\ queues \in [Incarnations -> QueueRecords] /\ mapped' = mapped /\ mapped \in 0..MaxQueues
      /\ resetter.pc = "drain" /\ resetter.q # 0 /\ resetter \in Resetters
  BY Zenon DEF LeakyInv, LeakyType, ResetDrain
<1>2. PICK i \in Incarnations : i = resetter.q
  BY <1>1, LeakyAssumption DEF Incarnations, Resetters
<1>3. PICK q \in QueueRecords : q = queues[i]
  BY <1>1, Zenon
<1>4. q.fifo \in Seq(Slots) /\ q.heap \subseteq Waiters
  BY Zenon DEF QueueRecords
<1>5. CASE q.fifo # <<>>
  <2>1. queues' = [queues EXCEPT ![i].fifo = Tail(@)] /\ calls' = Answered(calls, Head(q.fifo), "deny") /\ resetter' = resetter
    BY <1>2, <1>3, <1>5, Zenon DEF ResetDrain
  <2>2. PICK r : r = [q EXCEPT !.fifo = Tail(@)]
    BY Zenon
  <2>3. Tail(q.fifo) \in Seq(Slots)
    BY <1>4, <1>5
  <2>4. r \in QueueRecords /\ r.fifo = Tail(q.fifo) /\ r.nextSeq = q.nextSeq /\ r.heap = q.heap
    BY <2>2, <2>3, Zenon DEF QueueRecords
  <2>5. queues' = [queues EXCEPT ![i] = r]
    BY <1>1, <1>3, <2>1, <2>2, Zenon
  <2> QED
    BY <1>1, <1>3, <1>5, <2>1, <2>4, <2>5, EmptyStep, Zenon
<1>6. CASE q.fifo = <<>>
  <2>1. queues' = [queues EXCEPT ![i].heap = {}] /\ calls' = AllDenied(calls, q.heap) /\ resetter' = [resetter EXCEPT !.pc = "delete"]
    BY <1>2, <1>3, <1>6, Zenon DEF ResetDrain
  <2>2. PICK r : r = [q EXCEPT !.heap = {}]
    BY Zenon
  <2>3. r \in QueueRecords /\ r.fifo = q.fifo /\ r.nextSeq = q.nextSeq /\ r.heap = {}
    BY <2>2, Zenon DEF QueueRecords
  <2>4. queues' = [queues EXCEPT ![i] = r]
    BY <1>1, <1>3, <2>1, <2>2, Zenon
  <2>5. resetter' \in Resetters /\ resetter'.pc = "delete"
    BY <1>1, <2>1, Zenon DEF Resetters
  <2> QED
    BY <1>1, <1>3, <1>6, <2>1, <2>3, <2>4, <2>5, EmptyStep, Zenon
<1> QED
  BY <1>5, <1>6, Zenon

\* The record of a call that returns.
LEMMA ReturnedIs ==
  ASSUME LeakyInv, NEW c \in LeakyCalls, calls' = Returned(c)
  PROVE  \E r \in CallRecords : r.pc = "returned" /\ calls' = [calls EXCEPT ![c] = r]
<1>1. calls \in [LeakyCalls -> CallRecords]
  BY Zenon DEF LeakyInv, LeakyType
<1>2. PICK me \in CallRecords : me = calls[c]
  BY <1>1, Zenon
<1>3. PICK b \in BOOLEAN : b = me.cancelled
  BY Zenon DEF CallRecords
<1>4. PICK r : r = [pc |-> "returned", q |-> 0, viaHeap |-> FALSE, cancelled |-> b, res |-> <<>>]
  BY Zenon
<1>5. 0 \in 0..MaxQueues /\ <<>> \in Seq({"none", "allow", "deny"})
  BY LeakyAssumption
<1>6. r \in CallRecords /\ r.pc = "returned"
  BY <1>4, <1>5, Zenon DEF CallRecords
<1>7. calls' = [calls EXCEPT ![c] = r]
  BY <1>1, <1>2, <1>3, <1>4, Zenon DEF Returned
<1> QED
  BY <1>6, <1>7, Zenon

\* A call that has no token in a heap returns.
LEMMA ReturnStep ==
  ASSUME LeakyInv, NEW c \in LeakyCalls, calls' = Returned(c), UNCHANGED <<mapped, queues, resetter>>,
         calls[c].pc = "enqueue" \/ ReceiveAnswers(c)
  PROVE  LeakyInv'
<1>1. queues \in [Incarnations -> QueueRecords] /\ calls \in [LeakyCalls -> CallRecords] /\ CallOk(c)
  BY Zenon DEF LeakyInv, LeakyType
<1>2. ASSUME NEW i \in Incarnations, NEW t \in queues[i].heap, t.call = c PROVE FALSE
  <2>1. HeapOk(i) /\ t \in Waiters
    BY <1>1, Zenon DEF LeakyInv, QueueRecords
  <2>2. calls[c].pc = "wait" /\ calls[c].viaHeap /\ t.i = 1 /\ calls[c].res[1] = "none" /\ 1 \in DOMAIN calls[c].res
    BY <1>2, <2>1, Zenon DEF HeapOk, Awaits, Waiters
  <2>3. ReceiveAnswers(c)
    BY <2>2, Zenon
  <2>4. calls[c].res \in Seq({"none", "allow", "deny"}) /\ Len(calls[c].res) = 1
    BY <1>1, <2>2, Zenon DEF CallOk, CallRecords
  <2>5. \A j \in DOMAIN calls[c].res : j = 1
    BY <2>4
  <2> QED
    BY <2>2, <2>3, <2>5, Zenon DEF ReceiveAnswers
<1>3. \A i \in Incarnations : queues[i].heap = {t \in queues[i].heap : t.call # c}
  BY <1>2, Zenon
<1>4. PICK r \in CallRecords : r.pc = "returned" /\ calls' = [calls EXCEPT ![c] = r]
  BY ReturnedIs, Zenon
<1> QED
  BY <1>1, <1>3, <1>4, GoneStep, Zenon

\* <-ctx.Done(): all the tokens of the call in a heap are in its queue's heap.
LEMMA CtxStep ==
  ASSUME LeakyInv, NEW c \in LeakyCalls, CtxReturn(c)
  PROVE  LeakyInv'
<1>1. queues \in [Incarnations -> QueueRecords] /\ calls \in [LeakyCalls -> CallRecords] /\ CallOk(c)
  BY Zenon DEF LeakyInv, LeakyType
<1>2. PICK i \in Incarnations : i = calls[c].q
  <2>1. calls[c].q \in 0..MaxQueues /\ calls[c].q # 0
    BY <1>1, Zenon DEF CallOk, CallRecords, CtxReturn
  <2> QED
    BY <2>1, LeakyAssumption DEF Incarnations
<1>3. PICK q \in QueueRecords : q = queues[i]
  BY <1>1, Zenon
<1>4. PICK h : h = {t \in q.heap : t.call # c}
  BY Zenon
<1>5. PICK r : r = [q EXCEPT !.heap = h]
  BY Zenon
<1>6. h \in SUBSET Waiters
  BY <1>4, Zenon DEF QueueRecords
<1>7. r \in QueueRecords /\ r.fifo = q.fifo /\ r.nextSeq = q.nextSeq /\ r.heap = h
  BY <1>5, <1>6, Zenon DEF QueueRecords
<1>8. queues' = [queues EXCEPT ![i] = r]
  BY <1>1, <1>2, <1>3, <1>4, <1>5, Zenon DEF CtxReturn
<1>9. ASSUME NEW j \in Incarnations
      PROVE  /\ queues'[j].fifo = queues[j].fifo /\ queues'[j].nextSeq = queues[j].nextSeq
             /\ queues'[j].heap = {t \in queues[j].heap : t.call # c}
  <2>1. CASE j = i
    BY <1>1, <1>3, <1>4, <1>7, <1>8, <2>1, Zenon
  <2>2. CASE j # i
    <3>1. queues'[j] = queues[j]
      BY <1>1, <1>8, <2>2, Zenon
    <3>2. \A t \in queues[j].heap : calls[t.call].q = j
      BY Zenon DEF LeakyInv, HeapOk, Awaits
    <3>3. \A t \in queues[j].heap : t.call # c
      BY <1>2, <2>2, <3>2
    <3> QED
      BY <3>1, <3>3, Zenon
  <2> QED
    BY <2>1, <2>2, Zenon
<1>10. queues' \in [Incarnations -> QueueRecords] /\ UNCHANGED <<mapped, resetter>> /\ calls' = Returned(c)
  BY <1>1, <1>7, <1>8, Zenon DEF CtxReturn
<1>11. PICK me \in CallRecords : me.pc = "returned" /\ calls' = [calls EXCEPT ![c] = me]
  BY <1>10, ReturnedIs, Zenon
<1> QED
  BY <1>9, <1>10, <1>11, GoneStep, Zenon

\* getOrCreate.
LEMMA LookupStep ==
  ASSUME LeakyInv, NEW c \in LeakyCalls, Lookup(c)
  PROVE  LeakyInv' /\ (mapped # 0 => UNCHANGED <<mapped, queues>>)
         /\ (mapped = 0 => /\ mapped' \in Incarnations
                           /\ \A i \in Incarnations : queues'[i].leaker = IF i = mapped' THEN "wait" ELSE queues[i].leaker)
<1>1. queues \in [Incarnations -> QueueRecords] /\ calls \in [LeakyCalls -> CallRecords] /\ mapped \in 0..MaxQueues
      /\ resetter' = resetter /\ resetter \in Resetters /\ (resetter.pc = "drain" => resetter.q # 0)
  BY Zenon DEF LeakyInv, LeakyType, Lookup
<1>2. PICK m : m = mapped' /\ m \in 0..MaxQueues /\ m # 0
  <2>1. CASE mapped # 0
    BY <1>1, <2>1, Zenon DEF Lookup
  <2>2. CASE mapped = 0
    <3>1. PICK unused : unused = {i \in Incarnations : queues[i].leaker = "none"}
      BY Zenon
    <3>2. unused # {} /\ mapped' = CHOOSE i \in unused : \A j \in unused : i <= j
      BY <2>2, <3>1, Zenon DEF Lookup
    <3>3. unused \in SUBSET Nat /\ unused \subseteq 1..MaxQueues
      BY <3>1, LeakyAssumption DEF Incarnations
    <3>4. \E i \in unused : \A j \in unused : i <= j
      BY <3>2, <3>3, LeastNumber, Zenon
    <3>5. mapped' \in unused
      BY <3>2, <3>4, Zenon
    <3> QED
      BY <3>3, <3>5, LeakyAssumption
  <2> QED
    BY <2>1, <2>2, Zenon
<1>3. m \in Incarnations
  BY <1>2, LeakyAssumption DEF Incarnations
<1>4. calls' = [calls EXCEPT ![c].pc = "enqueue", ![c].q = m] /\ calls[c].pc = "new"
  BY <1>2, Zenon DEF Lookup
<1>5. (mapped # 0 => queues' = queues) /\ (mapped = 0 => queues' = [queues EXCEPT ![m].leaker = "wait"])
  BY <1>2, Zenon DEF Lookup
<1>6. PICK q \in QueueRecords : q = queues[m]
  BY <1>1, <1>3, Zenon
<1>7. PICK r : r = [q EXCEPT !.leaker = "wait"]
  BY Zenon
<1>8. r \in QueueRecords /\ r.fifo = q.fifo /\ r.heap = q.heap /\ r.nextSeq = q.nextSeq /\ r.leaker = "wait"
  BY <1>7, Zenon DEF QueueRecords
<1>9. mapped = 0 => queues' = [queues EXCEPT ![m] = r]
  BY <1>1, <1>5, <1>6, <1>7, Zenon
<1>10. SameTokens
  BY <1>1, <1>3, <1>5, <1>6, <1>8, <1>9, Zenon DEF SameTokens
<1>11. PICK me \in CallRecords : me = calls[c]
  BY <1>1, Zenon
<1>12. PICK it : it = [me EXCEPT !.pc = "enqueue", !.q = m]
  BY Zenon
<1>13. it \in CallRecords /\ it.pc = "enqueue" /\ it.q = m /\ it.viaHeap = me.viaHeap
  BY <1>2, <1>12, Zenon DEF CallRecords
<1>14. calls' = [calls EXCEPT ![c] = it]
  BY <1>1, <1>4, <1>11, <1>12, Zenon
<1>15. SameAnswers
  <2>1. calls' \in [LeakyCalls -> CallRecords] /\ \A d \in LeakyCalls : calls'[d] = IF d = c THEN it ELSE calls[d]
    BY <1>1, <1>13, <1>14, Zenon
  <2> QED
    BY <1>2, <1>4, <1>11, <1>13, <2>1, Zenon DEF SameAnswers
<1>16. LeakyInv'
  BY <1>1, <1>2, <1>10, <1>15, QuietStep, Zenon
<1>17. mapped # 0 => UNCHANGED <<mapped, queues>>
  BY Zenon DEF Lookup
<1> QED
  BY <1>1, <1>2, <1>3, <1>8, <1>9, <1>16, <1>17, Zenon

\* ctx is cancelled.
LEMMA CancelStep ==
  ASSUME LeakyInv, NEW c \in LeakyCalls, CancelCall(c)
  PROVE  LeakyInv'
<1>1. /\ queues \in [Incarnations -> QueueRecords] /\ calls \in [LeakyCalls -> CallRecords] /\ mapped \in 0..MaxQueues
      /\ UNCHANGED <<mapped, queues, resetter>> /\ resetter \in Resetters /\ (resetter.pc = "drain" => resetter.q # 0)
  BY Zenon DEF LeakyInv, LeakyType, CancelCall
<1>2. PICK me \in CallRecords : me = calls[c]
  BY <1>1, Zenon
<1>3. PICK it : it = [me EXCEPT !.cancelled = TRUE]
  BY Zenon
<1>4. it \in CallRecords /\ it.pc = me.pc /\ it.q = me.q /\ it.viaHeap = me.viaHeap /\ it.res = me.res
  BY <1>3, Zenon DEF CallRecords
<1>5. it.cancelled = TRUE
  BY <1>3, Zenon DEF CallRecords
<1>6. calls' = [calls EXCEPT ![c] = it]
  BY <1>1, <1>2, <1>3, Zenon DEF CancelCall
<1>7. calls' \in [LeakyCalls -> CallRecords] /\ \A d \in LeakyCalls : calls'[d] = IF d = c THEN it ELSE calls[d]
  BY <1>1, <1>4, <1>6, Zenon
<1>8. SameAnswers
  BY <1>2, <1>4, <1>5, <1>7, Zenon DEF SameAnswers
<1>9. SameTokens
  BY <1>1, Zenon DEF SameTokens
<1> QED
  BY <1>1, <1>8, <1>9, QuietStep, Zenon

\* The leaker moves on without touching its queue.
LEMMA LeakerMoves ==
  ASSUME LeakyInv, NEW i \in Incarnations, NEW l \in {"wait", "drain", "exited"},
         queues' = [queues EXCEPT ![i].leaker = l], UNCHANGED <<mapped, calls, resetter>>
  PROVE  LeakyInv' /\ \A j \in Incarnations : queues'[j].leaker = IF j = i THEN l ELSE queues[j].leaker
<1>1. /\ queues \in [Incarnations -> QueueRecords] /\ calls \in [LeakyCalls -> CallRecords] /\ mapped \in 0..MaxQueues
      /\ resetter \in Resetters /\ (resetter.pc = "drain" => resetter.q # 0)
  BY Zenon DEF LeakyInv, LeakyType
<1>2. PICK q \in QueueRecords : q = queues[i]
  BY <1>1, Zenon
<1>3. PICK r : r = [q EXCEPT !.leaker = l]
  BY Zenon
<1>4. r \in QueueRecords /\ r.fifo = q.fifo /\ r.heap = q.heap /\ r.nextSeq = q.nextSeq /\ r.leaker = l
  BY <1>3, Zenon DEF QueueRecords
<1>5. queues' = [queues EXCEPT ![i] = r]
  BY <1>1, <1>2, <1>3, Zenon
<1>6. queues' \in [Incarnations -> QueueRecords] /\ \A j \in Incarnations : queues'[j] = IF j = i THEN r ELSE queues[j]
  BY <1>1, <1>4, <1>5, Zenon
<1>7. SameTokens
  BY <1>2, <1>4, <1>6, Zenon DEF SameTokens
<1>8. SameAnswers
  BY <1>1, Zenon DEF SameAnswers
<1>9. LeakyInv'
  BY <1>1, <1>7, <1>8, QuietStep, Zenon
<1> QED
  BY <1>4, <1>6, <1>9, Zenon

\* Reset's first and last steps, the idle cleaner and Close.
LEMMA MapStep ==
  ASSUME LeakyInv, UNCHANGED <<queues, calls>>, ResetGet \/ ResetDelete \/ CleanIdle \/ LeakyClose \/ UNCHANGED leakyVars
  PROVE  LeakyInv'
<1>1. /\ queues \in [Incarnations -> QueueRecords] /\ calls \in [LeakyCalls -> CallRecords] /\ mapped \in 0..MaxQueues
      /\ resetter \in Resetters /\ (resetter.pc = "drain" => resetter.q # 0) /\ 0 \in 0..MaxQueues
  BY LeakyAssumption DEF LeakyInv, LeakyType
<1>2. SameTokens /\ SameAnswers
  BY <1>1, Zenon DEF SameTokens, SameAnswers
<1>3. mapped' \in 0..MaxQueues
  BY <1>1, Zenon DEF ResetGet, ResetDelete, CleanIdle, LeakyClose, leakyVars
<1>4. resetter' \in Resetters /\ (resetter'.pc = "drain" => resetter'.q # 0)
  <2>1. CASE ResetGet
    <3>1. CASE mapped = 0
      BY <1>1, <2>1, <3>1 DEF ResetGet, Resetters
    <3>2. CASE mapped # 0
      BY <1>1, <2>1, <3>2 DEF ResetGet, Resetters
    <3> QED
      BY <3>1, <3>2, Zenon
  <2>2. CASE ResetDelete
    BY <1>1, <2>2, Zenon DEF ResetDelete, Resetters
  <2>3. CASE CleanIdle \/ LeakyClose \/ UNCHANGED leakyVars
    BY <1>1, <2>3, Zenon DEF CleanIdle, LeakyClose, leakyVars
  <2> QED
    BY <2>1, <2>2, <2>3, Zenon
<1> QED
  BY <1>2, <1>3, <1>4, QuietStep, Zenon

\* Every operation keeps the invariant.
LEMMA LeakyStep ==
  ASSUME LeakyInv, [LeakyNext]_leakyVars
  PROVE  LeakyInv'
<1>1. ASSUME NEW c \in LeakyCalls, Lookup(c) PROVE LeakyInv'
  BY <1>1, LookupStep, Zenon
<1>2. ASSUME NEW c \in LeakyCalls, NEW n \in BatchSizes, EnqueueFifo(c, n) PROVE LeakyInv'
  <2>1. CASE LeakyCapacity - Depth(queues[calls[c].q]) < n
    <3>1. calls' = Returned(c) /\ UNCHANGED <<mapped, queues, resetter>> /\ calls[c].pc = "enqueue"
      BY <1>2, <2>1, Zenon DEF EnqueueFifo
    <3> QED
      BY <3>1, ReturnStep, Zenon
  <2> QED
    BY <1>2, <2>1, FifoJoins, Zenon
<1>3. ASSUME NEW c \in LeakyCalls, NEW p \in Priorities, EnqueueHeap(c, p) PROVE LeakyInv'
  <2>1. CASE Depth(queues[calls[c].q]) >= LeakyCapacity
    <3>1. calls' = Returned(c) /\ UNCHANGED <<mapped, queues, resetter>> /\ calls[c].pc = "enqueue"
      BY <1>3, <2>1, Zenon DEF EnqueueHeap
    <3> QED
      BY <3>1, ReturnStep
  <2> QED
    BY <1>3, <2>1, HeapJoins, Zenon
<1>4. ASSUME NEW c \in LeakyCalls, ReceiveAnswers(c) PROVE LeakyInv'
  <2>1. calls' = Returned(c) /\ UNCHANGED <<mapped, queues, resetter>>
    BY <1>4, Zenon DEF ReceiveAnswers
  <2> QED
    BY <1>4, <2>1, ReturnStep, Zenon
<1>5. ASSUME NEW i \in Incarnations, CheckKey(i) \/ SeeClosed(i) PROVE LeakyInv'
  <2>1. PICK l \in {"wait", "drain", "exited"} : queues' = [queues EXCEPT ![i].leaker = l]
    <3>1. CASE CheckKey(i) /\ mapped = 0
      BY <3>1, Zenon DEF CheckKey
    <3>2. CASE CheckKey(i) /\ mapped # 0
      BY <3>2, Zenon DEF CheckKey
    <3>3. CASE SeeClosed(i)
      BY <3>3, Zenon DEF SeeClosed
    <3> QED
      BY <1>5, <3>1, <3>2, <3>3, Zenon
  <2>2. UNCHANGED <<mapped, calls, resetter>>
    BY <1>5, Zenon DEF CheckKey, SeeClosed
  <2> QED
    BY <2>1, <2>2, LeakerMoves, Zenon
<1>6. ASSUME ResetGet \/ ResetDelete \/ CleanIdle \/ LeakyClose \/ UNCHANGED leakyVars PROVE LeakyInv'
  <2>1. UNCHANGED <<queues, calls>>
    BY <1>6, Zenon DEF ResetGet, ResetDelete, CleanIdle, LeakyClose, leakyVars
  <2> QED
    BY <1>6, <2>1, MapStep, Zenon
<1> QED
  BY <1>1, <1>2, <1>3, <1>4, <1>5, <1>6, CancelStep, CtxStep, LeakStep, DrainStep, ResetDrainStep DEF LeakyNext

\* The limiter starts with no queue and no call under way.
LEMMA LeakyStart ==
  ASSUME LeakyInit
  PROVE  LeakyInv
<1>1. 0 \in 0..MaxQueues /\ LeakyCapacity \in Nat /\ MaxResets \in Int
  BY LeakyAssumption
<1>2. PICK q : q = [fifo |-> <<>>, heap |-> {}, nextSeq |-> 0, leaker |-> "none"]
  BY Zenon
<1>3. PICK me : me = [pc |-> "new", q |-> 0, viaHeap |-> FALSE, cancelled |-> FALSE, res |-> <<>>]
  BY Zenon
<1>4. <<>> \in Seq(Slots) /\ <<>> \in Seq({"none", "allow", "deny"}) /\ {} \in SUBSET Waiters
  OBVIOUS
<1>5. q \in QueueRecords
  BY <1>2, <1>4, Zenon DEF QueueRecords
<1>6. me \in CallRecords
  BY <1>1, <1>3, <1>4, Zenon DEF CallRecords
<1>7. queues = [i \in Incarnations |-> q] /\ calls = [c \in LeakyCalls |-> me]
  BY <1>2, <1>3, Zenon DEF LeakyInit
<1>8. resetter \in Resetters /\ resetter.pc = "idle" /\ mapped \in 0..MaxQueues
  BY <1>1, Zenon DEF LeakyInit, Resetters
<1>9. LeakyType
  BY <1>5, <1>6, <1>7, <1>8, Zenon DEF LeakyType
<1>10. IsFiniteSet({}) /\ Cardinality({}) = 0
  BY FS_EmptySet, Zenon
<1>11. ASSUME NEW i \in Incarnations PROVE FifoOk(i) /\ HeapOk(i) /\ CapacityOk(i)
  <2>1. queues[i].fifo = <<>> /\ queues[i].heap = {}
    BY <1>2, <1>7, Zenon
  <2>2. DOMAIN queues[i].fifo = {} /\ Len(queues[i].fifo) = 0
    BY <2>1
  <2>3. FifoOk(i)
    BY <2>2, Zenon DEF FifoOk
  <2>4. HeapOk(i)
    BY <1>10, <2>1, Zenon DEF HeapOk
  <2>5. CapacityOk(i)
    BY <1>1, <1>10, <2>1, <2>2 DEF CapacityOk
  <2> QED
    BY <2>3, <2>4, <2>5, Zenon
<1>12. ASSUME NEW c \in LeakyCalls PROVE CallOk(c)
  BY <1>3, <1>7, Zenon DEF CallOk
<1> QED
  BY <1>8, <1>9, <1>11, <1>12, Zenon DEF LeakyInv

\* What the invariant says of the tokens of a call that waits.
LEMMA WaitersHaveTokens ==
  ASSUME LeakyInv, NEW c \in LeakyCalls, calls[c].pc = "wait"
  PROVE  /\ {t.i : t \in Queued(c)} \subseteq Unanswered(c)
         /\ {t.i : t \in Queued(c)} = Unanswered(c) \/ (calls[c].viaHeap /\ calls[c].cancelled)
<1>1. queues \in [Incarnations -> QueueRecords] /\ calls \in [LeakyCalls -> CallRecords] /\ CallOk(c)
  BY Zenon DEF LeakyInv, LeakyType
<1>2. ASSUME NEW t \in Queued(c) PROVE t.i \in Unanswered(c)
  <2>1. PICK i \in Incarnations : t \in Range(queues[i].fifo) \cup queues[i].heap
    BY <1>2, Zenon DEF Queued
  <2>2. FifoOk(i) /\ HeapOk(i) /\ t.call = c
    BY <1>2, Zenon DEF LeakyInv, Queued
  <2>3. CASE t \in queues[i].heap
    BY <2>2, <2>3, Zenon DEF HeapOk, Awaits, Unanswered
  <2>4. CASE t \in Range(queues[i].fifo)
    <3>1. PICK k \in DOMAIN queues[i].fifo : t = queues[i].fifo[k]
      BY <2>4, Zenon DEF Range
    <3>2. Awaits(queues[i].fifo[k], i)
      BY <2>2, <3>1, Zenon DEF FifoOk
    <3> QED
      BY <2>2, <3>1, <3>2, Zenon DEF Awaits, Unanswered
  <2> QED
    BY <2>1, <2>3, <2>4, Zenon
<1>3. ASSUME NEW j \in Unanswered(c), ~(calls[c].viaHeap /\ calls[c].cancelled) PROVE j \in {t.i : t \in Queued(c)}
  <2>1. j \in DOMAIN calls[c].res /\ calls[c].res[j] = "none"
    BY Zenon DEF Unanswered
  <2>2. PICK i \in Incarnations : i = calls[c].q
    <3>1. calls[c].q \in 0..MaxQueues /\ calls[c].q # 0
      BY <1>1, Zenon DEF CallOk, CallRecords
    <3> QED
      BY <3>1, LeakyAssumption DEF Incarnations
  <2>3. CASE calls[c].viaHeap
    <3>1. PICK t \in queues[i].heap : t.call = c
      BY <1>1, <1>3, <2>1, <2>2, <2>3, Zenon DEF CallOk
    <3>2. t \in Queued(c)
      BY <3>1 DEF Queued
    <3>3. t.i = 1
      BY <1>1 DEF QueueRecords, Waiters
    <3>4. calls[c].res \in Seq({"none", "allow", "deny"}) /\ Len(calls[c].res) = 1
      BY <1>1, <2>3, Zenon DEF CallOk, CallRecords
    <3>5. j = 1
      BY <2>1, <3>4
    <3> QED
      BY <3>2, <3>3, <3>5, Zenon
  <2>4. CASE ~calls[c].viaHeap
    <3>1. PICK k \in DOMAIN queues[i].fifo : queues[i].fifo[k] = [call |-> c, i |-> j]
      BY <1>1, <2>1, <2>2, <2>4, Zenon DEF CallOk
    <3>2. PICK t : t = [call |-> c, i |-> j]
      BY Zenon
    <3>3. t \in Range(queues[i].fifo) /\ t.call = c /\ t.i = j
      BY <3>1, <3>2, Zenon DEF Range
    <3>4. t \in Queued(c)
      BY <3>3 DEF Queued
    <3> QED
      BY <3>3, <3>4, Zenon
  <2> QED
    BY <2>3, <2>4, Zenon
<1> QED
  BY <1>2, <1>3, Zenon

\* Every unanswered token of a waiting call is in a queue, in one place only,
\* and no queue is over its capacity: allow1, AllowN, AllowP, the leaker,
\* Reset and Close in any order, for any number of calls, keys' queues,
\* priorities and batch sizes.
THEOREM LeakyTokensConserved == LeakySpec => []TokensConserved
<1>1. LeakyInit => LeakyInv
  BY LeakyStart, Zenon
<1>2. LeakyInv /\ [LeakyNext]_leakyVars => LeakyInv'
  BY LeakyStep, Zenon
<1>3. LeakyInv => TokensConserved
  <2>1. SUFFICES ASSUME LeakyInv PROVE TokensConserved
    BY Zenon
  <2>2. \A i \in Incarnations : Depth(queues[i]) <= LeakyCapacity
    BY <2>1, Zenon DEF LeakyInv, CapacityOk, Depth
  <2>3. \A i \in Incarnations : \A t \in queues[i].heap : calls[t.call].pc = "wait"
    BY <2>1, Zenon DEF LeakyInv, HeapOk
  <2>4. \A i \in Incarnations : IsInjective(queues[i].fifo)
    BY <2>1, Zenon DEF LeakyInv, FifoOk, IsInjective
  <2>5. ASSUME NEW c \in LeakyCalls, calls[c].pc = "wait"
        PROVE  \A i \in Incarnations \ {calls[c].q} : \A t \in Range(queues[i].fifo) \cup queues[i].heap : t.call # c
    <3>1. SUFFICES ASSUME NEW i \in Incarnations \ {calls[c].q}, NEW t \in Range(queues[i].fifo) \cup queues[i].heap,
                          t.call = c
                   PROVE  FALSE
      BY Zenon
    <3>2. FifoOk(i) /\ HeapOk(i)
      BY <2>1, Zenon DEF LeakyInv
    <3>3. t \notin queues[i].heap
      BY <3>1, <3>2, Zenon DEF HeapOk, Awaits
    <3>4. PICK k \in DOMAIN queues[i].fifo : t = queues[i].fifo[k]
      BY <3>3, Zenon DEF Range
    <3>5. calls[queues[i].fifo[k].call].q = i
      BY <2>5, <3>1, <3>2, <3>4, Zenon DEF FifoOk, Awaits
    <3> QED
      BY <3>1, <3>4, <3>5, Zenon
  <2> QED
    BY <2>1, <2>2, <2>3, <2>4, <2>5, WaitersHaveTokens, Zenon DEF TokensConserved
<1> QED
  BY <1>1, <1>2, <1>3, PTL DEF LeakySpec

\* Until Close, no leaker drains and the queue in the map has one that runs.
LiveInv ==
  ~lbDone => /\ \A i \in Incarnations : queues[i].leaker # "drain"
             /\ mapped # 0 => queues[mapped].leaker \in {"wait", "check"}

\* Leaving a queue's leaker field alone.
LEMMA OtherFields ==
  ASSUME queues \in [Incarnations -> QueueRecords], NEW i, NEW x,
         \/ queues' = [queues EXCEPT ![i].fifo = x]
         \/ queues' = [queues EXCEPT ![i].heap = x]
         \/ \E y : queues' = [queues EXCEPT ![i].heap = x, ![i].nextSeq = y]
  PROVE  \A j \in Incarnations : queues'[j].leaker = queues[j].leaker
<1>1. CASE queues' = [queues EXCEPT ![i].fifo = x]
  BY <1>1 DEF QueueRecords
<1>2. CASE queues' = [queues EXCEPT ![i].heap = x]
  BY <1>2 DEF QueueRecords
<1>3. ASSUME NEW y, queues' = [queues EXCEPT ![i].heap = x, ![i].nextSeq = y]
      PROVE  \A j \in Incarnations : queues'[j].leaker = queues[j].leaker
  BY <1>3 DEF QueueRecords
<1> QED
  BY <1>1, <1>2, <1>3, Zenon

\* An operation of a call, other than getOrCreate, leaves the leakers alone.
LEMMA CallsKeepLeakers ==
  ASSUME LeakyType, NEW c \in LeakyCalls,
         \/ ReceiveAnswers(c) \/ CancelCall(c) \/ CtxReturn(c)
         \/ \E n \in BatchSizes : EnqueueFifo(c, n)
         \/ \E p \in Priorities : EnqueueHeap(c, p)
  PROVE  UNCHANGED <<mapped, lbDone>> /\ \A i \in Incarnations : queues'[i].leaker = queues[i].leaker
<1>1. queues \in [Incarnations -> QueueRecords]
  BY Zenon DEF LeakyType
<1>2. CASE ReceiveAnswers(c) \/ CancelCall(c)
  BY <1>2, Zenon DEF ReceiveAnswers, CancelCall
<1>3. CASE CtxReturn(c)
  BY <1>1, <1>3, ZenonT(60) DEF CtxReturn, QueueRecords
<1>4. ASSUME NEW n \in BatchSizes, EnqueueFifo(c, n)
      PROVE  UNCHANGED <<mapped, lbDone>> /\ \A i \in Incarnations : queues'[i].leaker = queues[i].leaker
  <2>1. UNCHANGED <<mapped, lbDone>>
    BY <1>4, Zenon DEF EnqueueFifo
  <2>2. queues' = queues \/ \E i, x : queues' = [queues EXCEPT ![i].fifo = x]
    <3>1. queues' = queues \/ queues' = [queues EXCEPT ![calls[c].q].fifo = queues[calls[c].q].fifo \o TokensOf(c, n)]
      BY <1>1, <1>4, Zenon DEF EnqueueFifo
    <3> QED
      BY <3>1, Zenon
  <2> QED
    BY <1>1, <2>1, <2>2, OtherFields, Zenon
<1>5. ASSUME NEW p \in Priorities, EnqueueHeap(c, p)
      PROVE  UNCHANGED <<mapped, lbDone>> /\ \A i \in Incarnations : queues'[i].leaker = queues[i].leaker
  <2>1. UNCHANGED <<mapped, lbDone>>
    BY <1>5, Zenon DEF EnqueueHeap
  <2>2. queues' = queues \/ \E i, x, y : queues' = [queues EXCEPT ![i].heap = x, ![i].nextSeq = y]
    <3>1. CASE Depth(queues[calls[c].q]) >= LeakyCapacity
      BY <1>5, <3>1, Zenon DEF EnqueueHeap
    <3>2. CASE ~(Depth(queues[calls[c].q]) >= LeakyCapacity)
      <4>1. PICK i, w : i = calls[c].q /\ w = [call |-> c, i |-> 1, prio |-> p, seq |-> queues[i].nextSeq]
        BY Zenon
      <4>2. queues' = [queues EXCEPT ![i].heap = @ \cup {w}, ![i].nextSeq = @ + 1]
        BY <1>5, <3>2, <4>1, Zenon DEF EnqueueHeap
      <4>3. queues' = [queues EXCEPT ![i].heap = queues[i].heap \cup {w}, ![i].nextSeq = queues[i].nextSeq + 1]
        BY <1>1, <4>2, Zenon DEF QueueRecords
      <4> QED
        BY <4>3, Zenon
    <3> QED
      BY <3>1, <3>2, Zenon
  <2> QED
    BY <1>1, <2>1, <2>2, OtherFields, Zenon
<1> QED
  BY <1>2, <1>3, <1>4, <1>5, Zenon

\* Every operation keeps a leaker at the queue in the map.
LEMMA LiveStep ==
  ASSUME LeakyInv, LiveInv, [LeakyNext]_leakyVars
  PROVE  LiveInv'
<1>1. queues \in [Incarnations -> QueueRecords] /\ mapped \in 0..MaxQueues /\ LeakyType
  BY Zenon DEF LeakyInv, LeakyType
<1>2. mapped # 0 => mapped \in Incarnations
  BY <1>1, LeakyAssumption DEF Incarnations
<1>3. ASSUME UNCHANGED <<mapped, lbDone>>, \A i \in Incarnations : queues'[i].leaker = queues[i].leaker PROVE LiveInv'
  BY <1>2, <1>3, Zenon DEF LiveInv
<1>4. ASSUME NEW c \in LeakyCalls, Lookup(c) PROVE LiveInv'
  <2>1. lbDone' = lbDone
    BY <1>4, Zenon DEF Lookup
  <2>2. CASE mapped # 0
    <3>1. UNCHANGED <<mapped, queues>>
      BY <1>4, <2>2, LookupStep, Zenon
    <3> QED
      BY <2>1, <3>1, Zenon DEF LiveInv
  <2>3. CASE mapped = 0
    <3>1. mapped' \in Incarnations
          /\ \A i \in Incarnations : queues'[i].leaker = IF i = mapped' THEN "wait" ELSE queues[i].leaker
      BY <1>4, <2>3, LookupStep, Zenon
    <3> QED
      BY <2>1, <3>1, Zenon DEF LiveInv
  <2> QED
    BY <2>2, <2>3, Zenon
<1>5. ASSUME NEW i \in Incarnations, LeakTick(i) PROVE LiveInv'
  <2>1. UNCHANGED <<mapped, lbDone>> /\ queues[i].leaker = "wait"
    BY <1>5, Zenon DEF LeakTick
  <2>2. \A j \in Incarnations : queues'[j].leaker = queues[j].leaker \/ (j = i /\ queues'[j].leaker = "check")
    <3>1. CASE LiveWaiters(queues[i].heap) = {} /\ queues[i].fifo = <<>>
      <4>1. queues' = [queues EXCEPT ![i].heap = {}]
        BY <1>5, <3>1, Zenon DEF LeakTick
      <4> QED
        BY <1>1, <4>1, Zenon DEF QueueRecords
    <3>2. CASE ~(LiveWaiters(queues[i].heap) = {} /\ queues[i].fifo = <<>>)
      <4>1. PICK h, f : queues' = [queues EXCEPT ![i].heap = h, ![i].leaker = "check", ![i].fifo = f]
        <5>1. queues' = [queues EXCEPT ![i].heap = HeapAfterPop(queues[i].heap), ![i].leaker = "check",
                                       ![i].fifo = IF LiveWaiters(queues[i].heap) # {} THEN queues[i].fifo ELSE Tail(queues[i].fifo)]
          BY <1>1, <1>5, <3>2, Zenon DEF LeakTick
        <5> QED
          BY <5>1, Zenon
      <4> QED
        BY <1>1, <4>1 DEF QueueRecords
    <3> QED
      BY <3>1, <3>2, Zenon
  <2> QED
    BY <1>2, <2>1, <2>2, Zenon DEF LiveInv
<1>6. ASSUME NEW i \in Incarnations, CheckKey(i) PROVE LiveInv'
  <2>1. UNCHANGED <<mapped, lbDone, calls, resetter>>
    BY <1>6, Zenon DEF CheckKey
  <2>2. PICK l \in {"wait", "drain", "exited"} :
          queues' = [queues EXCEPT ![i].leaker = l] /\ l # "drain" /\ (mapped # 0 => l = "wait")
    <3>1. CASE mapped = 0
      BY <1>6, <3>1, Zenon DEF CheckKey
    <3>2. CASE mapped # 0
      BY <1>6, <3>2, Zenon DEF CheckKey
    <3> QED
      BY <3>1, <3>2, Zenon
  <2>3. \A j \in Incarnations : queues'[j].leaker = IF j = i THEN l ELSE queues[j].leaker
    BY <2>1, <2>2, LeakerMoves, Zenon
  <2> QED
    BY <1>2, <2>1, <2>2, <2>3, Zenon DEF LiveInv
<1>7. ASSUME NEW i \in Incarnations, SeeClosed(i) PROVE LiveInv'
  BY <1>7, Zenon DEF SeeClosed, LiveInv
<1>8. ASSUME NEW i \in Incarnations, DrainQueue(i) PROVE LiveInv'
  BY <1>8, Zenon DEF DrainQueue, LiveInv
<1>9. ASSUME ResetDrain PROVE LiveInv'
  <2>1. PICK i : i = resetter.q
    BY Zenon
  <2>2. \/ queues' = [queues EXCEPT ![i].fifo = Tail(queues[i].fifo)]
        \/ queues' = [queues EXCEPT ![i].heap = {}]
    BY <1>1, <1>9, <2>1, Zenon DEF ResetDrain
  <2>3. \A j \in Incarnations : queues'[j].leaker = queues[j].leaker
    BY <1>1, <2>2, OtherFields, Zenon
  <2> QED
    BY <1>3, <1>9, <2>3, Zenon DEF ResetDrain
<1>10. ASSUME ResetGet \/ ResetDelete \/ CleanIdle \/ LeakyClose \/ UNCHANGED leakyVars PROVE LiveInv'
  BY <1>10, Zenon DEF ResetGet, ResetDelete, CleanIdle, LeakyClose, leakyVars, LiveInv
<1> QED
  BY <1>1, <1>3, <1>4, <1>5, <1>6, <1>7, <1>8, <1>9, <1>10, CallsKeepLeakers, Zenon DEF LeakyNext

\* Until Close the queue in the map has a running leaker (leakybucket.go:539),
\* for any number of calls, of queues the key ever had and of resets.
THEOREM LiveQueueLeaks == LeakySpec => []LiveQueueHasLeaker
<1>1. LeakyInit => LeakyInv /\ LiveInv
  <2>1. LeakyInit => LiveInv
    BY DEF LeakyInit, LiveInv
  <2> QED
    BY <2>1, LeakyStart, Zenon
<1>2. LeakyInv /\ LiveInv /\ [LeakyNext]_leakyVars => (LeakyInv /\ LiveInv)'
  BY LeakyStep, LiveStep, Zenon
<1>3. LiveInv => LiveQueueHasLeaker
  BY Zenon DEF LiveInv, LiveQueueHasLeaker
<1> QED
  BY <1>1, <1>2, <1>3, PTL DEF LeakySpec
=============================================================================
