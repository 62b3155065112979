------------------------- MODULE ConcurrencyProofs --------------------------
(***************************************************************************)
(* Goroutines that wait for each other, for every number of them: hedged   *)
(* and timed-out calls, the thread pool, the event broker and the          *)
(* concurrency limiter.                                                    *)
(***************************************************************************)
EXTENDS Hedging, ThreadPool, EventStream, ConcurrencyLimiter, FiniteSetTheorems, TLAPS

\* What proves a step that names no prover.
USE SMTT(30), Z3T(30), Zenon

-----------------------------------------------------------------------------
(* The thread pool                                                          *)

SubmitSteps == {"new", "enqueue", "recheck", "accepted", "ErrPoolClosed", "ErrQueueFull"}

PoolTypes ==
  /\ queueSize \in Nat /\ taskQueue \in Seq(Tasks)
  /\ closed \in BOOLEAN /\ doneClosed \in BOOLEAN
  /\ submit \in [Tasks -> SubmitSteps]
  /\ answers \in [Tasks -> Nat]
  /\ worker \in [Workers -> {"select", "drain", "exited"}]
  /\ holding \in [Workers -> SUBSET Tasks]
  /\ closer \in [Closers -> {"new", "close_done", "wait", "closed_pool", "returned"}]

\* Close sets closed before it closes done, and no worker leaves its main
\* select before that.
CloseOrder ==
  /\ \A k \in Closers : closer[k] = "close_done" => closed
  /\ doneClosed => closed
  /\ \A w \in Workers : worker[w] # "select" => doneClosed

NoRepeat(q) == \A i, j \in 1..Len(q) : q[i] = q[j] => i = j

\* A task is in one place: in the queue once, with one worker, or answered;
\* and in none before Submit sent it.
OnePlace ==
  /\ NoRepeat(taskQueue)
  /\ \A t \in Tasks : t \in Range(taskQueue) => answers[t] = 0 /\ \A w \in Workers : t \notin holding[w]
  /\ \A v, w \in Workers : \A t \in holding[v] : answers[t] = 0 /\ (t \in holding[w] => v = w)
  /\ \A w \in Workers : \A t, u \in holding[w] : t = u
  /\ \A t \in Tasks : answers[t] <= 1
  /\ \A t \in Tasks : submit[t] \in {"new", "enqueue"} =>
       answers[t] = 0 /\ t \notin Range(taskQueue) /\ \A w \in Workers : t \notin holding[w]

\* ... and a task that was accepted, or will be unless Close comes first, is
\* in some place.  Those still queued when the last worker left are not
\* accepted.
Placed ==
  /\ \A t \in Tasks :
       submit[t] = "accepted" \/ (submit[t] = "recheck" /\ ~closed) =>
         answers[t] = 1 \/ (\E w \in Workers : t \in holding[w]) \/ t \in Range(taskQueue)
  /\ (\A w \in Workers : worker[w] = "exited") =>
       \A t \in Tasks : t \in Range(taskQueue) => submit[t] # "accepted"

\* The inductive invariant.
PoolInv == PoolTypes /\ CloseOrder /\ OnePlace /\ Placed

-----------------------------------------------------------------------------
(* What a send and a receive do to the tasks in the queue                   *)

\* A send adds its task and nothing else.
LEMMA AppendTask ==
  ASSUME NEW q \in Seq(Tasks), NEW t \in Tasks
  PROVE  /\ Append(q, t) \in Seq(Tasks)
         /\ \A u \in Tasks : u \in Range(Append(q, t)) <=> (u \in Range(q) \/ u = t)
         /\ NoRepeat(q) /\ t \notin Range(q) => NoRepeat(Append(q, t))
<1>1. Len(Append(q, t)) = Len(q) + 1 /\ Append(q, t)[Len(q) + 1] = t /\ Len(q) \in Nat
  OBVIOUS
<1>2. \A i \in 1..Len(q) : Append(q, t)[i] = q[i]
  OBVIOUS
<1> QED BY <1>1, <1>2 DEF Range, NoRepeat

\* A receive removes the first task and nothing else.
LEMMA TailTask ==
  ASSUME NEW q \in Seq(Tasks), q # <<>>
  PROVE  /\ Head(q) \in Tasks /\ Tail(q) \in Seq(Tasks) /\ Head(q) \in Range(q)
         /\ \A u \in Tasks : u \in Range(q) <=> (u \in Range(Tail(q)) \/ u = Head(q))
         /\ NoRepeat(q) => NoRepeat(Tail(q)) /\ Head(q) \notin Range(Tail(q))
<1>1. Len(q) \in Nat \ {0} /\ Len(Tail(q)) = Len(q) - 1 /\ Head(q) = q[1] /\ Head(q) \in Tasks /\ Tail(q) \in Seq(Tasks)
  OBVIOUS
<1>2. \A i \in 1..Len(Tail(q)) : i + 1 \in 1..Len(q) /\ Tail(q)[i] = q[i + 1]
  OBVIOUS
<1>3. \A i \in 1..Len(q) : i = 1 \/ (i - 1 \in 1..Len(Tail(q)) /\ Tail(q)[i - 1] = q[i])
  BY <1>1, <1>2
<1>4. 1 \in 1..Len(q)
  BY <1>1
<1>5. ASSUME NEW u \in Tasks PROVE u \in Range(q) <=> (u \in Range(Tail(q)) \/ u = Head(q))
  <2>1. ASSUME u \in Range(q) PROVE u \in Range(Tail(q)) \/ u = Head(q)
    <3>1. PICK i \in 1..Len(q) : q[i] = u
      BY <2>1 DEF Range
    <3>2. CASE i = 1
      BY <1>1, <3>1, <3>2, Zenon
    <3>3. CASE i # 1
      <4>1. PICK j \in 1..Len(Tail(q)) : Tail(q)[j] = u
        BY <1>3, <3>1, <3>3, Zenon
      <4>2. DOMAIN Tail(q) = 1..Len(Tail(q))
        BY <1>1
      <4>3. u \in Range(Tail(q))
        BY <4>1, <4>2, Zenon DEF Range
      <4> QED
        BY <4>3, Zenon
    <3> QED
      BY <3>2, <3>3, Zenon
  <2>2. ASSUME u \in Range(Tail(q)) PROVE u \in Range(q)
    <3>1. PICK i \in 1..Len(Tail(q)) : Tail(q)[i] = u
      BY <2>2 DEF Range
    <3>2. i + 1 \in 1..Len(q) /\ q[i + 1] = u
      BY <1>2, <3>1, Zenon
    <3> QED
      BY <3>2 DEF Range
  <2>3. Head(q) \in Range(q)
    BY <1>1, <1>4 DEF Range
  <2> QED
    BY <2>1, <2>2, <2>3, Zenon
<1>6. ASSUME NoRepeat(q) PROVE NoRepeat(Tail(q)) /\ Head(q) \notin Range(Tail(q))
  BY <1>1, <1>2, <1>4, <1>6 DEF Range, NoRepeat
<1>7. Head(q) \in Range(q)
  BY <1>1, <1>4 DEF Range
<1> QED
  BY <1>1, <1>5, <1>6, <1>7, Zenon

-----------------------------------------------------------------------------

\* Every step keeps the types.
LEMMA PoolTypesStep == PoolTypes /\ [PoolNext]_poolVars => PoolTypes'
<1> SUFFICES ASSUME PoolTypes, [PoolNext]_poolVars PROVE PoolTypes'
  BY Zenon
<1> USE DEF PoolTypes, SubmitSteps
<1>1. ASSUME NEW t \in Tasks, CheckClosed(t) PROVE PoolTypes'
  BY <1>1, Zenon DEF CheckClosed
<1>2. ASSUME NEW t \in Tasks, Enqueue(t) PROVE PoolTypes'
  <2>1. taskQueue' \in Seq(Tasks)
    BY <1>2, AppendTask, ZenonT(60) DEF Enqueue
  <2>2. submit' \in [Tasks -> SubmitSteps]
    BY <1>2, ZenonT(60) DEF Enqueue
  <2> QED BY <1>2, <2>1, <2>2, Zenon DEF Enqueue
<1>3. ASSUME NEW t \in Tasks, Recheck(t) PROVE PoolTypes'
  BY <1>3, Zenon DEF Recheck
<1>4. ASSUME NEW t \in Tasks, NEW w \in Workers, HandOff(t, w) PROVE PoolTypes'
  BY <1>4, Zenon DEF HandOff
<1>5. ASSUME NEW w \in Workers, Take(w) PROVE PoolTypes'
  BY <1>5, TailTask DEF Take
<1>6. ASSUME NEW w \in Workers, Answer(w) PROVE PoolTypes'
  BY <1>6 DEF Answer
<1>7. ASSUME NEW w \in Workers, SeeDone(w) \/ WorkerExit(w) PROVE PoolTypes'
  BY <1>7, Zenon DEF SeeDone, WorkerExit
<1>8. ASSUME NEW k \in Closers, SwapClosed(k) \/ CloseDone(k) \/ WaitWorkers(k) PROVE PoolTypes'
  BY <1>8, Zenon DEF SwapClosed, CloseDone, WaitWorkers
<1>9. CASE UNCHANGED poolVars
  BY <1>9, Zenon DEF poolVars
<1> QED BY <1>1, <1>2, <1>3, <1>4, <1>5, <1>6, <1>7, <1>8, <1>9, Zenon DEF PoolNext, WorkerStep

\* Every step keeps the order of Close.
LEMMA CloseOrderStep == PoolInv /\ [PoolNext]_poolVars => CloseOrder'
<1> SUFFICES ASSUME PoolInv, [PoolNext]_poolVars PROVE CloseOrder'
  BY Zenon
<1> USE DEF PoolInv, PoolTypes, CloseOrder
<1>1. ASSUME NEW t \in Tasks, CheckClosed(t) \/ Enqueue(t) \/ Recheck(t) PROVE CloseOrder'
  BY <1>1 DEF CheckClosed, Enqueue, Recheck
<1>2. ASSUME NEW t \in Tasks, NEW w \in Workers, HandOff(t, w) PROVE CloseOrder'
  BY <1>2, Zenon DEF HandOff
<1>3. ASSUME NEW w \in Workers, WorkerStep(w) PROVE CloseOrder'
  BY <1>3 DEF WorkerStep, Take, Answer, SeeDone, WorkerExit
<1>4. ASSUME NEW k \in Closers, SwapClosed(k) \/ CloseDone(k) \/ WaitWorkers(k) PROVE CloseOrder'
  BY <1>4 DEF SwapClosed, CloseDone, WaitWorkers
<1>5. CASE UNCHANGED poolVars
  BY <1>5, Zenon DEF poolVars
<1> QED BY <1>1, <1>2, <1>3, <1>4, <1>5, Zenon DEF PoolNext

\* No step puts a task in two places: Submit sends a task once, and a worker
\* answers what it took from the queue or from Submit's hand.
LEMMA OnePlaceStep == PoolInv /\ [PoolNext]_poolVars => OnePlace'
<1> SUFFICES ASSUME PoolInv, [PoolNext]_poolVars PROVE OnePlace'
  OBVIOUS
<1> USE DEF PoolInv, PoolTypes, SubmitSteps, OnePlace
<1>1. ASSUME NEW t \in Tasks, CheckClosed(t) PROVE OnePlace'
  BY <1>1 DEF CheckClosed
<1>2. ASSUME NEW t \in Tasks, Enqueue(t) PROVE OnePlace'
  <2>1. CASE taskQueue' = Append(taskQueue, t) /\ submit' = [submit EXCEPT ![t] = "recheck"]
    <3>1. NoRepeat(taskQueue') /\ \A u \in Tasks : u \in Range(taskQueue') <=> (u \in Range(taskQueue) \/ u = t)
      BY <1>2, <2>1, AppendTask, Zenon DEF Enqueue
    <3>2. answers[t] = 0 /\ (\A w \in Workers : t \notin holding[w]) /\ UNCHANGED <<answers, holding>>
      BY <1>2, Zenon DEF Enqueue
    <3>3. \A u \in Tasks : submit'[u] \in {"new", "enqueue"} => u # t /\ submit[u] = submit'[u]
      BY <2>1, Zenon
    <3> QED BY <3>1, <3>2, <3>3
  <2>2. CASE UNCHANGED taskQueue /\ \E e \in {"ErrPoolClosed", "ErrQueueFull"} : submit' = [submit EXCEPT ![t] = e]
    BY <1>2, <2>2 DEF Enqueue
  <2> QED BY <1>2, <2>1, <2>2, Zenon DEF Enqueue
<1>3. ASSUME NEW t \in Tasks, Recheck(t) PROVE OnePlace'
  BY <1>3, ZenonT(60) DEF Recheck
<1>4. ASSUME NEW t \in Tasks, NEW w \in Workers, HandOff(t, w) PROVE OnePlace'
  BY <1>4 DEF HandOff
<1>5. ASSUME NEW w \in Workers, Take(w) PROVE OnePlace'
  BY <1>5, TailTask DEF Take
<1>6. ASSUME NEW w \in Workers, Answer(w) PROVE OnePlace'
  BY <1>6 DEF Answer
<1>7. ASSUME NEW w \in Workers, SeeDone(w) \/ WorkerExit(w) PROVE OnePlace'
  BY <1>7, Zenon DEF SeeDone, WorkerExit
<1>8. ASSUME NEW k \in Closers, SwapClosed(k) \/ CloseDone(k) \/ WaitWorkers(k) PROVE OnePlace'
  BY <1>8, ZenonT(60) DEF SwapClosed, CloseDone, WaitWorkers
<1>9. CASE UNCHANGED poolVars
  BY <1>9, Zenon DEF poolVars
<1> QED BY <1>1, <1>2, <1>3, <1>4, <1>5, <1>6, <1>7, <1>8, <1>9, Zenon DEF PoolNext, WorkerStep

\* No step loses an accepted task: Recheck accepts only while closed is unset,
\* when every worker still has its drain ahead of it.
LEMMA PlacedStep == PoolInv /\ [PoolNext]_poolVars => Placed'
<1> SUFFICES ASSUME PoolInv, [PoolNext]_poolVars PROVE Placed'
  OBVIOUS
<1> USE DEF PoolInv, PoolTypes, SubmitSteps, Placed
<1>1. ASSUME NEW t \in Tasks, CheckClosed(t) PROVE Placed'
  BY <1>1, Zenon DEF CheckClosed
<1>2. ASSUME NEW t \in Tasks, Enqueue(t) PROVE Placed'
  <2>1. CASE taskQueue' = Append(taskQueue, t) /\ submit' = [submit EXCEPT ![t] = "recheck"]
    BY <1>2, <2>1, AppendTask DEF Enqueue
  <2>2. CASE UNCHANGED taskQueue /\ \E e \in {"ErrPoolClosed", "ErrQueueFull"} : submit' = [submit EXCEPT ![t] = e]
    BY <1>2, <2>2 DEF Enqueue
  <2> QED BY <1>2, <2>1, <2>2, Zenon DEF Enqueue
<1>3. ASSUME NEW t \in Tasks, Recheck(t) PROVE Placed'
  <2>1. ~closed => \E w \in Workers : worker[w] # "exited"
    BY PoolAssumption, Zenon DEF CloseOrder
  <2> QED BY <1>3, <2>1, Zenon DEF Recheck
<1>4. ASSUME NEW t \in Tasks, NEW w \in Workers, HandOff(t, w) PROVE Placed'
  BY <1>4, Zenon DEF HandOff
<1>5. ASSUME NEW w \in Workers, Take(w) PROVE Placed'
  BY <1>5, TailTask, ZenonT(60) DEF Take
<1>6. ASSUME NEW w \in Workers, Answer(w) PROVE Placed'
  BY <1>6 DEF Answer, OnePlace
<1>7. ASSUME NEW w \in Workers, SeeDone(w) PROVE Placed'
  BY <1>7, Zenon DEF SeeDone
<1>8. ASSUME NEW w \in Workers, WorkerExit(w) PROVE Placed'
  <2>1. \A t \in Tasks : t \notin Range(taskQueue)
    BY <1>8 DEF WorkerExit, Range
  <2> QED BY <1>8, <2>1, Zenon DEF WorkerExit
<1>9. ASSUME NEW k \in Closers, SwapClosed(k) \/ CloseDone(k) \/ WaitWorkers(k) PROVE Placed'
  BY <1>9, Zenon DEF SwapClosed, CloseDone, WaitWorkers
<1>10. CASE UNCHANGED poolVars
  BY <1>10, Zenon DEF poolVars
<1> QED BY <1>1, <1>2, <1>3, <1>4, <1>5, <1>6, <1>7, <1>8, <1>9, <1>10, Zenon DEF PoolNext, WorkerStep

-----------------------------------------------------------------------------
\* The inductive invariant holds in every reachable state.
THEOREM PoolInvariance == PoolSpec => []PoolInv
<1>1. ASSUME PoolInit PROVE PoolInv
  <2>1. NoRepeat(taskQueue) /\ \A t \in Tasks : t \notin Range(taskQueue)
    BY <1>1 DEF PoolInit, NoRepeat, Range
  <2>2. taskQueue \in Seq(Tasks) /\ queueSize \in Nat
    BY <1>1, PoolAssumption DEF PoolInit
  <2>3. PoolTypes /\ CloseOrder
    BY <1>1, <2>2, Zenon DEF PoolInit, PoolTypes, SubmitSteps, CloseOrder
  <2>4. OnePlace /\ Placed
    BY <1>1, <2>1 DEF PoolInit, OnePlace, Placed
  <2> QED BY <2>3, <2>4, Zenon DEF PoolInv
<1>2. PoolInv /\ [PoolNext]_poolVars => PoolInv'
  BY PoolTypesStep, CloseOrderStep, OnePlaceStep, PlacedStep, Zenon DEF PoolInv
<1> QED BY <1>1, <1>2, PTL DEF PoolSpec

(***************************************************************************)
(* A task whose Submit returned a channel is answered once, or is with a   *)
(* worker, or is queued before a worker that has not drained the queue     *)
(* yet, however many tasks, workers and Closes race (threadpool.go:109).   *)
(***************************************************************************)
THEOREM NoTaskStranded == PoolSpec => []AcceptedIsAnswered
<1>1. PoolInv => AcceptedIsAnswered
  BY DEF PoolInv, PoolTypes, OnePlace, Placed, AcceptedIsAnswered, Executing
<1> QED BY <1>1, PoolInvariance, PTL

-----------------------------------------------------------------------------
(* The event broker                                                         *)

StreamTypes ==
  /\ subs \in SUBSET Subscribers /\ brokerClosed \in BOOLEAN /\ seq \in Nat
  /\ publisher \in [Publishers -> [event : Nat, todo : SUBSET Subscribers]]
  /\ channel \in [Subscribers -> {"none", "open", "closed"}]
  /\ buffered \in [Subscribers -> Nat]
  /\ got \in [Subscribers -> SUBSET Nat] /\ lost \in [Subscribers -> SUBSET Nat]
  /\ from \in [Subscribers -> Nat] /\ upto \in [Subscribers -> Nat]
  /\ sentOnClosed \in BOOLEAN

\* While a publisher holds the read lock nobody leaves the map, so whom it has
\* still to visit is subscribed and has an open channel; and no two publishers
\* share an event.
Locked ==
  /\ ~sentOnClosed
  /\ \A s \in subs : channel[s] = "open"
  /\ \A s \in Subscribers : from[s] <= seq /\ upto[s] <= seq
  /\ \A s \in Subscribers : channel[s] = "none" => got[s] = {} /\ lost[s] = {}
  /\ \A p \in Publishers : publisher[p].event <= seq
  /\ \A p \in Publishers : \A s \in publisher[p].todo : s \in subs /\ from[s] < publisher[p].event
  /\ \A p, q \in Publishers : publisher[p].event = publisher[q].event => p = q \/ publisher[p].event = 0

DueTo(s, e) == \E p \in Publishers : s \in publisher[p].todo /\ publisher[p].event = e

Last(s) == IF s \in subs THEN seq ELSE upto[s]

\* EventsAccounted, event by event.
Accounts ==
  \A s \in Subscribers : \A e \in Nat :
    /\ ~(e \in got[s] /\ e \in lost[s])
    /\ (e \in got[s] \/ e \in lost[s]) <=> (from[s] < e /\ e <= Last(s) /\ ~DueTo(s, e))

\* The inductive invariant.
StreamInv == StreamTypes /\ Locked /\ Accounts

-----------------------------------------------------------------------------

\* Under the write lock no event is due.
LEMMA LockedNoneDue ==
  ASSUME WriteLock
  PROVE  \A s \in Subscribers : \A e \in Nat : ~DueTo(s, e)
BY DEF WriteLock, NotPublishing, DueTo

\* Every step keeps the types.
LEMMA StreamTypesStep == StreamTypes /\ [StreamNext]_streamVars => StreamTypes'
<1> SUFFICES ASSUME StreamTypes, [StreamNext]_streamVars PROVE StreamTypes'
  OBVIOUS
<1> USE DEF StreamTypes
<1>1. ASSUME NEW s \in Subscribers, Subscribe(s) PROVE StreamTypes'
  BY <1>1, Zenon DEF Subscribe
<1>2. ASSUME NEW s \in Subscribers, Detach(s) \/ CloseCh(s) PROVE StreamTypes'
  BY <1>2 DEF Detach, CloseCh
<1>3. ASSUME NEW s \in Subscribers, Receive(s) PROVE StreamTypes'
  BY <1>3 DEF Receive
<1>4. ASSUME NEW p \in Publishers, StartPublish(p) PROVE StreamTypes'
  BY <1>4 DEF StartPublish
<1>5. ASSUME NEW p \in Publishers, FinishPublish(p) PROVE StreamTypes'
  BY <1>5, Zenon DEF FinishPublish, NotPublishing
<1>6. ASSUME NEW p \in Publishers, NEW s \in Subscribers, Visit(p, s) PROVE StreamTypes'
  <2>1. publisher' \in [Publishers -> [event : Nat, todo : SUBSET Subscribers]]
    BY <1>6 DEF Visit
  <2>2. buffered' \in [Subscribers -> Nat] /\ got' \in [Subscribers -> SUBSET Nat] /\ lost' \in [Subscribers -> SUBSET Nat]
    <3>1. publisher[p].event \in Nat
      BY Zenon
    <3>2. CASE buffered[s] < SubBuffer
      <4>1. got[s] \cup {publisher[p].event} \in SUBSET Nat
        BY <3>1, Zenon
      <4>2. buffered' = [buffered EXCEPT ![s] = @ + 1] /\ lost' = lost
        BY <1>6, <3>2, Zenon DEF Visit
      <4>3. got' = [got EXCEPT ![s] = @ \cup {publisher[p].event}]
        BY <1>6, <3>2, Zenon DEF Visit
      <4> QED BY <4>1, <4>2, <4>3
    <3>3. CASE ~(buffered[s] < SubBuffer)
      BY <1>6, <3>1, <3>3 DEF Visit
    <3> QED BY <3>2, <3>3, Zenon
  <2> QED BY <1>6, <2>1, <2>2, Zenon DEF Visit
<1>7. CASE CloseBroker
  BY <1>7, Zenon DEF CloseBroker
<1>8. CASE UNCHANGED streamVars
  BY <1>8, Zenon DEF streamVars
<1> QED BY <1>1, <1>2, <1>3, <1>4, <1>5, <1>6, <1>7, <1>8, Zenon DEF StreamNext

\* Every step keeps Locked: the map only shrinks under the write lock, and a
\* channel is closed only after its subscriber has left the map.
LEMMA LockedStep == StreamInv /\ [StreamNext]_streamVars => Locked'
<1> SUFFICES ASSUME StreamInv, [StreamNext]_streamVars PROVE Locked'
  OBVIOUS
<1> USE DEF StreamInv, StreamTypes, Locked
<1>1. ASSUME NEW s \in Subscribers, Subscribe(s) PROVE Locked'
  BY <1>1 DEF Subscribe, WriteLock, NotPublishing
<1>2. ASSUME NEW s \in Subscribers, Detach(s) PROVE Locked'
  BY <1>2 DEF Detach, WriteLock, NotPublishing
<1>3. ASSUME NEW s \in Subscribers, CloseCh(s) PROVE Locked'
  BY <1>3, Zenon DEF CloseCh
<1>4. ASSUME NEW s \in Subscribers, Receive(s) PROVE Locked'
  BY <1>4, Zenon DEF Receive
<1>5. ASSUME NEW p \in Publishers, StartPublish(p) PROVE Locked'
  BY <1>5 DEF StartPublish
<1>6. ASSUME NEW p \in Publishers, FinishPublish(p) PROVE Locked'
  BY <1>6 DEF FinishPublish, NotPublishing
<1>7. ASSUME NEW p \in Publishers, NEW s \in Subscribers, Visit(p, s) PROVE Locked'
  <2>1. \A q \in Publishers : publisher'[q].event = publisher[q].event /\ publisher'[q].todo \subseteq publisher[q].todo
    BY <1>7 DEF Visit
  <2>2. channel[s] = "open" /\ UNCHANGED <<subs, seq, channel, from, upto>> /\ ~sentOnClosed'
    BY <1>7, Zenon DEF Visit
  <2>3. \A r \in Subscribers \ {s} : got'[r] = got[r] /\ lost'[r] = lost[r]
    BY <1>7, Zenon DEF Visit
  <2> QED BY <2>1, <2>2, <2>3
<1>8. CASE CloseBroker
  BY <1>8 DEF CloseBroker, WriteLock, NotPublishing
<1>9. CASE UNCHANGED streamVars
  BY <1>9, Zenon DEF streamVars
<1> QED BY <1>1, <1>2, <1>3, <1>4, <1>5, <1>6, <1>7, <1>8, <1>9, Zenon DEF StreamNext

\* Every step keeps the accounts: an event becomes due to the subscribers of
\* its instant, and a visit moves it to got or to lost.
LEMMA AccountsStep == StreamInv /\ [StreamNext]_streamVars => Accounts'
<1> SUFFICES ASSUME StreamInv, [StreamNext]_streamVars PROVE Accounts'
  OBVIOUS
<1> USE DEF StreamInv, StreamTypes, Accounts
<1>1. ASSUME NEW s \in Subscribers, Subscribe(s) PROVE Accounts'
  <2>1. \A r \in Subscribers : \A e \in Nat : ~DueTo(r, e) /\ ~DueTo(r, e)'
    BY <1>1, LockedNoneDue, Zenon DEF Subscribe, DueTo
  <2>2. got[s] = {} /\ lost[s] = {} /\ from'[s] = seq /\ Last(s)' = seq
    BY <1>1, Zenon DEF Subscribe, Locked, Last
  <2>3. \A r \in Subscribers \ {s} : from'[r] = from[r] /\ Last(r)' = Last(r)
    BY <1>1, Zenon DEF Subscribe, Last
  <2>4. UNCHANGED <<got, lost>>
    BY <1>1, Zenon DEF Subscribe
  <2> QED BY <2>1, <2>2, <2>3, <2>4
<1>2. ASSUME NEW s \in Subscribers, Detach(s) PROVE Accounts'
  <2>1. \A r \in Subscribers : \A e \in Nat : ~DueTo(r, e) /\ ~DueTo(r, e)'
    BY <1>2, LockedNoneDue, Zenon DEF Detach, DueTo
  <2>2. \A r \in Subscribers : Last(r)' = Last(r)
    BY <1>2, Zenon DEF Detach, Last
  <2> QED BY <1>2, <2>1, <2>2, Zenon DEF Detach
<1>3. ASSUME NEW s \in Subscribers, CloseCh(s) \/ Receive(s) PROVE Accounts'
  BY <1>3 DEF CloseCh, Receive, DueTo, Last
<1>4. ASSUME NEW p \in Publishers, StartPublish(p) PROVE Accounts'
  <2>1. publisher[p].todo = {} /\ publisher'[p].event = seq + 1 /\ publisher'[p].todo = subs
    BY <1>4 DEF StartPublish, NotPublishing
  <2>2. \A q \in Publishers \ {p} : publisher'[q] = publisher[q]
    BY <1>4, Zenon DEF StartPublish
  <2>3. \A r \in Subscribers : \A e \in Nat : DueTo(r, e)' <=> (DueTo(r, e) \/ (r \in subs /\ e = seq + 1))
    <3> SUFFICES ASSUME NEW r \in Subscribers, NEW e \in Nat
                 PROVE  DueTo(r, e)' <=> (DueTo(r, e) \/ (r \in subs /\ e = seq + 1))
      BY Zenon
    <3>1. ASSUME DueTo(r, e)' PROVE DueTo(r, e) \/ (r \in subs /\ e = seq + 1)
      <4>1. PICK q \in Publishers : r \in publisher'[q].todo /\ publisher'[q].event = e
        BY <3>1, Zenon DEF DueTo
      <4> QED BY <2>1, <2>2, <4>1, Zenon DEF DueTo
    <3>2. ASSUME DueTo(r, e) PROVE DueTo(r, e)'
      <4>1. PICK q \in Publishers : r \in publisher[q].todo /\ publisher[q].event = e
        BY <3>2, Zenon DEF DueTo
      <4>2. q # p
        BY <2>1, <4>1, Zenon
      <4> QED BY <2>2, <4>1, <4>2, Zenon DEF DueTo
    <3>3. ASSUME r \in subs, e = seq + 1 PROVE DueTo(r, e)'
      BY <2>1, <3>3, Zenon DEF DueTo
    <3> QED BY <3>1, <3>2, <3>3, Zenon
  <2>4. \A r \in Subscribers : Last(r)' = (IF r \in subs THEN seq + 1 ELSE Last(r)) /\ Last(r) <= seq /\ Last(r) \in Nat
    BY <1>4 DEF StartPublish, Last, Locked
  <2>5. UNCHANGED <<got, lost, from>>
    BY <1>4, Zenon DEF StartPublish
  <2>6. \A r \in subs : Last(r) = seq
    BY Zenon DEF Last
  <2> QED BY <2>3, <2>4, <2>5, <2>6
<1>5. ASSUME NEW p \in Publishers, FinishPublish(p) PROVE Accounts'
  <2>1. \A r \in Subscribers : \A e \in Nat : DueTo(r, e)' <=> DueTo(r, e)
    BY <1>5, Zenon DEF FinishPublish, NotPublishing, DueTo
  <2> QED BY <1>5, <2>1, Zenon DEF FinishPublish, Last
<1>6. ASSUME NEW p \in Publishers, NEW s \in Subscribers, Visit(p, s) PROVE Accounts'
  <2> DEFINE n == publisher[p].event
  <2>1. n \in Nat /\ DueTo(s, n) /\ from[s] < n /\ n <= Last(s)
    BY <1>6, Zenon DEF Visit, DueTo, Locked, Last
  <2>2. publisher'[p].event = n /\ publisher'[p].todo = publisher[p].todo \ {s}
    BY <1>6 DEF Visit
  <2>3. \A q \in Publishers \ {p} : publisher'[q] = publisher[q]
    BY <1>6, Zenon DEF Visit
  <2>4. \A q \in Publishers \ {p} : s \in publisher[q].todo => publisher[q].event # n
    BY <1>6 DEF Visit, Locked
  <2>5. \A r \in Subscribers : \A e \in Nat : DueTo(r, e)' <=> (DueTo(r, e) /\ ~(r = s /\ e = n))
    <3> SUFFICES ASSUME NEW r \in Subscribers, NEW e \in Nat
                 PROVE  DueTo(r, e)' <=> (DueTo(r, e) /\ ~(r = s /\ e = n))
      BY Zenon
    <3>1. ASSUME DueTo(r, e)' PROVE DueTo(r, e) /\ ~(r = s /\ e = n)
      <4>1. PICK q \in Publishers : r \in publisher'[q].todo /\ publisher'[q].event = e
        BY <3>1, Zenon DEF DueTo
      <4>2. CASE q = p
        BY <2>2, <4>1, <4>2, Zenon DEF DueTo
      <4>3. CASE q # p
        BY <2>3, <2>4, <4>1, <4>3, Zenon DEF DueTo
      <4> QED BY <4>2, <4>3, Zenon
    <3>2. ASSUME DueTo(r, e), ~(r = s /\ e = n) PROVE DueTo(r, e)'
      <4>1. PICK q \in Publishers : r \in publisher[q].todo /\ publisher[q].event = e
        BY <3>2, Zenon DEF DueTo
      <4>2. CASE q = p
        BY <2>2, <3>2, <4>1, <4>2, Zenon DEF DueTo
      <4>3. CASE q # p
        BY <2>3, <4>1, <4>3, Zenon DEF DueTo
      <4> QED BY <4>2, <4>3, Zenon
    <3> QED BY <3>1, <3>2, Zenon
  <2>6. \/ got' = [got EXCEPT ![s] = @ \cup {n}] /\ lost' = lost
        \/ lost' = [lost EXCEPT ![s] = @ \cup {n}] /\ got' = got
    BY <1>6, Zenon DEF Visit
  <2>7. \A r \in Subscribers : Last(r)' = Last(r) /\ from'[r] = from[r]
    BY <1>6, Zenon DEF Visit, Last
  <2>8. n \notin got[s] /\ n \notin lost[s]
    BY <2>1, Zenon
  <2> HIDE DEF n
  <2>9. CASE got' = [got EXCEPT ![s] = @ \cup {n}] /\ lost' = lost
    BY <2>1, <2>5, <2>7, <2>8, <2>9, ZenonT(60)
  <2>10. CASE lost' = [lost EXCEPT ![s] = @ \cup {n}] /\ got' = got
    BY <2>1, <2>5, <2>7, <2>8, <2>10
  <2> QED BY <2>6, <2>9, <2>10, Zenon
<1>7. CASE CloseBroker
  <2>1. \A r \in Subscribers : \A e \in Nat : ~DueTo(r, e) /\ ~DueTo(r, e)'
    BY <1>7, LockedNoneDue, Zenon DEF CloseBroker, DueTo
  <2>2. \A r \in Subscribers : Last(r)' = Last(r)
    BY <1>7, Zenon DEF CloseBroker, Last
  <2> QED BY <1>7, <2>1, <2>2, Zenon DEF CloseBroker
<1>8. CASE UNCHANGED streamVars
  BY <1>8, Zenon DEF streamVars, DueTo, Last
<1> QED BY <1>1, <1>2, <1>3, <1>4, <1>5, <1>6, <1>7, <1>8, Zenon DEF StreamNext

-----------------------------------------------------------------------------
\* The inductive invariant holds in every reachable state.
THEOREM StreamInvariance == StreamSpec => []StreamInv
<1>1. StreamInit => StreamInv
  <2> SUFFICES ASSUME StreamInit PROVE StreamInv
    BY Zenon
  <2> USE DEF StreamInit, NotPublishing
  <2>1. StreamTypes
    BY Zenon DEF StreamTypes
  <2>2. Locked
    BY DEF Locked
  <2>3. Accounts
    BY DEF Accounts, DueTo, Last
  <2> QED BY <2>1, <2>2, <2>3, Zenon DEF StreamInv
<1>2. StreamInv /\ [StreamNext]_streamVars => StreamInv'
  BY StreamTypesStep, LockedStep, AccountsStep, Zenon DEF StreamInv
<1> QED BY <1>1, <1>2, PTL DEF StreamSpec

(***************************************************************************)
(* Whoever joins, leaves or closes, every event published while a          *)
(* subscriber was in the map reached its channel or its dropped counter,   *)
(* never both, and no send panics on a closed channel (eventstream.go      *)
(* Publish, Subscribe, remove, Close).                                     *)
(***************************************************************************)
THEOREM NoEventUnaccounted == StreamSpec => []EventsAccounted
<1>1. ASSUME StreamInv PROVE EventsAccounted
  <2> USE <1>1 DEF StreamInv, StreamTypes
  <2>1. ASSUME NEW s \in Subscribers PROVE got[s] \cap lost[s] = {}
    BY <2>1, Zenon DEF Accounts
  <2>2. ASSUME NEW s \in Subscribers, NEW e \in Nat PROVE e \in Due(s) <=> DueTo(s, e)
    BY Zenon DEF Due, DueTo
  <2>3. ASSUME NEW s \in Subscribers
        PROVE  got[s] \cup lost[s] = ((from[s] + 1)..Last(s)) \ Due(s)
    <3>1. Last(s) \in Nat /\ from[s] \in Nat
      BY Zenon DEF Last
    <3>2. \A e \in Nat : e \in (from[s] + 1)..Last(s) <=> from[s] < e /\ e <= Last(s)
      BY <3>1
    <3>3. \A e \in Nat : e \in got[s] \cup lost[s] <=> e \in ((from[s] + 1)..Last(s)) \ Due(s)
      BY <2>2, <3>2, Zenon DEF Accounts
    <3>4. got[s] \cup lost[s] \subseteq Nat /\ ((from[s] + 1)..Last(s)) \subseteq Nat
      BY <3>1
    <3> QED BY <3>3, <3>4, Zenon
  <2> QED BY <2>1, <2>3, Zenon DEF EventsAccounted, Last, Locked
<1> QED BY <1>1, StreamInvariance, PTL

-----------------------------------------------------------------------------
(* Hedged calls and timeouts                                                *)

\* Results in the channel and results still to come.
ToCome == Len(resultCh) + Cardinality(Running)

HedgeType ==
  /\ hedgeMode \in {"hedge", "hedgeN", "timeout"} /\ hedgePc \in {"select", "await", "over"}
  /\ copy \in Seq({"unfired", "running", "reported"}) /\ resultCh \in Seq(BOOLEAN)
  /\ outstanding \in Nat /\ drain \in Nat
  /\ hedgeMode = "hedge" => Len(copy) = 2
  /\ hedgeMode = "hedgeN" => Len(copy) = Copies

\* Copies are fired in order, none reports twice, and a caller that waits
\* counts what is to come.
HedgeInv ==
  /\ HedgeType
  /\ FiredTotal \in 1..Len(copy) /\ FiredCopies = 1..FiredTotal
  /\ ToCome <= FiredTotal /\ drain <= ToCome
  /\ hedgePc # "over" => outstanding = ToCome /\ drain = 0 /\ hedgeAnswer = "none"
  /\ hedgePc = "select" /\ hedgeMode = "hedge" => FiredTotal = 1 /\ ToCome = 1
  /\ hedgePc = "await" => hedgeMode = "hedge" /\ ToCome = 2
  /\ hedgePc = "over" => hedgeCtx = "done" \/ Running \subseteq cancelled
  /\ hedgeMode = "hedgeN" /\ hedgeAnswer = "failed" => \A i \in DOMAIN copy : copy[i] = "reported"

\* The running copies are fired ones, finitely many.
LEMMA RunningCopies ==
  ASSUME HedgeInv
  PROVE  /\ IsFiniteSet(Running) /\ Cardinality(Running) \in Nat /\ Len(resultCh) \in Nat
         /\ Running \subseteq FiredCopies /\ FiredTotal \in Nat /\ Len(copy) \in Nat /\ ToCome \in Nat
         /\ DOMAIN copy = 1..Len(copy)
<1>1. FiredTotal \in Nat /\ Len(copy) \in Nat /\ Len(resultCh) \in Nat /\ DOMAIN copy = 1..Len(copy)
  BY DEF HedgeInv, HedgeType
<1>2. Running \subseteq FiredCopies
  BY Zenon DEF Running, FiredCopies
<1>3. IsFiniteSet(FiredCopies)
  BY <1>1, FS_Interval DEF HedgeInv
<1>4. IsFiniteSet(Running)
  BY <1>2, <1>3, FS_Subset, Zenon
<1> QED
  BY <1>1, <1>2, <1>4, FS_CardinalityType DEF ToCome

\* fireNext starts the next copy in its goroutine.
LEMMA FireNext ==
  ASSUME HedgeInv, FiredTotal < Len(copy), copy' = [copy EXCEPT ![FiredTotal + 1] = "running"]
  PROVE  /\ copy' \in Seq({"unfired", "running", "reported"}) /\ Len(copy') = Len(copy)
         /\ Cardinality(Running') = Cardinality(Running) + 1
         /\ FiredTotal' = FiredTotal + 1 /\ FiredCopies' = 1..FiredTotal'
<1>1. PICK f \in Nat : f = FiredTotal
  BY RunningCopies, Zenon
<1>2. PICK n \in Nat : n = Len(copy) /\ DOMAIN copy = 1..n /\ f + 1 \in 1..n
  <2>1. PICK n \in Nat : n = Len(copy)
    BY RunningCopies, Zenon
  <2>2. DOMAIN copy = 1..n
    BY <2>1, RunningCopies, Zenon
  <2>3. f + 1 \in 1..n
    BY <1>1, <2>1
  <2> QED
    BY <2>1, <2>2, <2>3, Zenon
<1>3. /\ copy' \in Seq({"unfired", "running", "reported"}) /\ Len(copy') = n /\ DOMAIN copy' = 1..n
      /\ copy'[f + 1] = "running" /\ \A i \in 1..n : i # f + 1 => copy'[i] = copy[i]
  BY <1>1, <1>2 DEF HedgeInv, HedgeType
<1>4. f + 1 \notin FiredCopies /\ f + 1 \notin Running
  BY <1>1, RunningCopies DEF HedgeInv
<1>5. Running' = Running \cup {f + 1}
  BY <1>2, <1>3, Zenon DEF Running
<1>6. FiredCopies' = FiredCopies \cup {f + 1}
  BY <1>2, <1>3, Zenon DEF FiredCopies
<1>7. FiredCopies' = 1..(f + 1)
  BY <1>1, <1>6 DEF HedgeInv
<1>8. FiredTotal' = Cardinality(FiredCopies')
  BY Zenon DEF FiredTotal, FiredCopies
<1>9. FiredTotal' = f + 1
  BY <1>7, <1>8, FS_Interval
<1>10. Cardinality(Running') = Cardinality(Running) + 1
  BY <1>4, <1>5, FS_AddElement, RunningCopies, Zenon
<1> QED
  BY <1>1, <1>2, <1>3, <1>7, <1>9, <1>10, Zenon

\* A result is taken from the channel.
LEMMA TakeResult ==
  ASSUME HedgeInv, resultCh # <<>>, resultCh' = Tail(resultCh)
  PROVE  /\ resultCh' \in Seq(BOOLEAN) /\ Len(resultCh') = Len(resultCh) - 1 /\ Len(resultCh) > 0
         /\ Len(resultCh) \in Nat /\ Head(resultCh) \in BOOLEAN
<1>1. resultCh \in Seq(BOOLEAN)
  BY Zenon DEF HedgeInv, HedgeType
<1> QED
  BY <1>1

\* A goroutine reports.
LEMMA CopyReturnsStep ==
  ASSUME HedgeInv, NEW i \in DOMAIN copy, NEW ok \in BOOLEAN, CopyReturns(i, ok)
  PROVE  HedgeInv'
<1>1. PICK n \in Nat : n = Len(copy) /\ DOMAIN copy = 1..n /\ i \in 1..n
  BY RunningCopies, Zenon
<1>2. /\ copy' \in Seq({"unfired", "running", "reported"}) /\ Len(copy') = n /\ DOMAIN copy' = 1..n
      /\ copy'[i] = "reported" /\ copy[i] = "running" /\ \A j \in 1..n : j # i => copy'[j] = copy[j]
  BY <1>1 DEF HedgeInv, HedgeType, CopyReturns
<1>3. Running' = Running \ {i} /\ i \in Running
  BY <1>1, <1>2, Zenon DEF Running
<1>4. FiredCopies' = FiredCopies
  BY <1>1, <1>2, Zenon DEF FiredCopies
<1>5. FiredTotal' = FiredTotal
  <2>1. FiredTotal = Cardinality(FiredCopies) /\ FiredTotal' = Cardinality(FiredCopies')
    BY Zenon DEF FiredTotal, FiredCopies
  <2> QED
    BY <1>4, <2>1, Zenon
<1>6. resultCh' \in Seq(BOOLEAN) /\ Len(resultCh') = Len(resultCh) + 1
  BY DEF HedgeInv, HedgeType, CopyReturns
<1>7. Cardinality(Running') = Cardinality(Running) - 1
  BY <1>3, FS_RemoveElement, RunningCopies, Zenon
<1>8. ToCome' = ToCome
  BY <1>6, <1>7, RunningCopies DEF ToCome
<1>9. ~(hedgeMode = "hedgeN" /\ hedgeAnswer = "failed")
  BY <1>2, Zenon DEF HedgeInv
<1>10. HedgeType'
  BY <1>1, <1>2, <1>6, Zenon DEF HedgeInv, HedgeType, CopyReturns
<1>11. Running' \subseteq Running
  BY <1>3, Zenon
<1> QED
  BY <1>1, <1>2, <1>4, <1>5, <1>8, <1>9, <1>10, <1>11, Zenon DEF HedgeInv, CopyReturns

\* HedgeN takes a result.
LEMMA OnResultStep == HedgeInv /\ OnResult => HedgeInv'
<1> SUFFICES ASSUME HedgeInv, OnResult PROVE HedgeInv'
  BY Zenon
<1>1. /\ resultCh' \in Seq(BOOLEAN) /\ Len(resultCh') = Len(resultCh) - 1 /\ Len(resultCh) > 0
      /\ Len(resultCh) \in Nat /\ Head(resultCh) \in BOOLEAN
  BY TakeResult, Zenon DEF OnResult
<1>2. /\ hedgePc = "select" /\ hedgeMode = "hedgeN" /\ hedgeMode' = "hedgeN" /\ hedgeCtx' = hedgeCtx
      /\ outstanding = ToCome /\ drain = 0 /\ hedgeAnswer = "none" /\ Len(copy) = Copies
  BY Zenon DEF OnResult, HedgeInv, HedgeType
<1>3. FiredTotal \in Nat /\ Copies \in Nat /\ FiredTotal <= Copies /\ FiredTotal >= 1
  BY <1>2, HedgeAssumption DEF HedgeInv
<1>4. outstanding \in Nat /\ outstanding >= 1
  <2>1. Cardinality(Running) \in Nat
    BY RunningCopies, Zenon
  <2> QED
    BY <1>1, <1>2, <2>1 DEF ToCome
<1>5. \/ outstanding' = outstanding - 1 /\ HedgeReturn("ok", outstanding - 1, FiredCopies) /\ UNCHANGED copy
      \/ /\ FiredTotal < Copies /\ copy' = [copy EXCEPT ![FiredTotal + 1] = "running"]
         /\ UNCHANGED <<hedgePc, hedgeAnswer, drain, cancelled, outstanding>>
      \/ /\ outstanding > 1 /\ outstanding' = outstanding - 1
         /\ UNCHANGED <<hedgePc, hedgeAnswer, drain, cancelled, copy>>
      \/ FiredTotal = Copies /\ outstanding = 1 /\ outstanding' = 0 /\ HedgeReturn("failed", 0, {}) /\ UNCHANGED copy
  BY Zenon DEF OnResult
<1>6. CASE outstanding' = outstanding - 1 /\ HedgeReturn("ok", outstanding - 1, FiredCopies) /\ UNCHANGED copy
  <2>1. /\ UNCHANGED copy /\ outstanding' = outstanding - 1 /\ drain' = outstanding - 1 /\ hedgePc' = "over"
        /\ hedgeAnswer' = "ok" /\ cancelled' = cancelled \cup FiredCopies
    BY <1>6, Zenon DEF HedgeReturn
  <2>2. Running' = Running /\ FiredTotal' = FiredTotal /\ FiredCopies' = FiredCopies
    BY <2>1, Zenon DEF Running, FiredTotal, FiredCopies
  <2>3. ToCome' = ToCome - 1 /\ outstanding' \in Nat
    BY <1>1, <1>2, <2>1, <2>2, RunningCopies DEF ToCome
  <2>4. Running' \subseteq cancelled'
    BY <2>1, <2>2, RunningCopies, Zenon
  <2>5. HedgeType'
    BY <1>1, <1>2, <2>1, <2>3, Zenon DEF HedgeInv, HedgeType
  <2> QED
    BY <1>2, <2>1, <2>2, <2>3, <2>4, <2>5, RunningCopies DEF HedgeInv
<1>7. CASE /\ FiredTotal < Copies /\ copy' = [copy EXCEPT ![FiredTotal + 1] = "running"]
           /\ UNCHANGED <<hedgePc, hedgeAnswer, drain, cancelled, outstanding>>
  <2>2. /\ copy' \in Seq({"unfired", "running", "reported"}) /\ Len(copy') = Len(copy)
        /\ Cardinality(Running') = Cardinality(Running) + 1
        /\ FiredTotal' = FiredTotal + 1 /\ FiredCopies' = 1..FiredTotal'
    BY <1>2, <1>7, FireNext, Zenon
  <2>3. ToCome' = ToCome
    BY <1>1, <2>2, RunningCopies DEF ToCome
  <2>4. HedgeType'
    BY <1>1, <1>2, <1>7, <2>2, Zenon DEF HedgeInv, HedgeType
  <2>5. FiredTotal' \in 1..Len(copy')
    BY <1>2, <1>7, <1>3, <2>2
  <2> QED
    BY <1>2, <1>7, <1>3, <1>4, <2>2, <2>3, <2>4, <2>5 DEF HedgeInv
<1>8. CASE /\ outstanding > 1 /\ outstanding' = outstanding - 1
           /\ UNCHANGED <<hedgePc, hedgeAnswer, drain, cancelled, copy>>
  <2>1. Running' = Running /\ FiredTotal' = FiredTotal /\ FiredCopies' = FiredCopies
    BY <1>8, Zenon DEF Running, FiredTotal, FiredCopies
  <2>2. ToCome' = ToCome - 1
    BY <1>1, <1>2, <2>1, RunningCopies DEF ToCome
  <2>3. HedgeType'
    BY <1>1, <1>2, <1>8, <1>4 DEF HedgeInv, HedgeType
  <2> QED
    BY <1>2, <1>8, <1>4, <2>1, <2>2, <2>3 DEF HedgeInv
<1>9. CASE FiredTotal = Copies /\ outstanding = 1 /\ outstanding' = 0 /\ HedgeReturn("failed", 0, {}) /\ UNCHANGED copy
  <2>1. hedgePc' = "over" /\ drain' = 0 /\ hedgeAnswer' = "failed"
    BY <1>9, Zenon DEF HedgeReturn
  <2>2. Running = {}
    <3>1. Cardinality(Running) = 0
      BY <1>1, <1>2, <1>9, RunningCopies DEF ToCome
    <3> QED
      BY <3>1, RunningCopies, FS_EmptySet, Zenon
  <2>3. \A i \in DOMAIN copy : copy[i] = "reported"
    <3> SUFFICES ASSUME NEW i \in DOMAIN copy PROVE copy[i] = "reported"
      BY Zenon
    <3>1. i \in FiredCopies
      BY <1>2, <1>9, RunningCopies, Zenon DEF HedgeInv
    <3>2. copy[i] # "unfired" /\ copy[i] # "running"
      BY <2>2, <3>1, Zenon DEF FiredCopies, Running
    <3>3. copy[i] \in {"unfired", "running", "reported"}
      BY RunningCopies DEF HedgeInv, HedgeType
    <3> QED
      BY <3>2, <3>3, Zenon
  <2>4. HedgeType'
    BY <1>1, <1>2, <1>9, <2>1, Zenon DEF HedgeInv, HedgeType
  <2>5. Running' = {} /\ FiredTotal' = FiredTotal /\ FiredCopies' = FiredCopies
    BY <1>9, <2>2, Zenon DEF Running, FiredTotal, FiredCopies
  <2>6. ToCome' = 0
    BY <1>1, <1>2, <1>9, <2>2, <2>5, FS_EmptySet DEF ToCome
  <2> QED
    BY <1>2, <1>9, <1>3, <2>1, <2>3, <2>4, <2>5, <2>6 DEF HedgeInv
<1> QED
  BY <1>6, <1>7, <1>8, <1>9, <1>5, Zenon

\* Hedge and timeout.Do answer: with what is left running cancelled, or after
\* the caller's context.
LEMMA AnswerStep ==
  ASSUME HedgeInv, NEW a, NEW left \in {0, 1}, NEW cs, HedgeReturn(a, left, cs),
         UNCHANGED <<hedgeMode, copy, hedgeCtx>>, hedgePc # "over",
         hedgeMode # "hedgeN" \/ a # "failed",
         cs = FiredCopies \/ hedgeCtx = "done",
         \/ resultCh # <<>> /\ resultCh' = Tail(resultCh) /\ outstanding' = outstanding - 1
         \/ UNCHANGED <<resultCh, outstanding>>,
         left = 1 => hedgePc = "await"
  PROVE  HedgeInv'
<1>1. hedgePc' = "over" /\ hedgeAnswer' = a /\ drain' = left /\ cancelled' = cancelled \cup cs
  BY Zenon DEF HedgeReturn
<1>2. Running' = Running /\ FiredTotal' = FiredTotal /\ FiredCopies' = FiredCopies
  BY Zenon DEF Running, FiredTotal, FiredCopies
<1>3. outstanding = ToCome /\ Cardinality(Running) \in Nat /\ Len(resultCh) \in Nat /\ FiredTotal \in Nat
  BY RunningCopies, Zenon DEF HedgeInv
<1>4. /\ resultCh' \in Seq(BOOLEAN) /\ outstanding' \in Nat
      /\ ToCome' \in Nat /\ ToCome' <= ToCome /\ ToCome' >= ToCome - 1
  <2>1. CASE resultCh # <<>> /\ resultCh' = Tail(resultCh) /\ outstanding' = outstanding - 1
    <3>1. resultCh' \in Seq(BOOLEAN) /\ Len(resultCh') = Len(resultCh) - 1 /\ Len(resultCh) > 0
      BY <2>1, TakeResult, Zenon
    <3>2. ToCome' = ToCome - 1
      BY <1>2, <1>3, <3>1 DEF ToCome
    <3>3. ToCome \in Nat /\ ToCome > 0
      BY <1>3, <3>1 DEF ToCome
    <3>4. outstanding' = ToCome - 1
      BY <1>3, <2>1, Zenon
    <3> QED
      BY <3>1, <3>2, <3>3, <3>4
  <2>2. CASE UNCHANGED <<resultCh, outstanding>>
    <3>1. resultCh \in Seq(BOOLEAN) /\ outstanding \in Nat
      BY Zenon DEF HedgeInv, HedgeType
    <3> QED
      BY <1>2, <1>3, <2>2, <3>1 DEF ToCome
  <2> QED
    BY <2>1, <2>2, Zenon
<1>5. left <= ToCome'
  BY <1>3, <1>4 DEF HedgeInv, ToCome
<1>6. HedgeType'
  BY <1>1, <1>4 DEF HedgeInv, HedgeType
<1>7. hedgeCtx' = "done" \/ Running' \subseteq cancelled'
  BY <1>1, <1>2, RunningCopies, Zenon
<1>8. ToCome' <= FiredTotal'
  BY <1>2, <1>3, <1>4 DEF HedgeInv, ToCome
<1>9. ~(hedgeMode' = "hedgeN" /\ hedgeAnswer' = "failed")
  BY <1>1, Zenon
<1> QED
  BY <1>1, <1>2, <1>5, <1>6, <1>7, <1>8, <1>9, Zenon DEF HedgeInv

\* The hedge delay passes.
LEMMA OnTimerStep == HedgeInv /\ OnTimer => HedgeInv'
<1> SUFFICES ASSUME HedgeInv, OnTimer PROVE HedgeInv'
  OBVIOUS
<1>1. /\ hedgePc = "select" /\ hedgePc' = (IF hedgeMode = "hedge" THEN "await" ELSE hedgePc)
      /\ UNCHANGED <<hedgeMode, cancelled, resultCh, hedgeCtx, drain, hedgeAnswer>>
  BY Zenon DEF OnTimer
<1>2. /\ FiredTotal \in Nat /\ Len(copy) \in Nat /\ Cardinality(Running) \in Nat /\ Len(resultCh) \in Nat
      /\ FiredTotal <= Len(copy) /\ FiredTotal >= 1
  BY RunningCopies DEF HedgeInv
<1>3. outstanding = ToCome /\ drain = 0 /\ hedgeAnswer = "none" /\ (hedgeMode = "hedge" => FiredTotal = 1 /\ Len(copy) = 2)
  BY <1>1, Zenon DEF HedgeInv, HedgeType
<1>4. CASE FiredTotal < Len(copy)
  <2>1. copy' = [copy EXCEPT ![FiredTotal + 1] = "running"] /\ outstanding' = outstanding + 1
    BY <1>4, Zenon DEF OnTimer
  <2>2. /\ copy' \in Seq({"unfired", "running", "reported"}) /\ Len(copy') = Len(copy)
        /\ Cardinality(Running') = Cardinality(Running) + 1
        /\ FiredTotal' = FiredTotal + 1 /\ FiredCopies' = 1..FiredTotal'
    BY <1>4, <2>1, FireNext, Zenon
  <2>3. ToCome' = ToCome + 1 /\ ToCome \in Nat
    BY <1>1, <1>2, <2>2 DEF ToCome
  <2>4. HedgeType'
    BY <1>1, <1>3, <2>1, <2>2, <2>3 DEF HedgeInv, HedgeType
  <2>5. FiredTotal' \in 1..Len(copy')
    BY <1>2, <1>4, <2>2
  <2> QED
    BY <1>1, <1>2, <1>3, <2>1, <2>2, <2>3, <2>4, <2>5 DEF HedgeInv
<1>5. CASE ~(FiredTotal < Len(copy))
  <2>1. UNCHANGED <<copy, outstanding>>
    BY <1>5, Zenon DEF OnTimer
  <2>2. hedgeMode # "hedge" /\ hedgePc' = "select"
    <3>1. hedgeMode # "hedge"
      BY <1>3, <1>5
    <3> QED
      BY <1>1, <3>1, Zenon
  <2>3. Running' = Running /\ FiredTotal' = FiredTotal /\ FiredCopies' = FiredCopies
    BY <2>1, Zenon DEF Running, FiredTotal, FiredCopies
  <2>4. ToCome' = ToCome
    BY <1>1, <2>3, Zenon DEF ToCome
  <2>5. HedgeType'
    BY <1>1, <2>1, <2>2, Zenon DEF HedgeInv, HedgeType
  <2> QED
    BY <1>1, <1>3, <2>1, <2>2, <2>3, <2>4, <2>5, Zenon DEF HedgeInv
<1> QED
  BY <1>4, <1>5, Zenon

\* Hedge, HedgeN and timeout.Do, for any number of copies: whatever order the
\* copies, the delays, the caller's context and the draining goroutine come in,
\* nothing that still runs keeps a live context, no report finds the buffer
\* full, none is waited for in vain, and HedgeN fails after all its attempts.
THEOREM HedgesSettle == HedgeSpec => []HedgeSettles
<1>1. HedgeInit => HedgeInv
  <2> SUFFICES ASSUME HedgeInit PROVE HedgeInv
    OBVIOUS
  <2>1. PICK n \in Nat \ {0} : n = (CASE hedgeMode = "hedge" -> 2 [] hedgeMode = "hedgeN" -> Copies [] OTHER -> 1)
    BY HedgeAssumption DEF HedgeInit
  <2>2. copy = [i \in 1..n |-> IF i = 1 THEN "running" ELSE "unfired"]
    BY <2>1, Zenon DEF HedgeInit
  <2>3. copy \in Seq({"unfired", "running", "reported"}) /\ Len(copy) = n /\ DOMAIN copy = 1..n
    BY <2>2
  <2>4. Running = {1} /\ FiredCopies = {1} /\ FiredTotal = Cardinality({1}) /\ 1..1 = {1}
    <3>1. \A i \in 1..n : (copy[i] = "running" <=> i = 1) /\ (copy[i] # "unfired" <=> i = 1)
      BY <2>2, Zenon
    <3>2. 1 \in 1..n /\ 1..1 = {1}
      OBVIOUS
    <3> QED
      BY <2>3, <3>1, <3>2, Zenon DEF Running, FiredCopies, FiredTotal
  <2>5. FiredTotal = 1 /\ Cardinality(Running) = 1
    BY <2>4, FS_Singleton, Zenon
  <2>6. ToCome = 1 /\ resultCh = <<>> /\ resultCh \in Seq(BOOLEAN)
    BY <2>5 DEF ToCome, HedgeInit
  <2>7. HedgeType
    BY <2>1, <2>3, <2>6, Zenon DEF HedgeInit, HedgeType
  <2>8. FiredTotal \in 1..Len(copy) /\ FiredCopies = 1..FiredTotal
    BY <2>3, <2>4, <2>5
  <2>9. hedgePc = "select" /\ outstanding = 1 /\ drain = 0 /\ hedgeAnswer = "none"
    BY Zenon DEF HedgeInit
  <2> QED
    BY <2>5, <2>6, <2>7, <2>8, <2>9 DEF HedgeInv
<1>2. HedgeInv /\ [HedgeNext]_hedgeVars => HedgeInv'
  <2> SUFFICES ASSUME HedgeInv, [HedgeNext]_hedgeVars PROVE HedgeInv'
    OBVIOUS
  <2>1. CASE FirstResult
    <3>1. PICK a : HedgeReturn(a, IF hedgePc = "await" THEN 1 ELSE 0, FiredCopies)
      BY <2>1, Zenon DEF FirstResult
    <3>2. PICK left \in {0, 1} : HedgeReturn(a, left, FiredCopies) /\ (left = 1 => hedgePc = "await")
      BY <3>1
    <3>3. /\ UNCHANGED <<hedgeMode, copy, hedgeCtx>> /\ hedgePc # "over" /\ hedgeMode # "hedgeN"
          /\ resultCh # <<>> /\ resultCh' = Tail(resultCh) /\ outstanding' = outstanding - 1
      BY <2>1, Zenon DEF FirstResult
    <3> QED
      BY <3>2, <3>3, AnswerStep, Zenon
  <2>2. CASE OnContext
    BY <2>2, AnswerStep DEF OnContext
  <2>3. CASE TimeoutDo
    <3>1. PICK a : HedgeReturn(a, 0, FiredCopies)
      BY <2>3, Zenon DEF TimeoutDo
    <3>2. /\ UNCHANGED <<hedgeMode, copy, hedgeCtx>> /\ hedgePc # "over" /\ hedgeMode # "hedgeN"
          /\ \/ resultCh # <<>> /\ resultCh' = Tail(resultCh) /\ outstanding' = outstanding - 1
             \/ UNCHANGED <<resultCh, outstanding>>
      BY <2>3, Zenon DEF TimeoutDo
    <3> QED
      BY <3>1, <3>2, AnswerStep
  <2>4. CASE Drain
    <3>1. resultCh' \in Seq(BOOLEAN) /\ Len(resultCh') = Len(resultCh) - 1 /\ Len(resultCh) > 0 /\ Len(resultCh) \in Nat
      BY <2>4, TakeResult, Zenon DEF Drain
    <3>2. Running' = Running /\ FiredTotal' = FiredTotal /\ FiredCopies' = FiredCopies
      BY <2>4, Zenon DEF Drain, Running, FiredTotal, FiredCopies
    <3>3. ToCome' = ToCome - 1 /\ ToCome \in Nat /\ FiredTotal \in Nat
      BY <3>1, <3>2, RunningCopies DEF ToCome
    <3>4. hedgePc = "over"
      BY <2>4 DEF Drain, HedgeInv
    <3>5. HedgeType'
      BY <2>4, <3>1 DEF Drain, HedgeInv, HedgeType
    <3>6. drain' <= ToCome' /\ ToCome' <= FiredTotal'
      BY <2>4, <3>2, <3>3 DEF Drain, HedgeInv, HedgeType
    <3> QED
      BY <2>4, <3>2, <3>4, <3>5, <3>6, Zenon DEF Drain, HedgeInv
  <2>5. CASE ContextEnds
    <3>1. Running' = Running /\ FiredTotal' = FiredTotal /\ FiredCopies' = FiredCopies /\ ToCome' = ToCome
      BY <2>5, Zenon DEF ContextEnds, Running, FiredTotal, FiredCopies, ToCome
    <3> QED
      BY <2>5, <3>1, Zenon DEF ContextEnds, HedgeInv, HedgeType
  <2>6. CASE UNCHANGED hedgeVars
    <3>1. Running' = Running /\ FiredTotal' = FiredTotal /\ FiredCopies' = FiredCopies /\ ToCome' = ToCome
      BY <2>6, Zenon DEF hedgeVars, Running, FiredTotal, FiredCopies, ToCome
    <3> QED
      BY <2>6, <3>1, Zenon DEF hedgeVars, HedgeInv, HedgeType
  <2> QED
    BY <2>1, <2>2, <2>3, <2>4, <2>5, <2>6, CopyReturnsStep, OnResultStep, OnTimerStep, Zenon DEF HedgeNext
<1>3. HedgeInv => HedgeSettles
  <2> SUFFICES ASSUME HedgeInv PROVE HedgeSettles
    BY Zenon
  <2>1. FiredTotal <= Len(copy) /\ FiredTotal \in Nat /\ Len(copy) \in Nat /\ ToCome \in Nat
    BY RunningCopies DEF HedgeInv
  <2> QED
    BY <2>1 DEF HedgeInv, HedgeSettles, ToCome
<1> QED
  BY <1>1, <1>2, <1>3, PTL DEF HedgeSpec

-----------------------------------------------------------------------------
(* The concurrency limiter                                                  *)

\* A goroutine about to swap has loaded a counter below some limit.
SwapInv == \A c \in Callers : At(c, "cas") => call[c].cur < MaxLimit

\* The inductive invariant.
Inv == TypeOK /\ SlotsAccounted /\ SwapInv

\* The slot holders form a finite set.
LEMMA HoldersFinite == IsFiniteSet(Holders) /\ Cardinality(Holders) \in Nat
BY LimitAssumption, FS_Subset, FS_CardinalityType, Zenon DEF Holders

-----------------------------------------------------------------------------
(* Lemmas about the calls.                                                  *)

\* The records a call starts from and ends with.
LEMMA ReturnTypes ==
  NoCall \in CallRecord /\ Held \in CallRecord /\ [Held EXCEPT !.done = TRUE] \in CallRecord
BY Zenon DEF NoCall, Held, CallRecord, Labels

\* ... and what they hold.
LEMMA ReturnFields ==
  /\ NoCall.at = "idle" /\ Held.at = "held" /\ ~Held.done
  /\ [Held EXCEPT !.done = TRUE].at = "held" /\ [Held EXCEPT !.done = TRUE].done
BY Zenon DEF NoCall, Held

\* The ways in which a step changes the locals of its own call.
OwnCall(c) ==
  \/ \E r \in {NoCall, Held} : call' = [call EXCEPT ![c] = r]
  \/ \E l \in Labels : call' = [call EXCEPT ![c].at = l]
  \/ \E l \in Labels, n \in {0, inflight} : call' = [call EXCEPT ![c].at = l, ![c].cur = n]
  \/ \E l \in Labels : call' = [call EXCEPT ![c].at = l, ![c].done = TRUE]

\* Each of them keeps the types.
LEMMA OwnCallType ==
  ASSUME TypeOK, NEW c \in Callers, OwnCall(c)
  PROVE  call' \in [Callers -> CallRecord]
<1>1. CASE \E r \in {NoCall, Held} : call' = [call EXCEPT ![c] = r]
  BY <1>1, ReturnTypes, Zenon DEF TypeOK
<1>2. CASE \E l \in Labels : call' = [call EXCEPT ![c].at = l]
  BY <1>2, ZenonT(60) DEF TypeOK, CallRecord
<1>3. CASE \E l \in Labels, n \in {0, inflight} : call' = [call EXCEPT ![c].at = l, ![c].cur = n]
  <2>1. PICK l \in Labels, n \in {0, inflight} : call' = [call EXCEPT ![c].at = l, ![c].cur = n]
    BY <1>3, Zenon
  <2>2. n \in Nat
    BY DEF TypeOK
  <2>3. [call EXCEPT ![c].at = l, ![c].cur = n] \in [Callers -> CallRecord]
    BY <2>2, ZenonT(60) DEF TypeOK, CallRecord
  <2> QED BY <2>1, <2>3, Zenon
<1>4. CASE \E l \in Labels : call' = [call EXCEPT ![c].at = l, ![c].done = TRUE]
  <2>1. PICK l \in Labels : call' = [call EXCEPT ![c].at = l, ![c].done = TRUE]
    BY <1>4, Zenon
  <2>2. [call EXCEPT ![c].at = l, ![c].done = TRUE] \in [Callers -> CallRecord]
    BY ZenonT(60) DEF TypeOK, CallRecord
  <2> QED BY <2>1, <2>2, Zenon
<1> QED BY <1>1, <1>2, <1>3, <1>4, Zenon DEF OwnCall

\* A broadcast moves the parked goroutines and leaves the others alone.
LEMMA WokenCalls ==
  ASSUME call \in [Callers -> CallRecord]
  PROVE  /\ Woken \in [Callers -> CallRecord]
         /\ \A c \in Callers :
              /\ Woken[c].at = IF At(c, "parked") THEN "woken" ELSE call[c].at
              /\ Woken[c].cur = call[c].cur
              /\ Woken[c].done = call[c].done
<1>1. ASSUME NEW c \in Callers
      PROVE  /\ Woken[c] \in CallRecord
             /\ Woken[c].at = IF At(c, "parked") THEN "woken" ELSE call[c].at
             /\ Woken[c].cur = call[c].cur
             /\ Woken[c].done = call[c].done
  <2>1. call[c] \in CallRecord
    BY Zenon
  <2>2. Woken[c] = IF At(c, "parked") THEN [call[c] EXCEPT !.at = "woken"] ELSE call[c]
    BY Zenon DEF Woken
  <2> QED BY <2>1, <2>2, Zenon DEF CallRecord, Labels
<1>2. Woken = [c \in Callers |-> Woken[c]]
  BY Zenon DEF Woken
<1> QED BY <1>1, <1>2, Zenon

(***************************************************************************)
(* Every step but the compare-and-swap and the decrement leaves the set of *)
(* holders alone: a ReleaseFunc called again holds nothing.                *)
(***************************************************************************)
LEMMA HoldersKept ==
  ASSUME TypeOK, NEW c \in Callers,
         \/ Begin(c) \/ CheckCtx(c) \/ LoadInflight(c) \/ CheckLimit(c) \/ RecheckInflight(c)
         \/ RecheckLimit(c) \/ Park(c) \/ Finish(c) \/ InstallLimit(c) \/ Broadcast(c)
         \/ TakeMutex(c) \/ Cancel(c) \/ Watch(c)
  PROVE  Holders' = Holders
<1>1. CASE LoadInflight(c)
  BY <1>1, Zenon DEF TypeOK, CallRecord, Holders, At, LoadInflight
<1>2. CASE CheckLimit(c)
  BY <1>2 DEF TypeOK, CallRecord, Holders, At, CheckLimit, AcquireFails, Return, Goto, NoCall
<1>3. CASE RecheckInflight(c)
  BY <1>3, Zenon DEF TypeOK, CallRecord, Holders, At, RecheckInflight
<1>4. CASE RecheckLimit(c)
  BY <1>4 DEF TypeOK, CallRecord, Holders, At, RecheckLimit, Goto, Return, NoCall
<1>5. CASE Park(c)
  BY <1>5, Zenon DEF TypeOK, CallRecord, Holders, At, Park, Goto
<1>6. CASE Finish(c)
  BY <1>6 DEF TypeOK, CallRecord, Holders, At, Finish, Return, NoCall
<1>7. CASE InstallLimit(c)
  BY <1>7 DEF TypeOK, CallRecord, Holders, At, InstallLimit, Goto
<1>8. CASE Broadcast(c)
  <2>1. PICK after \in {NoCall, [Held EXCEPT !.done = TRUE]} : call' = [Woken EXCEPT ![c] = after]
    BY <1>8, Zenon DEF Broadcast
  <2>2. \A d \in Callers \ {c} : call'[d] = Woken[d]
    BY <2>1, WokenCalls, Zenon DEF TypeOK
  <2>3. call'[c] = after /\ (after.at = "idle" \/ after.done)
    BY <2>1, WokenCalls, ReturnFields, Zenon DEF TypeOK
  <2>4. after.at # "decrement"
    BY <2>1, ReturnFields, Zenon
  <2> QED BY <1>8, <2>2, <2>3, <2>4, WokenCalls DEF TypeOK, Holders, At, Broadcast
<1>9. CASE Lock(c)
  BY <1>9 DEF TypeOK, CallRecord, Holders, At, Lock, Goto
<1>10. CASE Wake(c)
  BY <1>10 DEF TypeOK, CallRecord, Holders, At, Wake, Goto
<1>11. CASE WatcherBroadcasts(c)
  BY <1>11, Zenon DEF TypeOK, CallRecord, Holders, At, WatcherBroadcasts, Woken
<1>12. CASE WatcherStops(c)
  BY <1>12, Zenon DEF TypeOK, CallRecord, Holders, At, WatcherStops
<1>13. CASE Begin(c)
  BY <1>13, ZenonT(60) DEF TypeOK, CallRecord, Holders, At, Begin, Goto
<1>14. CASE Cancel(c)
  BY <1>14, Zenon DEF TypeOK, CallRecord, Holders, At, Cancel
<1>15. CASE CheckCtx(c)
  BY <1>15 DEF TypeOK, CallRecord, Holders, At, CheckCtx, AcquireFails, Return, Goto, NoCall
<1> QED BY <1>1, <1>2, <1>3, <1>4, <1>5, <1>6, <1>7, <1>8, <1>9, <1>10, <1>11, <1>12, <1>13, <1>14, <1>15 DEF TakeMutex, Watch

-----------------------------------------------------------------------------
(* The step of the inductive invariant, conjunct by conjunct.              *)

\* Every step keeps the types; a decrement finds the counter positive.
LEMMA TypeStep ==
  ASSUME Inv, [Next]_vars
  PROVE  TypeOK'
<1>1. CASE UNCHANGED vars
  BY <1>1, Zenon DEF Inv, TypeOK, vars
<1>2. ASSUME NEW c \in Callers,
             Begin(c) \/ Step(c) \/ TakeMutex(c) \/ Cancel(c) \/ Watch(c)
      PROVE  TypeOK'
  <2>1. CASE LoadInflight(c)
    <3>1. OwnCall(c)
      BY <2>1, Zenon DEF OwnCall, Labels, LoadInflight
    <3>2. call' \in [Callers -> CallRecord]
      BY <3>1, OwnCallType, Zenon DEF Inv
    <3> QED BY <2>1, <3>2, LimitAssumption, ZenonT(60) DEF Inv, TypeOK, LoadInflight
  <2>2. CASE CheckLimit(c)
    <3>1. OwnCall(c)
      BY <2>2, Zenon DEF OwnCall, Labels, CheckLimit, AcquireFails, Return, Goto
    <3>2. call' \in [Callers -> CallRecord]
      BY <3>1, OwnCallType DEF Inv
    <3> QED BY <2>2, <3>2, LimitAssumption, Zenon DEF Inv, TypeOK, CheckLimit, AcquireFails, Return, Goto
  <2>3. CASE AcquireSlot(c)
    <3>1. OwnCall(c)
      BY <2>3, Zenon DEF OwnCall, Labels, AcquireSlot, Goto
    <3>2. call' \in [Callers -> CallRecord]
      BY <3>1, OwnCallType DEF Inv
    <3> QED BY <2>3, <3>2, LimitAssumption DEF Inv, TypeOK, AcquireSlot, Goto
  <2>4. CASE RecheckInflight(c)
    <3>1. OwnCall(c)
      BY <2>4, Zenon DEF OwnCall, Labels, RecheckInflight
    <3>2. call' \in [Callers -> CallRecord]
      BY <3>1, OwnCallType DEF Inv
    <3> QED BY <2>4, <3>2, LimitAssumption, Zenon DEF Inv, TypeOK, RecheckInflight
  <2>5. CASE RecheckLimit(c)
    <3>1. OwnCall(c)
      BY <2>5, Zenon DEF OwnCall, Labels, RecheckLimit, Goto, Return
    <3>2. call' \in [Callers -> CallRecord]
      BY <3>1, OwnCallType DEF Inv
    <3> QED BY <2>5, <3>2, LimitAssumption, Zenon DEF Inv, TypeOK, RecheckLimit, Goto, Return
  <2>6. CASE Park(c)
    <3>1. OwnCall(c)
      BY <2>6, Zenon DEF OwnCall, Labels, Park, Goto
    <3>2. call' \in [Callers -> CallRecord]
      BY <3>1, OwnCallType DEF Inv
    <3> QED BY <2>6, <3>2, LimitAssumption, Zenon DEF Inv, TypeOK, Park, Goto
  <2>7. CASE Finish(c)
    <3>1. OwnCall(c)
      BY <2>7, Zenon DEF OwnCall, Labels, Finish, Return
    <3>2. call' \in [Callers -> CallRecord]
      BY <3>1, OwnCallType DEF Inv
    <3> QED BY <2>7, <3>2, LimitAssumption, Zenon DEF Inv, TypeOK, Finish, Return
  <2>8. CASE Decrement(c)
    <3>1. c \in Holders
      BY <2>8, ZenonT(60) DEF Decrement, At, Holders
    <3>2. inflight - 1 \in Nat
      BY <3>1, HoldersFinite, FS_EmptySet DEF Inv, TypeOK, SlotsAccounted
    <3>3. OwnCall(c)
      BY <2>8, Zenon DEF OwnCall, Labels, Decrement, Goto
    <3> QED BY <2>8, <3>2, <3>3, OwnCallType, Zenon DEF Inv, TypeOK, Decrement
  <2>9. CASE InstallLimit(c)
    <3>1. OwnCall(c)
      BY <2>9, Zenon DEF OwnCall, Labels, InstallLimit, Goto
    <3>2. call' \in [Callers -> CallRecord]
      BY <3>1, OwnCallType DEF Inv
    <3> QED BY <2>9, <3>2, LimitAssumption, Zenon DEF Inv, TypeOK, InstallLimit, Goto
  <2>10. CASE Broadcast(c)
    <3>1. call' \in [Callers -> CallRecord]
      BY <2>10, WokenCalls, ReturnTypes, ZenonT(60) DEF Inv, TypeOK, Broadcast
    <3> QED BY <2>10, <3>1, Zenon DEF Inv, TypeOK, Broadcast
  <2>11. CASE Lock(c)
    <3>1. OwnCall(c)
      BY <2>11, Zenon DEF OwnCall, Labels, Lock, Goto
    <3>2. call' \in [Callers -> CallRecord]
      BY <3>1, OwnCallType DEF Inv
    <3> QED BY <2>11, <3>2, LimitAssumption, Zenon DEF Inv, TypeOK, Lock, Goto
  <2>12. CASE Wake(c)
    <3>1. OwnCall(c)
      BY <2>12, Zenon DEF OwnCall, Labels, Wake, Goto
    <3>2. call' \in [Callers -> CallRecord]
      BY <3>1, OwnCallType DEF Inv
    <3> QED BY <2>12, <3>2, LimitAssumption, Zenon DEF Inv, TypeOK, Wake, Goto
  <2>13. CASE WatcherBroadcasts(c)
    BY <2>13, WokenCalls, Zenon DEF Inv, TypeOK, WatcherBroadcasts
  <2>14. CASE WatcherStops(c)
    BY <2>14, Zenon DEF Inv, TypeOK, WatcherStops
  <2>15. CASE Begin(c)
    <3>1. OwnCall(c)
      BY <2>15, Zenon DEF OwnCall, Labels, Begin, Goto
    <3>2. call' \in [Callers -> CallRecord]
      BY <3>1, OwnCallType DEF Inv
    <3> QED BY <2>15, <3>2, LimitAssumption, Zenon DEF Inv, TypeOK, Begin, Goto
  <2>16. CASE Cancel(c)
    <3>1. call' = [call EXCEPT ![c].ctxDone = TRUE]
      BY <2>16, Zenon DEF Cancel
    <3>2. [call EXCEPT ![c].ctxDone = TRUE] \in [Callers -> CallRecord]
      BY ZenonT(60) DEF Inv, TypeOK, CallRecord
    <3>3. call' \in [Callers -> CallRecord]
      BY <3>1, <3>2, Zenon
    <3> QED BY <2>16, <3>3, Zenon DEF Inv, TypeOK, Cancel
  <2>17. CASE CheckCtx(c)
    <3>1. OwnCall(c)
      BY <2>17, Zenon DEF OwnCall, Labels, CheckCtx, AcquireFails, Return, Goto
    <3>2. call' \in [Callers -> CallRecord]
      BY <3>1, OwnCallType DEF Inv
    <3> QED BY <2>17, <3>2, LimitAssumption, Zenon DEF Inv, TypeOK, CheckCtx, AcquireFails, Return, Goto
  <2> QED BY <1>2, <2>1, <2>2, <2>3, <2>4, <2>5, <2>6, <2>7, <2>8, <2>9, <2>10, <2>11, <2>12, <2>13, <2>14, <2>15, <2>16, <2>17, Zenon DEF Step, TakeMutex, Watch
<1> QED BY <1>1, <1>2, Zenon DEF Next

\* Slots are taken and given back one for one, and never past MaxLimit.
LEMMA SlotStep ==
  ASSUME Inv, [Next]_vars
  PROVE  SlotsAccounted'
<1>1. CASE UNCHANGED vars
  BY <1>1, Zenon DEF Inv, SlotsAccounted, Holders, At, vars
<1>2. ASSUME NEW c \in Callers,
             Begin(c) \/ Step(c) \/ TakeMutex(c) \/ Cancel(c) \/ Watch(c)
      PROVE  SlotsAccounted'
  <2>1. CASE AcquireSlot(c)
    <3>1. CASE inflight = call[c].cur
      <4>1. Holders' = Holders \cup {c} /\ c \notin Holders
        BY <2>1, <3>1 DEF Inv, TypeOK, AcquireSlot, At, Held, NoCall, Holders
      <4>2. Cardinality(Holders') = Cardinality(Holders) + 1
        BY <4>1, HoldersFinite, FS_AddElement, Zenon
      <4>3. inflight < MaxLimit /\ inflight' = inflight + 1
        BY <2>1, <3>1, Zenon DEF Inv, SwapInv, AcquireSlot
      <4> QED BY <4>2, <4>3, LimitAssumption DEF Inv, TypeOK, SlotsAccounted
    <3>2. CASE inflight # call[c].cur
      <4>1. Holders' = Holders
        BY <2>1, <3>2 DEF Inv, TypeOK, CallRecord, AcquireSlot, At, Goto, Holders
      <4> QED BY <2>1, <3>2, <4>1, Zenon DEF Inv, SlotsAccounted, AcquireSlot
    <3> QED BY <3>1, <3>2, Zenon
  <2>2. CASE Decrement(c)
    <3>1. Holders' = Holders \ {c} /\ c \in Holders
      BY <2>2 DEF Inv, TypeOK, Decrement, At, Goto, Holders
    <3>2. Cardinality(Holders') = Cardinality(Holders) - 1
      BY <3>1, HoldersFinite, FS_RemoveElement, Zenon
    <3> QED BY <2>2, <3>2, HoldersFinite, LimitAssumption
        DEF Inv, TypeOK, SlotsAccounted, Decrement
  <2>3. CASE ~AcquireSlot(c) /\ ~Decrement(c)
    <3>1. Holders' = Holders
      BY <1>2, <2>3, HoldersKept, Zenon DEF Inv, Step
    <3>2. inflight' = inflight
      BY <1>2, <2>3, Zenon DEF Step, TakeMutex, Watch, Begin, CheckCtx, LoadInflight, CheckLimit, RecheckInflight,
        RecheckLimit, Park, Finish, InstallLimit, Broadcast, Lock, Wake, Cancel,
        WatcherBroadcasts, WatcherStops
    <3> QED BY <3>1, <3>2, Zenon DEF Inv, SlotsAccounted
  <2> QED BY <2>1, <2>2, <2>3, Zenon
<1> QED BY <1>1, <1>2 DEF Next

\* The compare-and-swap is reached only below a limit, hence below MaxLimit.
LEMMA SwapStep ==
  ASSUME Inv, [Next]_vars
  PROVE  SwapInv'
<1>1. CASE UNCHANGED vars
  BY <1>1, ZenonT(60) DEF Inv, SwapInv, At, vars
<1>2. ASSUME NEW c \in Callers,
             Begin(c) \/ Step(c) \/ TakeMutex(c) \/ Cancel(c) \/ Watch(c)
      PROVE  SwapInv'
  <2>1. CASE LoadInflight(c)
    <3>1. \A d \in Callers \ {c} : call'[d] = call[d]
      BY <2>1, Zenon DEF Inv, TypeOK, LoadInflight
    <3>2. call'[c].at # "cas"
      BY <2>1, Zenon DEF Inv, TypeOK, CallRecord, LoadInflight
    <3> QED BY <3>1, <3>2, Zenon DEF Inv, SwapInv, At
  <2>2. CASE CheckLimit(c)
    BY <2>2, LimitAssumption DEF Inv, TypeOK, CallRecord, SwapInv, At, CheckLimit, AcquireFails, Return, Goto, NoCall
  <2>3. CASE AcquireSlot(c)
    BY <2>3, LimitAssumption DEF Inv, TypeOK, CallRecord, SwapInv, At, AcquireSlot, Goto, Held, NoCall
  <2>4. CASE RecheckInflight(c)
    BY <2>4, LimitAssumption DEF Inv, TypeOK, CallRecord, SwapInv, At, RecheckInflight
  <2>5. CASE RecheckLimit(c)
    BY <2>5, LimitAssumption DEF Inv, TypeOK, CallRecord, SwapInv, At, RecheckLimit, Goto, Return, NoCall
  <2>6. CASE Park(c)
    BY <2>6, LimitAssumption DEF Inv, TypeOK, CallRecord, SwapInv, At, Park, Goto
  <2>7. CASE Finish(c)
    BY <2>7, LimitAssumption DEF Inv, TypeOK, CallRecord, SwapInv, At, Finish, Return, NoCall
  <2>8. CASE Decrement(c)
    BY <2>8, LimitAssumption DEF Inv, TypeOK, CallRecord, SwapInv, At, Decrement, Goto
  <2>9. CASE InstallLimit(c)
    BY <2>9, LimitAssumption DEF Inv, TypeOK, CallRecord, SwapInv, At, InstallLimit, Goto
  <2>10. CASE Broadcast(c)
    <3>1. PICK after \in {NoCall, [Held EXCEPT !.done = TRUE]} : call' = [Woken EXCEPT ![c] = after]
      BY <2>10, Zenon DEF Broadcast
    <3>2. \A d \in Callers \ {c} : call'[d] = Woken[d]
      BY <3>1, WokenCalls, Zenon DEF Inv, TypeOK
    <3>3. call'[c].at # "cas"
      BY <3>1, WokenCalls, ReturnFields, Zenon DEF Inv, TypeOK
    <3> QED BY <3>2, <3>3, WokenCalls DEF Inv, TypeOK, SwapInv, At
  <2>11. CASE Lock(c)
    BY <2>11, LimitAssumption DEF Inv, TypeOK, CallRecord, SwapInv, At, Lock, Goto
  <2>12. CASE Wake(c)
    BY <2>12, LimitAssumption DEF Inv, TypeOK, CallRecord, SwapInv, At, Wake, Goto
  <2>13. CASE WatcherBroadcasts(c)
    BY <2>13, LimitAssumption, ZenonT(60) DEF Inv, TypeOK, CallRecord, SwapInv, At, WatcherBroadcasts, Woken
  <2>14. CASE WatcherStops(c)
    BY <2>14, LimitAssumption, Zenon DEF Inv, TypeOK, CallRecord, SwapInv, At, WatcherStops
  <2>15. CASE Begin(c)
    BY <2>15, LimitAssumption DEF Inv, TypeOK, CallRecord, SwapInv, At, Begin, Goto
  <2>16. CASE Cancel(c)
    BY <2>16, LimitAssumption, ZenonT(60) DEF Inv, TypeOK, CallRecord, SwapInv, At, Cancel
  <2>17. CASE CheckCtx(c)
    <3>1. \A d \in Callers \ {c} : call'[d] = call[d]
      BY <2>17, Zenon DEF Inv, TypeOK, CheckCtx, AcquireFails, Return, Goto
    <3>2. call'[c].at # "cas"
      BY <2>17 DEF Inv, TypeOK, CallRecord, CheckCtx, AcquireFails, Return, Goto, NoCall
    <3> QED BY <3>1, <3>2 DEF Inv, SwapInv, At
  <2> QED BY <1>2, <2>1, <2>2, <2>3, <2>4, <2>5, <2>6, <2>7, <2>8, <2>9, <2>10, <2>11, <2>12, <2>13, <2>14, <2>15, <2>16, <2>17 DEF Step, TakeMutex, Watch
<1> QED BY <1>1, <1>2 DEF Next

-----------------------------------------------------------------------------
\* The inductive invariant holds in every reachable state.
THEOREM Invariance == Spec => []Inv
<1>1. Init => Inv
  <2> SUFFICES ASSUME Init PROVE Inv
    OBVIOUS
  <2>1. TypeOK
    BY LimitAssumption, ReturnTypes, Zenon DEF Init, TypeOK
  <2>2. Holders = {}
    BY Zenon DEF Init, Holders, At, NoCall
  <2>3. SlotsAccounted
    BY <2>2, FS_EmptySet, LimitAssumption DEF Init, SlotsAccounted
  <2> QED BY <2>1, <2>3, Zenon DEF Init, Inv, SwapInv, At, NoCall
<1>2. Inv /\ [Next]_vars => Inv'
  BY TypeStep, SlotStep, SwapStep, Zenon DEF Inv
<1> QED BY <1>1, <1>2, PTL DEF Spec

(***************************************************************************)
(* Type correctness: inflight never goes negative and the limit never      *)
(* leaves its band.                                                        *)
(***************************************************************************)
THEOREM TypeCorrect == Spec => []TypeOK
BY Invariance, PTL DEF Inv

(***************************************************************************)
(* With any number of goroutines, inflight is the number of slots held and *)
(* at most MaxLimit, whatever the strategy does to the limit meanwhile.    *)
(***************************************************************************)
THEOREM Slots == Spec => []SlotsAccounted
BY Invariance, PTL DEF Inv
=============================================================================
