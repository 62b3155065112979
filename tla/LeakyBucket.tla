----------------------------- MODULE LeakyBucket -----------------------------
(***************************************************************************)
(* The queueing leaky bucket, ratelimit/leakybucket/leakybucket.go and     *)
(* priority.go, for one key.  The calls of Allow, AllowN and AllowP, the   *)
(* leaker goroutine of every queue, Reset, the idle cleaner and Close run  *)
(* concurrently.  A caller, the leaker and Reset keep a pointer to the     *)
(* queue they started with, so every incarnation of the key's queue has an *)
(* identity; the queue lives on when the map has forgotten it.             *)
(*                                                                         *)
(* One action is one critical section of q.mu or of the shard lock, or one *)
(* channel operation.  An answer is sent to a buffered channel, so sending *)
(* is merged with the step that decides it.  The leak interval is a tick   *)
(* of the leaker that may come at any time.                                *)
(***************************************************************************)
EXTENDS Integers, Sequences, FiniteSets, Functions

CONSTANTS
  LeakyCalls,       \* the calls of Allow, AllowN and AllowP
  LeakyCapacity,    \* lb.capacity
  BatchSizes,       \* the n of AllowN
  Priorities,       \* the priorities of AllowP
  MaxQueues,        \* bound: incarnations of the key's queue
  MaxResets         \* bound: calls of Reset

ASSUME LeakyAssumption ==
  /\ LeakyCapacity \in Nat \ {0} /\ MaxQueues \in Nat \ {0} /\ MaxResets \in Nat
  /\ BatchSizes \subseteq 1..LeakyCapacity /\ Priorities \subseteq Int

VARIABLES
  mapped,      \* lb.queues[key]: the incarnation in the map, 0 for none
  queues,      \* per incarnation: q.ch, q.pq, q.nextSeq and the state of its leaker
  lbDone,      \* lb.done is closed
  calls,       \* per call: its step, its queue, its request and its answers
  resetter     \* the caller of Reset: its step, its queue, the resets left

leakyVars == <<mapped, queues, lbDone, calls, resetter>>

Incarnations == 1..MaxQueues

LeakyInit ==
  /\ mapped = 0 /\ lbDone = FALSE
  /\ queues = [i \in Incarnations |-> [fifo |-> <<>>, heap |-> {}, nextSeq |-> 0, leaker |-> "none"]]
  /\ calls = [c \in LeakyCalls |->
                [pc |-> "new", q |-> 0, viaHeap |-> FALSE, cancelled |-> FALSE, res |-> <<>>]]
  /\ resetter = [pc |-> "idle", q |-> 0, left |-> MaxResets]

Depth(q) == Len(q.fifo) + Cardinality(q.heap)

-----------------------------------------------------------------------------
(* Tokens and their answers.  A token is a call and the index of its answer. *)

TokensOf(c, n) == [i \in 1..n |-> [call |-> c, i |-> i]]

\* The channel of a call that has returned is garbage.
Answered(cs, t, answer) ==
  IF cs[t.call].pc = "wait" THEN [cs EXCEPT ![t.call].res[t.i] = answer] ELSE cs

\* Denies every waiter of a heap.
AllDenied(cs, heap) ==
  [c \in LeakyCalls |->
     IF cs[c].pc = "wait" /\ \E t \in heap : t.call = c
       THEN [cs[c] EXCEPT !.res = [i \in DOMAIN @ |-> IF \E t \in heap : t.call = c /\ t.i = i THEN "deny" ELSE @[i]]]
       ELSE cs[c]]

Live(t) == ~calls[t.call].cancelled

\* Less(): higher priority first, then arrival.
Less(t, u) == t.prio > u.prio \/ (t.prio = u.prio /\ t.seq < u.seq)

\* popReadyPriorityLocked: the live waiter it returns, if there is one, and what
\* is left of the heap once it and the cancelled waiters ahead of it are dropped.
LiveWaiters(heap) == {t \in heap : Live(t)}
ReadyWaiter(heap) == CHOOSE t \in LiveWaiters(heap) : \A u \in LiveWaiters(heap) \ {t} : Less(t, u)
HeapAfterPop(heap) == IF LiveWaiters(heap) = {} THEN {} ELSE {t \in heap : Less(ReadyWaiter(heap), t)}

-----------------------------------------------------------------------------
(* Allow, AllowN and AllowP                                                 *)

\* A call that has returned keeps only its context.
Returned(c) ==
  [calls EXCEPT ![c] = [pc |-> "returned", q |-> 0, viaHeap |-> FALSE,
                        cancelled |-> @.cancelled, res |-> <<>>]]

\* getOrCreate: a new queue gets its leaker under the shard lock.
Lookup(c) ==
  /\ calls[c].pc = "new"
  /\ IF mapped # 0
       THEN /\ calls' = [calls EXCEPT ![c].pc = "enqueue", ![c].q = mapped]
            /\ UNCHANGED <<mapped, queues>>
       ELSE LET unused == {i \in Incarnations : queues[i].leaker = "none"}
            IN  /\ unused # {}
                /\ mapped' = CHOOSE i \in unused : \A j \in unused : i <= j
                /\ queues' = [queues EXCEPT ![mapped'].leaker = "wait"]
                /\ calls' = [calls EXCEPT ![c].pc = "enqueue", ![c].q = mapped']
  /\ UNCHANGED <<lbDone, resetter>>

\* Variant: allow1 checks the channel only, not the heap.
EnqueueFifoOnly(c, n) ==
  LET q == queues[calls[c].q]
  IN  /\ calls[c].pc = "enqueue"
      /\ IF LeakyCapacity - Len(q.fifo) < n
           THEN calls' = Returned(c) /\ UNCHANGED queues
           ELSE /\ queues' = [queues EXCEPT ![calls[c].q].fifo = @ \o TokensOf(c, n)]
                /\ calls' = [calls EXCEPT ![c].pc = "wait", ![c].res = [i \in 1..n |-> "none"]]
      /\ UNCHANGED <<mapped, lbDone, resetter>>

\* allow1 and AllowN: the check and the sends are one critical section.
EnqueueFifo(c, n) ==
  LET q == queues[calls[c].q]
  IN  /\ calls[c].pc = "enqueue"
      /\ IF LeakyCapacity - Depth(q) < n
           THEN calls' = Returned(c) /\ UNCHANGED queues
           ELSE /\ queues' = [queues EXCEPT ![calls[c].q].fifo = @ \o TokensOf(c, n)]
                /\ calls' = [calls EXCEPT ![c].pc = "wait", ![c].res = [i \in 1..n |-> "none"]]
      /\ UNCHANGED <<mapped, lbDone, resetter>>

\* allowP1
EnqueueHeap(c, prio) ==
  LET q == queues[calls[c].q]
  IN  /\ calls[c].pc = "enqueue"
      /\ IF Depth(q) >= LeakyCapacity
           THEN calls' = Returned(c) /\ UNCHANGED queues
           ELSE /\ queues' = [queues EXCEPT
                     ![calls[c].q].heap = @ \cup {[call |-> c, i |-> 1, prio |-> prio, seq |-> q.nextSeq]},
                     ![calls[c].q].nextSeq = @ + 1]
                /\ calls' = [calls EXCEPT ![c].pc = "wait", ![c].viaHeap = TRUE, ![c].res = <<"none">>]
      /\ UNCHANGED <<mapped, lbDone, resetter>>

\* The answers are read in order; the first denial ends a batch.
ReceiveAnswers(c) ==
  LET res == calls[c].res
      allowed == \A i \in DOMAIN res : res[i] = "allow"
      denied == \E i \in DOMAIN res : res[i] = "deny" /\ \A j \in 1..(i - 1) : res[j] = "allow"
  IN  /\ calls[c].pc = "wait" /\ (allowed \/ denied)
      /\ calls' = Returned(c)
      /\ UNCHANGED <<mapped, queues, lbDone, resetter>>

CancelCall(c) ==
  /\ calls[c].pc = "wait" /\ ~calls[c].cancelled
  /\ calls' = [calls EXCEPT ![c].cancelled = TRUE]
  /\ UNCHANGED <<mapped, queues, lbDone, resetter>>

\* <-ctx.Done(): a heap waiter takes its token out under q.mu, a channel
\* waiter leaves its tokens to the leaker.
CtxReturn(c) ==
  /\ calls[c].pc = "wait" /\ calls[c].cancelled
  /\ queues' = [queues EXCEPT ![calls[c].q].heap = {t \in @ : t.call # c}]
  /\ calls' = Returned(c)
  /\ UNCHANGED <<mapped, lbDone, resetter>>

-----------------------------------------------------------------------------
(* leaker                                                                   *)

\* A tick serves one token: the heap first, else the channel.  The code lets
\* q.mu go between the two, which changes no outcome: what arrives in between
\* might as well have arrived before the tick, or after it.
LeakTick(i) ==
  LET q == queues[i]
      ready == LiveWaiters(q.heap) # {}
      t == IF ready THEN ReadyWaiter(q.heap) ELSE Head(q.fifo)
  IN  /\ q.leaker = "wait"
      /\ q.fifo # <<>> \/ q.heap # {}
      /\ IF ~ready /\ q.fifo = <<>>
           THEN queues' = [queues EXCEPT ![i].heap = {}] /\ UNCHANGED calls
           ELSE /\ queues' = [queues EXCEPT ![i].heap = HeapAfterPop(@), ![i].leaker = "check",
                                            ![i].fifo = IF ready THEN @ ELSE Tail(@)]
                /\ calls' = Answered(calls, t, IF Live(t) THEN "allow" ELSE "deny")
      /\ UNCHANGED <<mapped, lbDone, resetter>>

\* Variant: the leaker stops when its queue is empty.
CheckKeyIdle(i) ==
  /\ queues[i].leaker = "check"
  /\ queues' = [queues EXCEPT ![i].leaker =
                  IF mapped = 0 \/ Depth(queues[i]) = 0 THEN "exited" ELSE "wait"]
  /\ UNCHANGED <<mapped, lbDone, calls, resetter>>

\* After a token the leaker asks the map for the key, not for its queue.
CheckKey(i) ==
  /\ queues[i].leaker = "check"
  /\ queues' = [queues EXCEPT ![i].leaker = IF mapped = 0 THEN "exited" ELSE "wait"]
  /\ UNCHANGED <<mapped, lbDone, calls, resetter>>

\* <-lb.done, then drainQueue: the channel one by one, the heap at once.
SeeClosed(i) ==
  /\ queues[i].leaker = "wait" /\ lbDone
  /\ queues' = [queues EXCEPT ![i].leaker = "drain"]
  /\ UNCHANGED <<mapped, lbDone, calls, resetter>>

DrainQueue(i) ==
  /\ queues[i].leaker = "drain"
  /\ IF queues[i].fifo # <<>>
       THEN /\ queues' = [queues EXCEPT ![i].fifo = Tail(@)]
            /\ calls' = Answered(calls, Head(queues[i].fifo), "deny")
       ELSE /\ queues' = [queues EXCEPT ![i].heap = {}, ![i].leaker = "exited"]
            /\ calls' = AllDenied(calls, queues[i].heap)
  /\ UNCHANGED <<mapped, lbDone, resetter>>

-----------------------------------------------------------------------------
(* Reset, the idle cleaner and Close                                        *)

ResetGet ==
  /\ resetter.pc = "idle" /\ resetter.left > 0
  /\ resetter' = IF mapped = 0 THEN [resetter EXCEPT !.left = @ - 1]
                 ELSE [pc |-> "drain", q |-> mapped, left |-> resetter.left - 1]
  /\ UNCHANGED <<mapped, queues, lbDone, calls>>

ResetDrain ==
  LET q == queues[resetter.q]
  IN  /\ resetter.pc = "drain"
      /\ IF q.fifo # <<>>
           THEN /\ queues' = [queues EXCEPT ![resetter.q].fifo = Tail(@)]
                /\ calls' = Answered(calls, Head(q.fifo), "deny")
                /\ UNCHANGED resetter
           ELSE /\ queues' = [queues EXCEPT ![resetter.q].heap = {}]
                /\ calls' = AllDenied(calls, q.heap)
                /\ resetter' = [resetter EXCEPT !.pc = "delete"]
      /\ UNCHANGED <<mapped, lbDone>>

\* queues.Delete(key), whichever queue the key has by now.
ResetDelete ==
  /\ resetter.pc = "delete"
  /\ mapped' = 0
  /\ resetter' = [resetter EXCEPT !.pc = "idle", !.q = 0]
  /\ UNCHANGED <<queues, lbDone, calls>>

\* cleanupLoop: the age test is the environment's choice, because every tick of
\* the leaker refreshes lastAccess.
CleanIdle ==
  /\ mapped # 0 /\ Depth(queues[mapped]) = 0
  /\ mapped' = 0
  /\ UNCHANGED <<queues, lbDone, calls, resetter>>

LeakyClose ==
  /\ ~lbDone
  /\ lbDone' = TRUE
  /\ UNCHANGED <<mapped, queues, calls, resetter>>

LeakyNext ==
  \/ \E c \in LeakyCalls :
       \/ Lookup(c) \/ ReceiveAnswers(c) \/ CancelCall(c) \/ CtxReturn(c)
       \/ \E n \in BatchSizes : EnqueueFifo(c, n)
       \/ \E p \in Priorities : EnqueueHeap(c, p)
  \/ \E i \in Incarnations :
       LeakTick(i) \/ CheckKey(i) \/ SeeClosed(i) \/ DrainQueue(i)
  \/ ResetGet \/ ResetDrain \/ ResetDelete \/ CleanIdle \/ LeakyClose

LeakySpec == LeakyInit /\ [][LeakyNext]_leakyVars

-----------------------------------------------------------------------------
(* Properties                                                               *)

Queued(c) == {t \in UNION {Range(queues[i].fifo) \cup queues[i].heap : i \in Incarnations} :
                t.call = c}

Unanswered(c) == {i \in DOMAIN calls[c].res : calls[c].res[i] = "none"}

(***************************************************************************)
(* The bounded queue and its waiters agree under every interleaving of     *)
(* Allow, AllowN, AllowP, the leaker, Reset and Close: no queue holds more *)
(* than capacity tokens (so a send under q.mu never blocks, AllowN's       *)
(* all-or-nothing check), a token is in at most one place, a call that     *)
(* waits has every unanswered token in a queue, and a cancelled AllowP     *)
(* leaves no waiter behind to occupy a slot (priority.go:147).             *)
(***************************************************************************)
TokensConserved ==
  /\ \A i \in Incarnations : Depth(queues[i]) <= LeakyCapacity
  /\ \A i \in Incarnations : \A t \in queues[i].heap : calls[t.call].pc = "wait"
  /\ \A i \in Incarnations : IsInjective(queues[i].fifo)
  /\ \A c \in LeakyCalls : calls[c].pc = "wait" =>
       /\ \A i \in Incarnations \ {calls[c].q} : \A t \in Range(queues[i].fifo) \cup queues[i].heap : t.call # c
       /\ LET queued == {t.i : t \in Queued(c)}
          IN  /\ queued \subseteq Unanswered(c)
              /\ queued = Unanswered(c) \/ (calls[c].viaHeap /\ calls[c].cancelled)

(***************************************************************************)
(* leakybucket.go:539 "exactly one leaker goroutine is started per live    *)
(* key": until Close, the queue that is in the map always has a running    *)
(* leaker, although a leaker exits as soon as it finds its key gone, Reset *)
(* deletes whatever queue the key has, and leakers of forgotten queues     *)
(* look at the same key.                                                   *)
(***************************************************************************)
LiveQueueHasLeaker ==
  mapped # 0 /\ ~lbDone => queues[mapped].leaker \notin {"none", "exited"}
=============================================================================
