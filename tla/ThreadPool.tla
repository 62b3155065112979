----------------------------- MODULE ThreadPool -----------------------------
(***************************************************************************)
(* The worker pool, bulkhead/threadpool.go: submitters, workers and the    *)
(* callers of Close are processes that meet in the queue, the closed flag  *)
(* and the done channel.  A task stands for the Submit that made it.       *)
(***************************************************************************)
EXTENDS Integers, Sequences, FiniteSets, Functions

CONSTANTS
  Tasks, Workers, Closers,
  QueueSizes     \* the capacities to choose from; 0 hands every task over

ASSUME PoolAssumption == QueueSizes \subseteq Nat /\ Workers # {}

VARIABLES
  queueSize,   \* cap(tp.queue)
  taskQueue,   \* tp.queue
  closed,      \* tp.closed
  doneClosed,  \* the done channel is closed
  submit,      \* per task: the step or the answer of its Submit
  answers,     \* per task: the values sent to its result channel
  worker,      \* per worker: its place in run()
  holding,     \* per worker: the set of the task it executes
  closer       \* per caller of Close: its step

poolVars == <<queueSize, taskQueue, closed, doneClosed, submit, answers, worker, holding, closer>>

PoolInit ==
  /\ queueSize \in QueueSizes
  /\ taskQueue = <<>> /\ closed = FALSE /\ doneClosed = FALSE
  /\ submit = [t \in Tasks |-> "new"]
  /\ answers = [t \in Tasks |-> 0]
  /\ worker = [w \in Workers |-> "select"]
  /\ holding = [w \in Workers |-> {}]
  /\ closer = [k \in Closers |-> "new"]

-----------------------------------------------------------------------------
(* Submit                                                                   *)

CheckClosed(t) ==
  /\ submit[t] = "new"
  /\ submit' = [submit EXCEPT ![t] = IF closed THEN "ErrPoolClosed" ELSE "enqueue"]
  /\ UNCHANGED <<queueSize, taskQueue, closed, doneClosed, answers, worker, holding, closer>>

\* The select: of the cases that are ready any may be taken, and default
\* only when none is.
Enqueue(t) ==
  /\ submit[t] = "enqueue"
  /\ \/ /\ Len(taskQueue) < queueSize
        /\ taskQueue' = Append(taskQueue, t)
        /\ submit' = [submit EXCEPT ![t] = "recheck"]
     \/ /\ doneClosed
        /\ submit' = [submit EXCEPT ![t] = "ErrPoolClosed"]
        /\ UNCHANGED taskQueue
     \/ /\ Len(taskQueue) = queueSize /\ ~doneClosed
        /\ submit' = [submit EXCEPT ![t] = "ErrQueueFull"]
        /\ UNCHANGED taskQueue
  /\ UNCHANGED <<queueSize, closed, doneClosed, answers, worker, holding, closer>>

\* Without a buffer the send succeeds only into the main select of a worker:
\* the drain, like Submit, never waits.
HandOff(t, w) ==
  /\ submit[t] = "enqueue" /\ queueSize = 0
  /\ worker[w] = "select" /\ holding[w] = {}
  /\ holding' = [holding EXCEPT ![w] = {t}]
  /\ submit' = [submit EXCEPT ![t] = "recheck"]
  /\ UNCHANGED <<queueSize, taskQueue, closed, doneClosed, answers, worker, closer>>

\* Variant: Submit trusts the check it made before the enqueue.
RecheckSkipped(t) ==
  /\ submit[t] = "recheck"
  /\ submit' = [submit EXCEPT ![t] = "accepted"]
  /\ UNCHANGED <<queueSize, taskQueue, closed, doneClosed, answers, worker, holding, closer>>

Recheck(t) ==
  /\ submit[t] = "recheck"
  /\ submit' = [submit EXCEPT ![t] = IF closed THEN "ErrPoolClosed" ELSE "accepted"]
  /\ UNCHANGED <<queueSize, taskQueue, closed, doneClosed, answers, worker, holding, closer>>

-----------------------------------------------------------------------------
(* run(): the main select and the drain after done                          *)

Take(w) ==
  /\ worker[w] \in {"select", "drain"} /\ holding[w] = {}
  /\ taskQueue # <<>>
  /\ holding' = [holding EXCEPT ![w] = {Head(taskQueue)}]
  /\ taskQueue' = Tail(taskQueue)
  /\ UNCHANGED <<queueSize, closed, doneClosed, submit, answers, worker, closer>>

Answer(w) ==
  /\ \E t \in holding[w] : answers' = [answers EXCEPT ![t] = @ + 1]
  /\ holding' = [holding EXCEPT ![w] = {}]
  /\ UNCHANGED <<queueSize, taskQueue, closed, doneClosed, submit, worker, closer>>

SeeDone(w) ==
  /\ worker[w] = "select" /\ holding[w] = {} /\ doneClosed
  /\ worker' = [worker EXCEPT ![w] = "drain"]
  /\ UNCHANGED <<queueSize, taskQueue, closed, doneClosed, submit, answers, holding, closer>>

WorkerExit(w) ==
  /\ worker[w] = "drain" /\ holding[w] = {} /\ taskQueue = <<>>
  /\ worker' = [worker EXCEPT ![w] = "exited"]
  /\ UNCHANGED <<queueSize, taskQueue, closed, doneClosed, submit, answers, holding, closer>>

-----------------------------------------------------------------------------
(* Close                                                                    *)

\* The compare-and-swap; the loser returns at once.
SwapClosed(k) ==
  /\ closer[k] = "new"
  /\ closed' = TRUE
  /\ closer' = [closer EXCEPT ![k] = IF closed THEN "returned" ELSE "close_done"]
  /\ UNCHANGED <<queueSize, taskQueue, doneClosed, submit, answers, worker, holding>>

CloseDone(k) ==
  /\ closer[k] = "close_done"
  /\ doneClosed' = TRUE
  /\ closer' = [closer EXCEPT ![k] = "wait"]
  /\ UNCHANGED <<queueSize, taskQueue, closed, submit, answers, worker, holding>>

WaitWorkers(k) ==
  /\ closer[k] = "wait"
  /\ \A w \in Workers : worker[w] = "exited"
  /\ closer' = [closer EXCEPT ![k] = "closed_pool"]
  /\ UNCHANGED <<queueSize, taskQueue, closed, doneClosed, submit, answers, worker, holding>>

WorkerStep(w) == Take(w) \/ Answer(w) \/ SeeDone(w) \/ WorkerExit(w)

PoolNext ==
  \/ \E t \in Tasks : CheckClosed(t) \/ Enqueue(t) \/ Recheck(t) \/ \E w \in Workers : HandOff(t, w)
  \/ \E w \in Workers : WorkerStep(w)
  \/ \E k \in Closers : SwapClosed(k) \/ CloseDone(k) \/ WaitWorkers(k)

PoolSpec == PoolInit /\ [][PoolNext]_poolVars

-----------------------------------------------------------------------------
(* Properties                                                               *)

\* The tasks some worker has taken and not answered yet.
Executing == UNION {holding[w] : w \in Workers}

(***************************************************************************)
(* threadpool.go:109 "a receive-only channel that will carry exactly one   *)
(* value": a task whose Submit returned a channel is never stranded by a   *)
(* Close that races it.  It is queued before a worker that has not yet     *)
(* passed its drain, or executing, or answered, and no task is answered    *)
(* twice.  Submit's second look at closed is what makes this true.         *)
(***************************************************************************)
AcceptedIsAnswered ==
  \A t \in Tasks :
    /\ answers[t] <= 1
    /\ submit[t] = "accepted" =>
         \/ answers[t] = 1
         \/ t \in Executing
         \/ t \in Range(taskQueue) /\ \E w \in Workers : worker[w] # "exited"
=============================================================================
