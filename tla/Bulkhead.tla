------------------------------ MODULE Bulkhead ------------------------------
(***************************************************************************)
(* The semaphore bulkhead, bulkhead/bulkhead.go.  Every call of Execute is *)
(* a process.  The semaphore channel and the counters are separate atomics *)
(* and one action is one operation on one of them, so a reader may see     *)
(* them between any two steps.                                             *)
(***************************************************************************)
EXTENDS Integers, FiniteSets

CONSTANTS
  BulkheadCalls,      \* the calls of Execute
  MaxConcurrency,     \* cap(b.sem)
  MaxWaitTicks        \* bound: the last instant of the wait clock

ASSUME BulkheadAssumption ==
  IsFiniteSet(BulkheadCalls) /\ MaxConcurrency \in Nat \ {0} /\ MaxWaitTicks \in Nat

VARIABLES
  blocking,           \* b.maxWait > 0
  sem,                \* len(b.sem)
  inflight, waiting, rejected,
  waitStats,          \* b.waitStats: count, sum, min, max
  waitClock,
  callPc, waitStart   \* per call: its next step, its start

bulkheadVars == <<blocking, sem, inflight, waiting, rejected, waitStats, waitClock, callPc, waitStart>>

BulkheadInit ==
  /\ blocking \in BOOLEAN
  /\ sem = 0 /\ inflight = 0 /\ waiting = 0 /\ rejected = 0
  /\ waitStats = [count |-> 0, sum |-> 0, min |-> 0, max |-> 0]
  /\ waitClock = 0
  /\ callPc = [c \in BulkheadCalls |-> "idle"]
  /\ waitStart = [c \in BulkheadCalls |-> 0]

Moves(c, here, next) == callPc[c] = here /\ callPc' = [callPc EXCEPT ![c] = next]

\* observe(): the statistics after one more wait of d.
Observe(w, d) ==
  [count |-> w.count + 1, sum |-> w.sum + d,
   min |-> IF w.count = 0 \/ d < w.min THEN d ELSE w.min,
   max |-> IF d > w.max THEN d ELSE w.max]

\* maxWait = 0: the send succeeds or the call is rejected, without a wait.
TryAcquire(c) ==
  /\ ~blocking /\ sem < MaxConcurrency
  /\ Moves(c, "idle", "acquired")
  /\ sem' = sem + 1
  /\ UNCHANGED <<blocking, inflight, waiting, rejected, waitStats, waitClock, waitStart>>

RejectFull(c) ==
  /\ ~blocking /\ sem = MaxConcurrency
  /\ Moves(c, "idle", "rejected")
  /\ rejected' = rejected + 1
  /\ UNCHANGED <<blocking, sem, inflight, waiting, waitStats, waitClock, waitStart>>

EnterWait(c) ==
  /\ blocking
  /\ Moves(c, "idle", "waiting")
  /\ waitStart' = [waitStart EXCEPT ![c] = waitClock]
  /\ waiting' = waiting + 1
  /\ UNCHANGED <<blocking, sem, inflight, rejected, waitStats, waitClock>>

\* The select of the blocking path.  Its timer and the context may win at any
\* time, also when a slot is free.
WaitAcquire(c) ==
  /\ sem < MaxConcurrency
  /\ Moves(c, "waiting", "leave_acquired")
  /\ sem' = sem + 1
  /\ UNCHANGED <<blocking, inflight, waiting, rejected, waitStats, waitClock, waitStart>>

GiveUp(c) ==
  /\ Moves(c, "waiting", "leave_rejected")
  /\ UNCHANGED <<blocking, sem, inflight, waiting, rejected, waitStats, waitClock, waitStart>>

LeaveWait(c) ==
  /\ \/ Moves(c, "leave_acquired", "observe_acquired")
     \/ Moves(c, "leave_rejected", "observe_rejected")
  /\ waiting' = waiting - 1
  /\ UNCHANGED <<blocking, sem, inflight, rejected, waitStats, waitClock, waitStart>>

ObserveWait(c) ==
  /\ waitStats' = Observe(waitStats, waitClock - waitStart[c])
  /\ \/ Moves(c, "observe_acquired", "acquired") /\ UNCHANGED rejected
     \/ Moves(c, "observe_rejected", "rejected") /\ rejected' = rejected + 1
  /\ UNCHANGED <<blocking, sem, inflight, waiting, waitClock, waitStart>>

StartFn(c) ==
  /\ Moves(c, "acquired", "running")
  /\ inflight' = inflight + 1
  /\ UNCHANGED <<blocking, sem, waiting, rejected, waitStats, waitClock, waitStart>>

\* Variant: a panic of fn skips the release (no defer).
FinishFnLeaky(c) ==
  /\ \/ Moves(c, "running", "releasing") /\ sem' = sem - 1
     \/ Moves(c, "running", "returned") /\ UNCHANGED sem
  /\ UNCHANGED <<blocking, inflight, waiting, rejected, waitStats, waitClock, waitStart>>

\* fn returns or panics: the deferred function takes the slot back first.
FinishFn(c) ==
  /\ Moves(c, "running", "releasing")
  /\ sem' = sem - 1
  /\ UNCHANGED <<blocking, inflight, waiting, rejected, waitStats, waitClock, waitStart>>

EndCall(c) ==
  /\ Moves(c, "releasing", "returned")
  /\ inflight' = inflight - 1
  /\ UNCHANGED <<blocking, sem, waiting, rejected, waitStats, waitClock, waitStart>>

WaitTick ==
  /\ waitClock < MaxWaitTicks
  /\ waitClock' = waitClock + 1
  /\ UNCHANGED <<blocking, sem, inflight, waiting, rejected, waitStats, callPc, waitStart>>

BulkheadStep(c) ==
  \/ TryAcquire(c) \/ RejectFull(c) \/ EnterWait(c) \/ WaitAcquire(c) \/ GiveUp(c)
  \/ LeaveWait(c) \/ ObserveWait(c) \/ StartFn(c) \/ FinishFn(c) \/ EndCall(c)

BulkheadNext == (\E c \in BulkheadCalls : BulkheadStep(c)) \/ WaitTick

BulkheadSpec == BulkheadInit /\ [][BulkheadNext]_bulkheadVars

-----------------------------------------------------------------------------
(* Properties                                                               *)

CallsAt(places) == Cardinality({c \in BulkheadCalls : callPc[c] \in places})

Holding == {"leave_acquired", "observe_acquired", "acquired", "running"}

(***************************************************************************)
(* No path of Execute, whichever of the slot, the context and the timer    *)
(* wins the race, and whether fn returns or panics, loses or invents a     *)
(* slot: the semaphore holds one token per call between its acquisition    *)
(* and its release, so at most MaxConcurrency functions run.  The counters *)
(* lag behind the semaphore but never drift: Inflight() is the functions   *)
(* that run plus those whose slot is already free again, QueueDepth() is   *)
(* the callers in or just out of the select, and every wait that ended is  *)
(* counted once, as a rejection exactly when the slot was not acquired.    *)
(***************************************************************************)
BulkheadAccounted ==
  /\ sem = CallsAt(Holding) /\ sem <= MaxConcurrency
  /\ inflight = CallsAt({"running", "releasing"})
  /\ waiting = CallsAt({"waiting", "leave_acquired", "leave_rejected"})
  /\ rejected = CallsAt({"rejected"})
  /\ blocking => waitStats.count = CallsAt({"acquired", "running", "releasing",
                                            "returned", "rejected"})
  /\ waitStats.min * waitStats.count <= waitStats.sum
  /\ waitStats.sum <= waitStats.max * waitStats.count
=============================================================================
