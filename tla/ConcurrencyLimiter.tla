------------------------- MODULE ConcurrencyLimiter -------------------------
(***************************************************************************)
(* The adaptive concurrency limiter, concurrency/concurrency.go.  Every    *)
(* goroutine that calls Acquire or Wait is a process; inflight and limit   *)
(* are atomics read and written one at a time, and waitMu only protects    *)
(* the list of waiters of waitCond.  The strategy that computes a new      *)
(* limit from latencies is left open: it may answer any limit in the band. *)
(***************************************************************************)
EXTENDS Integers, FiniteSets

CONSTANTS
  Callers,            \* goroutines that use the limiter
  Blocking,           \* those that call Wait; the others call Acquire
  NoCaller,           \* the owner of a free waitMu
  MinLimit, MaxLimit, InitialLimit

ASSUME LimitAssumption ==
  /\ IsFiniteSet(Callers) /\ Blocking \subseteq Callers
  /\ NoCaller \notin Callers
  /\ MinLimit \in Nat \ {0} /\ MaxLimit \in Nat
  /\ InitialLimit \in MinLimit..MaxLimit

VARIABLES
  inflight,   \* l.inflight
  limit,      \* l.limit
  waitMu,     \* the goroutine that holds l.waitMu
  call,       \* per goroutine: the locals of its call and of its ReleaseFunc
  watcher     \* per goroutine: the watcher of its Wait is running

vars == <<inflight, limit, waitMu, call, watcher>>

Labels ==
  {"idle", "acquire", "load", "limit", "cas", "lock", "recheck", "recheckLimit", "park", "parked",
   "woken", "held", "decrement", "update", "broadcast"}

\* No call: at is the next step, cur the inflight last loaded, ctxDone that
\* the ctx is done, done the flag of the ReleaseFunc.
NoCall == [at |-> "idle", cur |-> 0, ctxDone |-> FALSE, done |-> FALSE]

Init ==
  /\ inflight = 0 /\ limit = InitialLimit /\ waitMu = NoCaller
  /\ call = [c \in Callers |-> NoCall]
  /\ watcher = [c \in Callers |-> FALSE]

At(c, label) == call[c].at = label

\* The next step; what was loaded before is not looked at again.
Goto(c, label) == call' = [call EXCEPT ![c].at = label, ![c].cur = 0]

Return(c) == call' = [call EXCEPT ![c] = NoCall]

-----------------------------------------------------------------------------
(* Acquire, and the loop of Wait around it.                                 *)

\* A call to Acquire or to Wait, with a ctx of its own.
Begin(c) ==
  /\ At(c, "idle") /\ ~watcher[c]
  /\ Goto(c, "acquire")
  /\ UNCHANGED <<inflight, limit, waitMu, watcher>>

(***************************************************************************)
(* Acquire has failed.  Acquire itself and a Wait whose ctx is done        *)
(* return; the first failure of a Wait starts its watcher and tries again; *)
(* the later ones lead to the condition variable.                          *)
(***************************************************************************)
AcquireFails(c) ==
  IF call[c].ctxDone \/ c \notin Blocking
    THEN Return(c) /\ UNCHANGED watcher
    ELSE /\ Goto(c, IF watcher[c] THEN "lock" ELSE "acquire")
         /\ watcher' = [watcher EXCEPT ![c] = TRUE]

\* Acquire looks at the ctx once, before its loop.
CheckCtx(c) ==
  /\ At(c, "acquire")
  /\ IF call[c].ctxDone THEN AcquireFails(c) ELSE Goto(c, "load") /\ UNCHANGED watcher
  /\ UNCHANGED <<inflight, limit, waitMu>>

LoadInflight(c) ==
  /\ At(c, "load")
  /\ call' = [call EXCEPT ![c].at = "limit", ![c].cur = inflight]
  /\ UNCHANGED <<inflight, limit, waitMu, watcher>>

CheckLimit(c) ==
  /\ At(c, "limit")
  /\ IF call[c].cur >= limit
       THEN AcquireFails(c)
       ELSE call' = [call EXCEPT ![c].at = "cas"] /\ UNCHANGED watcher
  /\ UNCHANGED <<inflight, limit, waitMu>>

\* Acquire or Wait returns a ReleaseFunc.
Held == [NoCall EXCEPT !.at = "held"]

\* Variant: Add(1) in place of the compare-and-swap.
AcquireSlotByAdd(c) ==
  /\ At(c, "cas")
  /\ inflight' = inflight + 1
  /\ call' = [call EXCEPT ![c] = Held]
  /\ UNCHANGED <<limit, waitMu, watcher>>

AcquireSlot(c) ==
  /\ At(c, "cas")
  /\ IF inflight = call[c].cur
       THEN inflight' = inflight + 1 /\ call' = [call EXCEPT ![c] = Held]
       ELSE UNCHANGED inflight /\ Goto(c, "load")
  /\ UNCHANGED <<limit, waitMu, watcher>>

Lock(c) ==
  /\ At(c, "lock")
  /\ waitMu = NoCaller
  /\ waitMu' = c
  /\ Goto(c, "recheck")
  /\ UNCHANGED <<inflight, limit, watcher>>

RecheckInflight(c) ==
  /\ At(c, "recheck")
  /\ call' = [call EXCEPT ![c].at = "recheckLimit", ![c].cur = inflight]
  /\ UNCHANGED <<inflight, limit, waitMu, watcher>>

\* A free slot: back to Acquire.  A ctx that is done: return.
RecheckLimit(c) ==
  /\ At(c, "recheckLimit")
  /\ \/ call[c].cur < limit /\ Goto(c, "acquire") /\ waitMu' = NoCaller
     \/ call[c].cur >= limit /\ call[c].ctxDone /\ Return(c) /\ waitMu' = NoCaller
     \/ call[c].cur >= limit /\ ~call[c].ctxDone /\ Goto(c, "park") /\ UNCHANGED waitMu
  /\ UNCHANGED <<inflight, limit, watcher>>

\* waitCond.Wait up to its suspension: joins the list of waiters, unlocks.
Park(c) ==
  /\ At(c, "park")
  /\ waitMu' = NoCaller
  /\ Goto(c, "parked")
  /\ UNCHANGED <<inflight, limit, watcher>>

\* ... and from its wake-up: it locks, and the loop unlocks at once.
Wake(c) ==
  /\ At(c, "woken")
  /\ waitMu = NoCaller
  /\ Goto(c, "acquire")
  /\ UNCHANGED <<inflight, limit, waitMu, watcher>>

\* The calls after waitCond.Broadcast.
Woken == [c \in Callers |-> IF At(c, "parked") THEN [call[c] EXCEPT !.at = "woken"] ELSE call[c]]

-----------------------------------------------------------------------------
(* The ctx of a call that is still waiting for a slot, and its watcher.     *)

Returned(c) == call[c].at \in {"idle", "held", "decrement", "update", "broadcast"}

Cancel(c) ==
  /\ ~Returned(c) /\ ~call[c].ctxDone
  /\ call' = [call EXCEPT ![c].ctxDone = TRUE]
  /\ UNCHANGED <<inflight, limit, waitMu, watcher>>

\* The ctx is done; that of a Wait that has returned may be done as well.
WatcherBroadcasts(c) ==
  /\ watcher[c]
  /\ call[c].ctxDone \/ Returned(c)
  /\ watcher' = [watcher EXCEPT ![c] = FALSE]
  /\ call' = Woken
  /\ UNCHANGED <<inflight, limit, waitMu>>

\* close(stop), when Wait has returned.
WatcherStops(c) ==
  /\ watcher[c] /\ Returned(c)
  /\ watcher' = [watcher EXCEPT ![c] = FALSE]
  /\ UNCHANGED <<inflight, limit, waitMu, call>>

-----------------------------------------------------------------------------
(* release.finish                                                           *)

\* Only the first call has an effect.
Finish(c) ==
  /\ At(c, "held")
  /\ IF call[c].done
       THEN Return(c)
       ELSE call' = [call EXCEPT ![c].at = "decrement", ![c].done = TRUE]
  /\ UNCHANGED <<inflight, limit, waitMu, watcher>>

Decrement(c) ==
  /\ At(c, "decrement")
  /\ inflight' = inflight - 1
  /\ Goto(c, "update")
  /\ UNCHANGED <<limit, waitMu, watcher>>

\* Variant: a decrease of the limit has no floor.
InstallLimitUnclamped(c) ==
  /\ At(c, "update")
  /\ limit' \in 0..MaxLimit
  /\ Goto(c, "broadcast")
  /\ UNCHANGED <<inflight, waitMu, watcher>>

\* strategy.Update, which clamps its answer to the band, then installLimit,
\* which rounds it and clamps it again.
InstallLimit(c) ==
  /\ At(c, "update")
  /\ limit' \in MinLimit..MaxLimit
  /\ Goto(c, "broadcast")
  /\ UNCHANGED <<inflight, waitMu, watcher>>

\* Variant: Signal, which wakes one waiter only.
SignalOne(c) ==
  /\ At(c, "broadcast")
  /\ \E after \in {NoCall, [Held EXCEPT !.done = TRUE]} :
       \/ /\ \A d \in Callers : ~At(d, "parked")
          /\ call' = [call EXCEPT ![c] = after]
       \/ \E d \in Callers : At(d, "parked") /\ call' = [call EXCEPT ![c] = after, ![d].at = "woken"]
  /\ UNCHANGED <<inflight, limit, waitMu, watcher>>

\* waitCond.Broadcast; the caller may then call the same ReleaseFunc again.
Broadcast(c) ==
  /\ At(c, "broadcast")
  /\ \E after \in {NoCall, [Held EXCEPT !.done = TRUE]} : call' = [Woken EXCEPT ![c] = after]
  /\ UNCHANGED <<inflight, limit, waitMu, watcher>>

-----------------------------------------------------------------------------
Step(c) ==
  \/ CheckCtx(c) \/ LoadInflight(c) \/ CheckLimit(c) \/ AcquireSlot(c)
  \/ RecheckInflight(c) \/ RecheckLimit(c) \/ Park(c)
  \/ Finish(c) \/ Decrement(c) \/ InstallLimit(c) \/ Broadcast(c)

TakeMutex(c) == Lock(c) \/ Wake(c)

Watch(c) == WatcherBroadcasts(c) \/ WatcherStops(c)

Next == \E c \in Callers : Begin(c) \/ Step(c) \/ TakeMutex(c) \/ Cancel(c) \/ Watch(c)

Spec == Init /\ [][Next]_vars

\* Goroutines that can run do, slots are released, and sync.Mutex is fair.
Fairness ==
  /\ \A c \in Callers : WF_vars(Step(c))
  /\ \A c \in Blocking : SF_vars(TakeMutex(c)) /\ WF_vars(Watch(c))

FairSpec == Spec /\ Fairness

-----------------------------------------------------------------------------
(* Properties                                                               *)

CallRecord == [at : Labels, cur : Nat, ctxDone : BOOLEAN, done : BOOLEAN]

\* Types: the limit stays in its band and inflight is never negative.
TypeOK ==
  /\ inflight \in Nat
  /\ limit \in MinLimit..MaxLimit
  /\ waitMu \in Callers \cup {NoCaller}
  /\ call \in [Callers -> CallRecord]
  /\ watcher \in [Callers -> BOOLEAN]

\* The goroutines that have been given a slot and not given it back.
Holders == {c \in Callers : At(c, "decrement") \/ (At(c, "held") /\ ~call[c].done)}

(***************************************************************************)
(* inflight counts exactly the slots that are held, and never exceeds      *)
(* MaxLimit: although the limit is read before the compare-and-swap and    *)
(* may shrink meanwhile, and although a ReleaseFunc may be called twice    *)
(* (finish: "a double release cannot drive inflight negative").            *)
(***************************************************************************)
SlotsAccounted ==
  /\ inflight = Cardinality(Holders)
  /\ inflight <= MaxLimit

(***************************************************************************)
(* Every release wakes every waiter: as long as slots keep being released, *)
(* no goroutine stays parked in Wait.                                      *)
(***************************************************************************)
ReleasesWakeWaiters ==
  []<>(\E c \in Callers : At(c, "broadcast")) =>
    \A c \in Blocking : At(c, "parked") ~> ~At(c, "parked")

(***************************************************************************)
(* The comment on Wait: "a release Broadcasts on the shared condition      *)
(* variable, and a single watcher goroutine converts ctx cancellation into *)
(* a Broadcast too, so a blocked waiter always re-checks after either      *)
(* event".  A parked goroutine that has a slot to take has a Broadcast of  *)
(* a release coming; one whose ctx is done has its watcher's coming.       *)
(***************************************************************************)
BlockedWaiterRechecks ==
  \A c \in Callers : At(c, "parked") =>
    /\ inflight < limit => \E d \in Callers : At(d, "update") \/ At(d, "broadcast")
    /\ call[c].ctxDone => watcher[c]
=============================================================================
