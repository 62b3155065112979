--------------------------- MODULE CircuitBreaker ---------------------------
(***************************************************************************)
(* The in-process circuit breaker, circuitbreaker/circuitbreaker.go.       *)
(*                                                                         *)
(* Every goroutine that calls Execute is a process.  The breaker's fields  *)
(* are atomics that Execute reads and writes one at a time and without the *)
(* mutex; only the transitionTo... methods hold cb.mu, and even they store *)
(* the fields one after the other in view of the other goroutines.  So one *)
(* action here is one atomic load, store, add or compare-and-swap, with    *)
(* the local computation around it.  Taking the mutex is merged with the   *)
(* first store under it and releasing it with the last one.                *)
(***************************************************************************)
EXTENDS Integers, Sequences, FiniteSets, ProbeStrategy

CONSTANTS
  Callers,              \* goroutines that use the breaker
  NoCaller,             \* the owner of a free mutex
  OpenTimeout, HalfOpenMaxRequests, SuccessThreshold, FailureThreshold,
  WindowType,           \* "CountBased" or "TimeBased"
  WindowSize,           \* outcomes kept by a count-based window
  WindowDuration,       \* ticks kept by a time-based window, one bucket a tick
  MinimumRequests, RateNum, RateDen,  \* FailureRateThreshold = RateNum / RateDen
  RequestTimeout,       \* TRUE when cfg.RequestTimeout > 0
  Strategy,             \* the half-open strategy, see ProbeStrategy
  MaxNow,               \* bound on the clock
  MaxRecorded           \* bound on the outcomes in a time-based window

ASSUME ConfigAssumption ==
  /\ IsFiniteSet(Callers)
  /\ NoCaller \notin Callers
  /\ OpenTimeout \in Nat \ {0}
  /\ HalfOpenMaxRequests \in Nat \ {0}
  /\ SuccessThreshold \in Nat \ {0}
  /\ MaxNow \in Nat \ {0}
  /\ Strategy \in [type : {"fixed", "linear", "exponential"},
                   start : Int, step : Int, minInterval : Int]

VARIABLES
  state,      \* cb.state
  openedAt,   \* cb.openedAt, 0 when unset
  halfOpenAt, \* cb.halfOpenAt, 0 when unset
  halfOpenInflight,   \* cb.halfOpenInflight
  successes,  \* cb.consecutiveSuccesses
  win,        \* the outcomes in the metrics window, oldest first
  mu,         \* the goroutine that holds cb.mu
  now,        \* cfg.Clock
  pc,         \* per goroutine: the next step of its Execute
  seen,       \* per goroutine: the state it last read
  reg,        \* per goroutine: the integer atomic it last loaded
  probe,      \* per goroutine: acquiredProbe
  failed      \* per goroutine: isFailure

fields == <<state, openedAt, halfOpenAt, halfOpenInflight, successes, win>>
locals == <<pc, seen, reg, probe, failed>>
vars   == <<fields, mu, now, locals>>

States == {"Closed", "Open", "HalfOpen"}

-----------------------------------------------------------------------------
(* The metrics window.  MetricsWindow.tla checks the ring and the buckets.  *)

\* The number of outcomes of w that a time-based window has evicted by time t.
Expired(w, t) == Cardinality({i \in DOMAIN w : w[i].at <= t - WindowDuration})

\* record(): the window after an outcome at time t.
Recorded(w, isFail, t) ==
  IF WindowType = "TimeBased"
    THEN Append(SubSeq(w, Expired(w, t) + 1, Len(w)), [fail |-> isFail, at |-> t])
    ELSE LET all == Append(w, [fail |-> isFail, at |-> 0])
         IN  IF Len(all) > WindowSize THEN Tail(all) ELSE all

Failures(w) == Cardinality({i \in DOMAIN w : w[i].fail})

\* Bounds the calls made within one WindowDuration.
WindowHasRoom ==
  WindowType = "TimeBased" =>
    Len(win) - Expired(win, now) < MaxRecorded

\* shouldOpenCounts
ShouldOpen(w) ==
  /\ Failures(w) >= FailureThreshold
  /\ WindowType = "TimeBased" =>
       /\ Len(w) >= MinimumRequests
       /\ Failures(w) * RateDen >= RateNum * Len(w)

(***************************************************************************)
(* How fn may end: err as the configured IsFailure tells errors apart, and *)
(* whether the context given to fn had passed its deadline.  A panic       *)
(* reaches afterExecute as an error too, through the deferred recover, and *)
(* IsFailure classifies that error like any other.                         *)
(***************************************************************************)
Results == [err : {"nil", "canceled", "ignored", "error"}, deadline : BOOLEAN]

\* The classification at the head of afterExecute.
IsFailure(r) ==
  /\ r.err # "nil"
  /\ (RequestTimeout /\ r.deadline) \/ r.err = "error"

\* The number of probes beforeExecute admits now.
Allowed ==
  LET a == MaxConcurrentProbes(Strategy, HalfOpenMaxRequests, successes, halfOpenAt, now)
  IN  IF a > HalfOpenMaxRequests THEN HalfOpenMaxRequests ELSE a

-----------------------------------------------------------------------------
Init ==
  /\ state = "Closed" /\ openedAt = 0 /\ halfOpenAt = 0
  /\ halfOpenInflight = 0 /\ successes = 0 /\ win = <<>>
  /\ mu = NoCaller
  /\ now = 1
  /\ pc = [c \in Callers |-> "idle"]
  /\ seen = [c \in Callers |-> "Closed"]
  /\ reg = [c \in Callers |-> 0]
  /\ probe = [c \in Callers |-> FALSE]
  /\ failed = [c \in Callers |-> FALSE]

Goto(c, label) == pc' = [pc EXCEPT ![c] = label]

At(c, label) == pc[c] = label

-----------------------------------------------------------------------------
(* beforeExecute                                                            *)

BeginExecute(c) ==
  /\ At(c, "idle")
  /\ WindowHasRoom
  /\ seen' = [seen EXCEPT ![c] = state]
  /\ probe' = [probe EXCEPT ![c] = FALSE]
  /\ Goto(c, CASE state = "Closed"   -> "fn"
               [] state = "Open"     -> "resetLoad"
               [] state = "HalfOpen" -> "probeLoad")
  /\ UNCHANGED <<fields, mu, now, reg, failed>>

\* shouldAttemptReset: an unset openedAt rejects the call.
LoadOpenedAt(c) ==
  /\ At(c, "resetLoad")
  /\ reg' = [reg EXCEPT ![c] = openedAt]
  /\ Goto(c, IF openedAt = 0 THEN "idle" ELSE "resetCheck")
  /\ UNCHANGED <<fields, mu, now, seen, probe, failed>>

\* Variant: an open circuit admits a probe without looking at the clock.
CheckOpenTimeoutIgnored(c) ==
  /\ At(c, "resetCheck")
  /\ Goto(c, "toHalfOpen")
  /\ UNCHANGED <<fields, mu, now, seen, reg, probe, failed>>

\* ... and so does an OpenTimeout that has not elapsed.
CheckOpenTimeout(c) ==
  /\ At(c, "resetCheck")
  /\ Goto(c, IF now >= reg[c] + OpenTimeout THEN "toHalfOpen" ELSE "idle")
  /\ UNCHANGED <<fields, mu, now, seen, reg, probe, failed>>

LoadInflight(c) ==
  /\ At(c, "probeLoad")
  /\ reg' = [reg EXCEPT ![c] = halfOpenInflight]
  /\ Goto(c, "probeAllow")
  /\ UNCHANGED <<fields, mu, now, seen, probe, failed>>

(***************************************************************************)
(* The loads of probeContext are one step: whatever mixture of values they *)
(* return, Allowed lies in 1..HalfOpenMaxRequests, and nothing else about  *)
(* it is relied on.                                                        *)
(***************************************************************************)
CheckAllowance(c) ==
  /\ At(c, "probeAllow")
  /\ Goto(c, IF reg[c] >= Allowed THEN "idle" ELSE "probeCAS")
  /\ UNCHANGED <<fields, mu, now, seen, reg, probe, failed>>

\* Variant: Add(1) in place of the compare-and-swap.
AcquireProbeByAdd(c) ==
  /\ At(c, "probeCAS")
  /\ halfOpenInflight' = halfOpenInflight + 1
  /\ probe' = [probe EXCEPT ![c] = TRUE]
  /\ Goto(c, "fn")
  /\ UNCHANGED <<state, openedAt, halfOpenAt, successes, win, mu, now, seen, reg, failed>>

AcquireProbe(c) ==
  /\ At(c, "probeCAS")
  /\ IF halfOpenInflight = reg[c]
       THEN /\ halfOpenInflight' = reg[c] + 1
            /\ probe' = [probe EXCEPT ![c] = TRUE]
            /\ Goto(c, "fn")
       ELSE /\ Goto(c, "probeLoad")
            /\ UNCHANGED <<halfOpenInflight, probe>>
  /\ UNCHANGED <<state, openedAt, halfOpenAt, successes, win, mu, now, seen, reg, failed>>

-----------------------------------------------------------------------------
(* fn and afterExecute                                                      *)

\* fn returns or panics: either way afterExecute is called, with an error of Results.
RunFn(c) ==
  /\ At(c, "fn")
  /\ \E r \in Results : failed' = [failed EXCEPT ![c] = IsFailure(r)]
  /\ Goto(c, "after")
  /\ UNCHANGED <<fields, mu, now, seen, reg, probe>>

LoadState(c) ==
  /\ At(c, "after")
  /\ seen' = [seen EXCEPT ![c] = state]
  /\ Goto(c, "release")
  /\ UNCHANGED <<fields, mu, now, reg, probe, failed>>

\* Variant: every call that saw a circuit that is not closed gives a slot back.
ReleaseProbeByState(c) ==
  /\ At(c, "release")
  /\ halfOpenInflight' = IF seen[c] # "Closed" THEN halfOpenInflight - 1 ELSE halfOpenInflight
  /\ probe' = [probe EXCEPT ![c] = FALSE]
  /\ Goto(c, "record")
  /\ UNCHANGED <<state, openedAt, halfOpenAt, successes, win, mu, now, seen, reg, failed>>

ReleaseProbe(c) ==
  /\ At(c, "release")
  /\ halfOpenInflight' = IF probe[c] THEN halfOpenInflight - 1 ELSE halfOpenInflight
  /\ probe' = [probe EXCEPT ![c] = FALSE]
  /\ Goto(c, "record")
  /\ UNCHANGED <<state, openedAt, halfOpenAt, successes, win, mu, now, seen, reg, failed>>

\* recordOutcome, then the switch on the state read at the head of afterExecute.
Record(c) ==
  /\ At(c, "record")
  /\ win' = Recorded(win, failed[c], now)
  /\ Goto(c, CASE seen[c] = "HalfOpen" -> IF failed[c] THEN "toOpen" ELSE "addSuccess"
               [] seen[c] = "Closed"   ->
                    IF (failed[c] \/ WindowType = "TimeBased") /\ ShouldOpen(win')
                      THEN "toOpen" ELSE "idle"
               [] seen[c] = "Open"     -> "idle")
  /\ UNCHANGED <<state, openedAt, halfOpenAt, halfOpenInflight, successes, mu, now,
                 seen, reg, probe, failed>>

AddSuccess(c) ==
  /\ At(c, "addSuccess")
  /\ successes' = successes + 1
  /\ Goto(c, IF successes + 1 >= SuccessThreshold THEN "toClosed" ELSE "idle")
  /\ UNCHANGED <<state, openedAt, halfOpenAt, halfOpenInflight, win, mu, now,
                 seen, reg, probe, failed>>

-----------------------------------------------------------------------------
(* The transitions, under cb.mu.                                            *)

\* Takes the mutex: keeps it when the transition goes ahead.
Lock(c, goesAhead) ==
  /\ mu = NoCaller
  /\ mu' = IF goesAhead THEN c ELSE NoCaller

Unlock(c) == mu = c /\ mu' = NoCaller

\* Variant: the state is not looked at again under the mutex.
EnterHalfOpenUnchecked(c) ==
  /\ At(c, "toHalfOpen")
  /\ Lock(c, TRUE)
  /\ state' = "HalfOpen"
  /\ Goto(c, "halfStamp")
  /\ UNCHANGED <<openedAt, halfOpenAt, halfOpenInflight, successes, win, now, seen, reg, probe, failed>>

EnterHalfOpen(c) ==
  /\ At(c, "toHalfOpen")
  /\ Lock(c, state = "Open")
  /\ state' = IF state = "Open" THEN "HalfOpen" ELSE state
  /\ Goto(c, IF state = "Open" THEN "halfStamp" ELSE "probeLoad")
  /\ UNCHANGED <<openedAt, halfOpenAt, halfOpenInflight, successes, win, now, seen, reg, probe, failed>>

EnterOpen(c) ==
  /\ At(c, "toOpen")
  /\ Lock(c, state # "Open")
  /\ state' = "Open"
  /\ openedAt' = IF state = "Open" THEN now ELSE openedAt
  /\ Goto(c, IF state = "Open" THEN "idle" ELSE "openStamp")
  /\ UNCHANGED <<halfOpenAt, halfOpenInflight, successes, win, now, seen, reg, probe, failed>>

\* Variant: waits for the circuit to leave the closed state.
EnterClosedWaiting(c) ==
  /\ At(c, "toClosed")
  /\ Lock(c, state # "Closed")
  /\ state' = "Closed"
  /\ Goto(c, IF state = "Closed" THEN "toClosed" ELSE "closeStamp")
  /\ UNCHANGED <<openedAt, halfOpenAt, halfOpenInflight, successes, win, now, seen, reg, probe, failed>>

EnterClosed(c) ==
  /\ At(c, "toClosed")
  /\ Lock(c, state # "Closed")
  /\ state' = "Closed"
  /\ Goto(c, IF state = "Closed" THEN "idle" ELSE "closeStamp")
  /\ UNCHANGED <<openedAt, halfOpenAt, halfOpenInflight, successes, win, now, seen, reg, probe, failed>>

\* Variant: closing leaves the time of the last opening behind.
StampOpenedAtOnlyOnOpen(c) ==
  /\ \/ At(c, "openStamp") /\ openedAt' = now /\ Goto(c, "openClear")
     \/ At(c, "closeStamp") /\ openedAt' = openedAt /\ Goto(c, "closeClear")
  /\ UNCHANGED <<state, halfOpenAt, halfOpenInflight, successes, win, mu, now, seen, reg, probe, failed>>

\* Variant: opening does not record when.
StampOpenedAtForgotten(c) ==
  /\ \/ At(c, "openStamp") /\ openedAt' = openedAt /\ Goto(c, "openClear")
     \/ At(c, "closeStamp") /\ openedAt' = 0 /\ Goto(c, "closeClear")
  /\ UNCHANGED <<state, halfOpenAt, halfOpenInflight, successes, win, mu, now, seen, reg, probe, failed>>

\* openedAt.Store: the time of opening, or 0 on closing.
StampOpenedAt(c) ==
  /\ \/ At(c, "openStamp") /\ openedAt' = now /\ Goto(c, "openClear")
     \/ At(c, "closeStamp") /\ openedAt' = 0 /\ Goto(c, "closeClear")
  /\ UNCHANGED <<state, halfOpenAt, halfOpenInflight, successes, win, mu, now, seen, reg, probe, failed>>

\* halfOpenAt.Store: the start of the half-open episode, or 0 at its end.
StampHalfOpenAt(c) ==
  /\ \/ At(c, "halfStamp") /\ halfOpenAt' = now /\ Goto(c, "halfReset")
     \/ At(c, "openClear") /\ halfOpenAt' = 0 /\ Goto(c, "openReset")
     \/ At(c, "closeClear") /\ halfOpenAt' = 0 /\ Goto(c, "closeReset")
  /\ UNCHANGED <<state, openedAt, halfOpenInflight, successes, win, mu, now, seen, reg, probe, failed>>

\* consecutiveSuccesses.Store(0), the last store of all but closing.
ResetSuccesses(c) ==
  /\ successes' = 0
  /\ \/ At(c, "halfReset") /\ Goto(c, "probeLoad") /\ Unlock(c)
     \/ At(c, "openReset") /\ Goto(c, "idle") /\ Unlock(c)
     \/ At(c, "closeReset") /\ Goto(c, "closeWindow") /\ UNCHANGED mu
  /\ UNCHANGED <<state, openedAt, halfOpenAt, halfOpenInflight, win, now, seen, reg, probe, failed>>

ResetWindow(c) ==
  /\ At(c, "closeWindow")
  /\ win' = <<>>
  /\ Unlock(c)
  /\ Goto(c, "idle")
  /\ UNCHANGED <<state, openedAt, halfOpenAt, halfOpenInflight, successes, now, seen, reg, probe, failed>>

-----------------------------------------------------------------------------
Tick ==
  /\ now < MaxNow
  /\ now' = now + 1
  /\ UNCHANGED <<fields, mu, locals>>

TakeMutex(c) == EnterHalfOpen(c) \/ EnterOpen(c) \/ EnterClosed(c)

Step(c) ==
  \/ LoadOpenedAt(c) \/ CheckOpenTimeout(c)
  \/ LoadInflight(c) \/ CheckAllowance(c) \/ AcquireProbe(c)
  \/ RunFn(c) \/ LoadState(c) \/ ReleaseProbe(c)
  \/ Record(c) \/ AddSuccess(c)
  \/ StampOpenedAt(c) \/ StampHalfOpenAt(c) \/ ResetSuccesses(c) \/ ResetWindow(c)

Next ==
  \/ Tick
  \/ \E c \in Callers : BeginExecute(c) \/ TakeMutex(c) \/ Step(c)

Spec == Init /\ [][Next]_vars

(***************************************************************************)
(* Fairness.  A goroutine that can run does, and fn returns; sync.Mutex is *)
(* starvation-free (a waiter past 1ms is handed the lock), hence the       *)
(* strong fairness of taking it; the clock advances; and, for what depends *)
(* on traffic, callers keep calling.                                       *)
(***************************************************************************)
Fairness ==
  /\ WF_vars(Tick)
  /\ \A c \in Callers :
       WF_vars(BeginExecute(c)) /\ WF_vars(Step(c)) /\ SF_vars(TakeMutex(c))

FairSpec == Spec /\ Fairness

-----------------------------------------------------------------------------
(* Properties                                                               *)

Labels ==
  {"idle", "resetLoad", "resetCheck", "toHalfOpen", "halfStamp", "halfReset",
   "probeLoad", "probeAllow", "probeCAS", "fn", "after", "release", "record",
   "addSuccess", "toOpen", "openStamp", "openClear", "openReset",
   "toClosed", "closeStamp", "closeClear", "closeReset", "closeWindow"}

\* Every field and local has its type; the counters are never negative.
TypeOK ==
  /\ state \in States
  /\ openedAt \in 0..now /\ halfOpenAt \in 0..now /\ now \in 1..MaxNow
  /\ halfOpenInflight \in Nat /\ successes \in Nat
  /\ win \in Seq([fail : BOOLEAN, at : Nat])
  /\ mu \in Callers \cup {NoCaller}
  /\ pc \in [Callers -> Labels]
  /\ seen \in [Callers -> States]
  /\ reg \in [Callers -> Nat]
  /\ probe \in [Callers -> BOOLEAN]
  /\ failed \in [Callers -> BOOLEAN]

(***************************************************************************)
(* halfOpenInflight counts exactly the calls that hold a probe slot and    *)
(* never exceeds HalfOpenMaxRequests, although it is never reset, slots    *)
(* outlive the half-open episode they were taken in, fn may panic, and the *)
(* allowance is computed from reads made before the compare-and-swap.      *)
(***************************************************************************)
ProbeSlotsAccounted ==
  /\ halfOpenInflight = Cardinality({c \in Callers : probe[c]})
  /\ halfOpenInflight <= HalfOpenMaxRequests

(***************************************************************************)
(* Whenever cb.mu is free the timestamps agree with the state.  An open    *)
(* circuit with openedAt = 0 would never recover: shouldAttemptReset       *)
(* answers false for it for ever.                                          *)
(***************************************************************************)
TimestampsMatchState ==
  mu = NoCaller =>
    /\ openedAt = 0 <=> state = "Closed"
    /\ halfOpenAt = 0 <=> state # "HalfOpen"

(***************************************************************************)
(* A closed circuit is never put on probation: a goroutine that decided to *)
(* go half-open before another one closed the circuit finds that out when  *)
(* transitionToHalfOpen looks at the state again under the mutex.          *)
(***************************************************************************)
ClosedNeverHalfOpens == [][state = "Closed" => state' # "HalfOpen"]_vars

(***************************************************************************)
(* A call whose fn was started returns to its caller: no goroutine is left *)
(* waiting for cb.mu, and no path through afterExecute skips the release.  *)
(***************************************************************************)
StartedCallsReturn == \A c \in Callers : At(c, "fn") ~> At(c, "idle")

(***************************************************************************)
(* An open circuit does not stay open for ever: as calls keep arriving it  *)
(* leaves the open state, unless re-trips have pushed its OpenTimeout past *)
(* the end of the modelled time.                                           *)
(***************************************************************************)
OpenCircuitRecovers ==
  state = "Open" ~> (state # "Open" \/ openedAt + OpenTimeout > MaxNow)

(***************************************************************************)
(* The state machine of the package comment, circuitbreaker.go:7-12: each  *)
(* change of state is one of its four edges, taken under its condition.    *)
(* The circuit opens from closed by a call whose outcome crossed the       *)
(* failure threshold, that is, one that had read the closed state.         *)
(***************************************************************************)
DocumentedStateMachine ==
  [][state' # state =>
       \/ /\ state = "Closed" /\ state' = "Open"
          /\ \E c \in Callers : At(c, "toOpen") /\ seen[c] = "Closed"
       \/ state = "Open"     /\ state' = "HalfOpen" /\ now >= openedAt + OpenTimeout
       \/ state = "HalfOpen" /\ state' = "Closed"   /\ successes >= SuccessThreshold
       \/ state = "HalfOpen" /\ state' = "Open"]_vars
=============================================================================
