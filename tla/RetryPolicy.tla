---------------------------- MODULE RetryPolicy ----------------------------
(***************************************************************************)
(* Retries: the loop of Policy.Do (retry/retry.go), the delays of          *)
(* retry/backoff, the token budget shared by all calls of a policy         *)
(* (retry/budget.go) and the deadline each attempt gets from a pipeline's  *)
(* RetryBudgeted stage (pipeline/attempt_budget.go).                       *)
(*                                                                         *)
(* The function under retry returns when its context ends, at the latest.  *)
(* The budget counts in units, UnitsPerToken to a token, so that a refill  *)
(* can leave a fraction of one.  The observed request rate, an             *)
(* exponential average, moves to some value between what it was and the    *)
(* rate of the last arrival.                                               *)
(***************************************************************************)
EXTENDS Integers, Sequences, FiniteSets, FiniteSetsExt, Functions

CONSTANTS
  RetryCalls,
  MaxAttempts,
  Overall,         \* the caller's deadline, from the start of its call
  PerAttempt,      \* WithPerAttemptTimeout; 0 is none
  BaseDelay, MaxDelay, Width,   \* backoff, in a machine word of Width bits
  UnitsPerToken, BudgetBurst,   \* the bucket's size, in tokens
  MinRate,         \* MinPerSecond, in units a tick
  ArrivalRate,     \* Ratio times one request a tick, in units a tick
  MaxRetryNow, MaxDeposits

ASSUME RetryAssumption ==
  /\ MaxAttempts \in Nat \ {0} /\ Overall \in Nat /\ PerAttempt \in Nat
  /\ BaseDelay \in Nat /\ MaxDelay \in Nat /\ Width \in Nat \ {0}
  /\ UnitsPerToken \in Nat \ {0} /\ BudgetBurst \in Nat /\ MinRate \in Nat /\ ArrivalRate \in Nat
  /\ MaxRetryNow \in Nat /\ MaxDeposits \in Nat

VARIABLES
  divide,          \* WithAttemptBudgeting
  backoff,         \* the strategy
  decorrelated,    \* the previous delay of the decorrelated strategy
  retryNow,
  budget,          \* tokens, rate, haveReq, lastReq, lastFill
  attempts,        \* per call: pc, attempt, deadline, until (of the attempt or the sleep)
  retryLog         \* when a retry was let through (cost 1) and tokens were deposited

retryVars == <<divide, backoff, decorrelated, retryNow, budget, attempts, retryLog>>

NotCalled == [pc |-> "new", attempt |-> 0, began |-> 0, deadline |-> 0, until |-> 0, cancelled |-> FALSE]
Over == [NotCalled EXCEPT !.pc = "over"]

RetryInit ==
  /\ backoff \in {"none", "constant", "exponential", "full", "equal", "decorrelated"}
  /\ divide \in (IF backoff \in {"none", "full"} THEN {TRUE} ELSE {FALSE})
  /\ decorrelated = BaseDelay
  /\ retryNow = 0
  /\ budget = [tokens |-> BudgetBurst * UnitsPerToken, rate |-> 0, haveReq |-> FALSE, lastReq |-> 0, lastFill |-> 0]
  /\ attempts = [c \in RetryCalls |-> NotCalled]
  /\ retryLog = <<>>

-----------------------------------------------------------------------------
(* Delays                                                                   *)

AtMost(x, bound) == IF x > bound THEN bound ELSE x

\* base << n in a signed machine word.
ShiftLeft(base, n) ==
  LET w == (base * 2^n) % 2^Width
  IN  IF w >= 2^(Width - 1) THEN w - 2^Width ELSE w

\* exponentialBackoff.Next and exponentialCap.
ExponentialCap(n) ==
  LET d == ShiftLeft(BaseDelay, AtMost(n, Width - 2))
  IN  IF BaseDelay = 0 THEN 0 ELSE IF d <= 0 \/ d > MaxDelay THEN MaxDelay ELSE d

\* The delays Next(n) may return; the decorrelated one lies between the base
\* and three times the last.
BackoffNext(n) ==
  LET e == ExponentialCap(n)
      upper == AtMost(3 * decorrelated, MaxDelay)
  IN  CASE backoff = "none" -> {0}
        [] backoff = "constant" -> {BaseDelay}
        [] backoff = "exponential" -> {e}
        [] backoff = "full" -> IF e = 0 THEN {0} ELSE 0..(e - 1)
        [] backoff = "equal" -> IF e \div 2 = 0 THEN {e} ELSE (e \div 2)..(2 * (e \div 2) - 1)
        [] backoff = "decorrelated" -> IF BaseDelay >= upper THEN {AtMost(BaseDelay, MaxDelay)}
                                       ELSE BaseDelay..(upper - 1)

-----------------------------------------------------------------------------
(* The budget                                                               *)

RefillRate(b) == IF b.rate < MinRate THEN MinRate ELSE b.rate

\* Variant: the bucket is not capped.
RefillUncapped(b) ==
  IF retryNow <= b.lastFill THEN b
  ELSE [b EXCEPT !.lastFill = retryNow, !.tokens = @ + (retryNow - b.lastFill) * RefillRate(b)]

Refill(b) ==
  IF retryNow <= b.lastFill THEN b
  ELSE [b EXCEPT !.lastFill = retryNow,
                 !.tokens = AtMost(@ + (retryNow - b.lastFill) * RefillRate(b), BudgetBurst * UnitsPerToken)]

\* RecordAttempt: the first call only starts the estimate, below the floor, where
\* its value makes no difference; calls at the same time leave it.
RecordAttempt ==
  LET b == Refill(budget)
      dt == retryNow - b.lastReq
      inst == ArrivalRate \div dt
      seen == [b EXCEPT !.haveReq = TRUE, !.lastReq = retryNow]
  IN  IF ~b.haveReq \/ dt <= 0 THEN budget' = seen
      ELSE \E r \in AtMost(b.rate, inst)..(b.rate + inst - AtMost(b.rate, inst)) :
             budget' = [seen EXCEPT !.rate = r]

Affordable(b) == b.tokens >= UnitsPerToken

Deposit(n) ==
  LET b == Refill(budget)
  IN  /\ Cardinality({i \in DOMAIN retryLog : retryLog[i].cost < 0}) < MaxDeposits
      /\ budget' = [b EXCEPT !.tokens = AtMost(@ + n, BudgetBurst * UnitsPerToken)]
      /\ retryLog' = Append(retryLog, [at |-> retryNow, cost |-> 0 - n])
      /\ UNCHANGED <<divide, backoff, decorrelated, retryNow, attempts>>

-----------------------------------------------------------------------------
(* The loop                                                                 *)

Done(me) == me.cancelled \/ retryNow >= me.deadline

StartDo(c) ==
  /\ attempts[c].pc = "new"
  /\ RecordAttempt
  /\ attempts' = [attempts EXCEPT ![c] = [NotCalled EXCEPT !.pc = "try", !.deadline = retryNow + Overall]]
  /\ UNCHANGED <<divide, backoff, decorrelated, retryNow, retryLog>>

\* Variant: the attempt that is about to run is not counted as one to come.
SliceAfter(me) == LET left == MaxAttempts - me.attempt - 1
                  IN  (me.deadline - retryNow) \div (IF left < 1 THEN 1 ELSE left)

\* With attempt budgeting, what remains is shared among the attempts to come.
Slice(me) == (me.deadline - retryNow) \div (MaxAttempts - me.attempt)

\* The deadline of the attempt: the least of what remains, its share (when that
\* is not 0) and the fixed timeout.
AttemptDuration(me) ==
  Min({me.deadline - retryNow}
      \cup (IF divide /\ Slice(me) > 0 THEN {Slice(me)} ELSE {})
      \cup (IF PerAttempt > 0 THEN {PerAttempt} ELSE {}))

\* The head of the loop: the context, then the budget for all but the first
\* attempt.  A budget that refuses ends the call with the last error.
TryAttempt(c) ==
  LET me == attempts[c]
      b == Refill(budget)
      runs == [attempts EXCEPT ![c].pc = "running", ![c].until = retryNow + AttemptDuration(me), ![c].began = retryNow]
  IN  /\ me.pc = "try"
      /\ \/ /\ Done(me)
            /\ attempts' = [attempts EXCEPT ![c] = Over] /\ UNCHANGED <<budget, retryLog>>
         \/ /\ ~Done(me) /\ me.attempt = 0
            /\ attempts' = runs /\ UNCHANGED <<budget, retryLog>>
         \/ /\ ~Done(me) /\ me.attempt > 0 /\ ~Affordable(b)
            /\ attempts' = [attempts EXCEPT ![c] = Over] /\ budget' = b /\ UNCHANGED retryLog
         \/ /\ ~Done(me) /\ me.attempt > 0 /\ Affordable(b)
            /\ attempts' = runs
            /\ budget' = [b EXCEPT !.tokens = @ - UnitsPerToken]
            /\ retryLog' = Append(retryLog, [at |-> retryNow, cost |-> UnitsPerToken])
      /\ UNCHANGED <<divide, backoff, decorrelated, retryNow>>

\* The function succeeds, or fails for good: an error RetryIf refuses, or the
\* last attempt.
FnEnds(c) ==
  /\ attempts[c].pc = "running"
  /\ attempts' = [attempts EXCEPT ![c] = Over]
  /\ UNCHANGED <<divide, backoff, decorrelated, retryNow, budget, retryLog>>

\* The function fails and will be tried again: the delay is capped, and a delay
\* of 0 is not slept.
FnFails(c) ==
  LET me == attempts[c]
  IN  /\ me.pc = "running" /\ me.attempt < MaxAttempts - 1
      /\ \E d \in BackoffNext(me.attempt) :
           /\ attempts' = [attempts EXCEPT ![c].attempt = @ + 1, ![c].began = 0,
                                           ![c].until = IF d = 0 THEN 0 ELSE retryNow + AtMost(d, MaxDelay),
                                           ![c].pc = IF d = 0 THEN "try" ELSE "sleeping"]
           /\ decorrelated' = IF backoff = "decorrelated" THEN d ELSE decorrelated
      /\ UNCHANGED <<divide, backoff, retryNow, budget, retryLog>>

\* sleepWithContext: the timer, or the end of the context; either may be taken
\* when both are there.
Wake(c) ==
  LET me == attempts[c]
  IN  /\ me.pc = "sleeping"
      /\ \/ retryNow >= me.until /\ attempts' = [attempts EXCEPT ![c].pc = "try", ![c].until = 0]
         \/ Done(me) /\ attempts' = [attempts EXCEPT ![c] = Over]
      /\ UNCHANGED <<divide, backoff, decorrelated, retryNow, budget, retryLog>>

\* The caller cancels.
CancelRetry(c) ==
  /\ attempts[c].pc \in {"try", "running", "sleeping"} /\ ~attempts[c].cancelled
  /\ attempts' = [attempts EXCEPT ![c].cancelled = TRUE]
  /\ UNCHANGED <<divide, backoff, decorrelated, retryNow, budget, retryLog>>

\* Time passes; a step that is due is taken first.
RetryTick ==
  /\ retryNow < MaxRetryNow
  /\ \A c \in RetryCalls :
       LET me == attempts[c]
       IN  me.pc # "try" /\ (me.pc \in {"running", "sleeping"} => retryNow < me.until /\ ~Done(me))
  /\ retryNow' = retryNow + 1
  /\ UNCHANGED <<divide, backoff, decorrelated, budget, attempts, retryLog>>

RetryNext ==
  \/ \E c \in RetryCalls : StartDo(c) \/ TryAttempt(c) \/ FnEnds(c) \/ FnFails(c) \/ Wake(c) \/ CancelRetry(c)
  \/ Deposit(1)
  \/ RetryTick

RetrySpec == RetryInit /\ [][RetryNext]_retryVars

-----------------------------------------------------------------------------
(* Properties                                                               *)

Spent(i, j) == SumFunctionOnSet([k \in DOMAIN retryLog |-> retryLog[k].cost], i..j)

(***************************************************************************)
(* The budget holds off a retry storm: over any stretch of time all calls  *)
(* together make no more retries than a full bucket, what was deposited    *)
(* since, and the greatest refill rate, however long the policy was idle   *)
(* before and whoever slept, was cancelled or was refused in between       *)
(* (budget.go refillLocked, CanRetry; retry.go:194).                       *)
(***************************************************************************)
RetriesWithinBudget ==
  \A i, j \in DOMAIN retryLog :
    i <= j => Spent(i, j) <= BudgetBurst * UnitsPerToken
                + (retryLog[j].at - retryLog[i].at) * (IF ArrivalRate > MinRate THEN ArrivalRate ELSE MinRate)

(***************************************************************************)
(* "No single attempt can consume the whole overall deadline" and "the     *)
(* total wall-time across all attempts never exceeds the caller's overall  *)
(* context deadline" (attempt_budget.go:86-90): no attempt and no backoff  *)
(* outlasts the caller's deadline, and an attempt that budgeting gave a    *)
(* share leaves every attempt after it as much.                            *)
(***************************************************************************)
AttemptsShareDeadline ==
  \A c \in RetryCalls :
    LET me == attempts[c]
    IN  /\ me.pc \in {"try", "running", "sleeping"} => retryNow <= me.deadline
        /\ me.pc = "running" => me.until <= me.deadline
        /\ (me.pc = "running" /\ divide /\ me.deadline - me.began >= MaxAttempts - me.attempt) =>
             me.deadline - me.until >= (MaxAttempts - me.attempt - 1) * (me.until - me.began)
=============================================================================
