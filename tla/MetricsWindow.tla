--------------------------- MODULE MetricsWindow ---------------------------
(***************************************************************************)
(* The two failure windows of circuitbreaker/metrics.go: the ring buffer   *)
(* of the last Size outcomes (countWindow) and the rolling time window     *)
(* made of fixed-width buckets (timeWindow).  Every method holds the       *)
(* window's own mutex, so each is one step.  Both windows are fed the same *)
(* outcomes, and log keeps the outcomes recorded since the last reset: it  *)
(* is what the windows summarise.                                          *)
(***************************************************************************)
EXTENDS Integers, Sequences, FiniteSets, Functions

CONSTANTS
  Size,         \* countWindow.size
  NumBuckets, BucketWidth,
  MaxNow,       \* bound on the clock
  MaxRecords    \* bound on the outcomes recorded between two resets

ASSUME WindowAssumption ==
  /\ Size \in Nat \ {0} /\ NumBuckets \in Nat \ {0} /\ BucketWidth \in Nat \ {0}
  /\ MaxNow \in Nat /\ MaxRecords \in Nat

VARIABLES
  ring, head, cFailures, cTotal,     \* countWindow
  buckets, tFailures, tRequests,     \* timeWindow
  now, log

countWin == <<ring, head, cFailures, cTotal>>
timeWin  == <<buckets, tFailures, tRequests>>
vars     == <<countWin, timeWin, now, log>>

Outcomes == {"success", "failure"}

One(o) == IF o = "failure" THEN 1 ELSE 0

-----------------------------------------------------------------------------
(* countWindow                                                              *)

\* make([]outcome, size): the zero value of outcome is a success.
EmptyRing == [i \in 0..(Size - 1) |-> "success"]

\* Variant: a full ring drops the failure at the new head, not the old one.
CountRecordAfterMove(o) ==
  LET next == (head + 1) % Size
      full == cTotal = Size
  IN  /\ cTotal' = IF full THEN cTotal ELSE cTotal + 1
      /\ cFailures' = cFailures + One(o) - (IF full THEN One(ring[next]) ELSE 0)
      /\ ring' = [ring EXCEPT ![head] = o]
      /\ head' = next

CountRecord(o) ==
  LET full == cTotal = Size
  IN  /\ cTotal' = IF full THEN cTotal ELSE cTotal + 1
      /\ cFailures' = cFailures + One(o) - (IF full THEN One(ring[head]) ELSE 0)
      /\ ring' = [ring EXCEPT ![head] = o]
      /\ head' = (head + 1) % Size

-----------------------------------------------------------------------------
(* timeWindow                                                               *)

\* The layout of newTimeWindow and reset: the newest bucket starts now.
FreshBuckets(t) ==
  [i \in 1..NumBuckets |->
     [start |-> t - (NumBuckets - i) * BucketWidth, failures |-> 0, requests |-> 0]]

\* The counts of the buckets in S.
FailuresOf(bs, S) == SumFunctionOnSet([i \in 1..NumBuckets |-> bs[i].failures], S)
RequestsOf(bs, S) == SumFunctionOnSet([i \in 1..NumBuckets |-> bs[i].requests], S)

\* Variant: rolls one bucket late, so the span is one bucket too long.
RollsLate(bs, t) ==
  LET late == t - bs[NumBuckets].start
  IN  IF late < 2 * BucketWidth THEN 0 ELSE late \div BucketWidth - 1

\* The number of times slide() rolls the newest bucket forward.
Rolls(bs, t) ==
  LET late == t - bs[NumBuckets].start
  IN  IF late < BucketWidth THEN 0 ELSE late \div BucketWidth

(***************************************************************************)
(* slide(): every roll evicts the oldest bucket and appends an empty one   *)
(* right after the newest, so n rolls shift the buckets by n.              *)
(***************************************************************************)
Slid(bs, t) ==
  LET n == Rolls(bs, t)
  IN  [i \in 1..NumBuckets |->
         IF i + n <= NumBuckets
           THEN bs[i + n]
           ELSE [start |-> bs[NumBuckets].start + (i + n - NumBuckets) * BucketWidth,
                 failures |-> 0, requests |-> 0]]

\* The buckets slide() evicts, whose counts it subtracts from the totals.
Evicted(bs, t) ==
  LET n == Rolls(bs, t)
  IN  1..(IF n < NumBuckets THEN n ELSE NumBuckets)

SlidFailures == tFailures - FailuresOf(buckets, Evicted(buckets, now))
SlidRequests == tRequests - RequestsOf(buckets, Evicted(buckets, now))

\* Variant: the window-wide failure total is not counted up.
TimeRecordUncounted(o) ==
  /\ buckets' = [Slid(buckets, now) EXCEPT ![NumBuckets].requests = @ + 1,
                                           ![NumBuckets].failures = @ + One(o)]
  /\ tFailures' = SlidFailures
  /\ tRequests' = SlidRequests + 1

TimeRecord(o) ==
  /\ buckets' = [Slid(buckets, now) EXCEPT ![NumBuckets].requests = @ + 1,
                                           ![NumBuckets].failures = @ + One(o)]
  /\ tFailures' = SlidFailures + One(o)
  /\ tRequests' = SlidRequests + 1

\* counts(), which slides the window too.
TimeCounts ==
  /\ buckets' = Slid(buckets, now)
  /\ tFailures' = SlidFailures
  /\ tRequests' = SlidRequests

-----------------------------------------------------------------------------
Init ==
  /\ now = 0 /\ log = <<>>
  /\ ring = EmptyRing /\ head = 0 /\ cFailures = 0 /\ cTotal = 0
  /\ buckets = FreshBuckets(0) /\ tFailures = 0 /\ tRequests = 0

Record(o) ==
  /\ Len(log) < MaxRecords
  /\ CountRecord(o)
  /\ TimeRecord(o)
  /\ log' = Append(log, [outcome |-> o, at |-> now])
  /\ UNCHANGED now

Counts ==
  /\ TimeCounts
  /\ UNCHANGED <<countWin, now, log>>

Reset ==
  /\ ring' = EmptyRing /\ head' = 0 /\ cFailures' = 0 /\ cTotal' = 0
  /\ buckets' = FreshBuckets(now) /\ tFailures' = 0 /\ tRequests' = 0
  /\ log' = <<>>
  /\ UNCHANGED now

Tick ==
  /\ now < MaxNow
  /\ now' = now + 1
  /\ UNCHANGED <<countWin, timeWin, log>>

Next == (\E o \in Outcomes : Record(o)) \/ Counts \/ Reset \/ Tick

Spec == Init /\ [][Next]_vars

-----------------------------------------------------------------------------
(* Properties                                                               *)

\* The failures among the outcomes of S, a set of places in the log.
Failed(S) == {i \in S : log[i].outcome = "failure"}

(***************************************************************************)
(* countWindow's precomputed counters are those of the last Size outcomes: *)
(* no sequence of records, evictions and resets makes failures drift.      *)
(***************************************************************************)
CountWindowExact ==
  LET kept == {i \in DOMAIN log : i > Len(log) - Size}
  IN  cTotal = Cardinality(kept) /\ cFailures = Cardinality(Failed(kept))

\* The recorded outcomes that are less than d ticks old.
Younger(d) == {i \in DOMAIN log : log[i].at > now - d}

(***************************************************************************)
(* What timeWindow.counts() would answer now covers every outcome of the   *)
(* last (NumBuckets - 1) * BucketWidth ticks and none that is a whole      *)
(* windowDuration old: metrics.go:171 "the retained span equal to          *)
(* windowDuration", to within the one bucket that is still filling.        *)
(***************************************************************************)
TimeWindowSpan ==
  LET span == NumBuckets * BucketWidth
      sure == Younger(span - BucketWidth + 1)
      most == Younger(span)
  IN  /\ Cardinality(sure) <= SlidRequests /\ SlidRequests <= Cardinality(most)
      /\ Cardinality(Failed(sure)) <= SlidFailures /\ SlidFailures <= Cardinality(Failed(most))

(***************************************************************************)
(* The running totals of timeWindow are the sums over its buckets, and the *)
(* buckets are contiguous.                                                 *)
(***************************************************************************)
TimeTotalsMatchBuckets ==
  /\ tFailures = FailuresOf(buckets, 1..NumBuckets)
  /\ tRequests = RequestsOf(buckets, 1..NumBuckets)
  /\ \A i \in 1..(NumBuckets - 1) : buckets[i + 1].start = buckets[i].start + BucketWidth
=============================================================================
