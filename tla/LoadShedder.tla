---------------------------- MODULE LoadShedder ----------------------------
(***************************************************************************)
(* The load shedder (loadshed/loadshed.go): CoDel on the time admitted     *)
(* requests take.  Once every sample for an interval has been at or above  *)
(* the target, requests below a threshold of priority are dropped; the     *)
(* threshold climbs with the number of drop instants that have passed.     *)
(***************************************************************************)
EXTENDS Integers

CONSTANTS
  Requests,
  Target, ShedInterval, PriorityStep,
  ShedPriorities, PriorityDefault, PriorityCeil,
  MaxShedNow

ASSUME ShedAssumption ==
  /\ Target \in Nat \ {0} /\ ShedInterval \in Nat \ {0} /\ PriorityStep \in Nat \ {0}
  /\ PriorityDefault \in Int /\ PriorityCeil \in Int /\ ShedPriorities \subseteq Int /\ MaxShedNow \in Nat

VARIABLES
  shedNow,
  dropping, firstAbove, dropNext, count,   \* the Shedder; firstAbove is Never when zero
  request,              \* per request: when it was admitted, or Never
  lastGood, lastBad,    \* when the last sample below, at or above the target was recorded
  dropped               \* the last decision to drop: how things stood, or none yet

shedVars == <<shedNow, dropping, firstAbove, dropNext, count, request, lastGood, lastBad, dropped>>
shedder == <<dropping, firstAbove, dropNext, count>>

Never == 0 - 1
NoDrop == [any |-> FALSE, standing |-> TRUE, bad |-> TRUE, critical |-> FALSE]

ShedInit ==
  /\ shedNow = 1
  /\ dropping = FALSE /\ firstAbove = Never /\ dropNext = 0 /\ count = 0
  /\ request = [r \in Requests |-> Never]
  /\ lastGood = 0 /\ lastBad = Never /\ dropped = NoDrop

\* interval / sqrt(count), rounded up: a tick is not the smallest time there is.
DropSpacing(n) == CHOOSE d \in 1..ShedInterval : d * d * n >= ShedInterval * ShedInterval
                                                  /\ (d - 1) * (d - 1) * n < ShedInterval * ShedInterval

\* priorityGate
Gate(n, prio) ==
  LET threshold == PriorityDefault + (n - 1) \div PriorityStep
  IN  prio < (IF threshold > PriorityCeil THEN PriorityCeil ELSE threshold)

\* Variant: one sample at the target is enough.
StandingTooLongAtOnce == firstAbove # Never

StandingTooLong == firstAbove # Never /\ shedNow >= firstAbove + ShedInterval

\* A request is turned away, or its clock starts.
Decide(r, drop, prio, entered) ==
  /\ request' = IF drop THEN request ELSE [request EXCEPT ![r] = shedNow]
  /\ dropped' = IF drop THEN [any |-> TRUE, standing |-> ~entered \/ shedNow - lastGood >= ShedInterval,
                              bad |-> lastBad # Never, critical |-> prio >= PriorityCeil]
                ELSE dropped

\* Admit, with shouldDrop under the lock: it enters the dropping state, leaves
\* it, or stays and moves on to the next drop instant.
Admit(r, prio) ==
  /\ request[r] = Never
  /\ \/ /\ ~dropping /\ ~StandingTooLong
        /\ Decide(r, FALSE, prio, FALSE) /\ UNCHANGED shedder
     \/ /\ ~dropping /\ StandingTooLong
        /\ dropping' = TRUE /\ count' = 1 /\ dropNext' = shedNow + ShedInterval
        /\ Decide(r, Gate(1, prio), prio, TRUE) /\ UNCHANGED firstAbove
     \/ /\ dropping /\ firstAbove = Never
        /\ dropping' = FALSE /\ count' = 0
        /\ Decide(r, FALSE, prio, FALSE) /\ UNCHANGED <<firstAbove, dropNext>>
     \/ /\ dropping /\ firstAbove # Never
        /\ count' = IF shedNow >= dropNext THEN count + 1 ELSE count
        /\ dropNext' = IF shedNow >= dropNext THEN shedNow + DropSpacing(count + 1) ELSE dropNext
        /\ Decide(r, Gate(count', prio), prio, FALSE) /\ UNCHANGED <<dropping, firstAbove>>
  /\ UNCHANGED <<shedNow, lastGood, lastBad>>

\* done and record: the time the request took is a sample.  AdmitSimple calls
\* it at once.
RecordSojourn(r) ==
  LET bad == shedNow - request[r] >= Target
  IN  /\ request[r] # Never
      /\ request' = [request EXCEPT ![r] = Never]
      /\ firstAbove' = IF ~bad THEN Never ELSE IF firstAbove = Never THEN shedNow ELSE firstAbove
      /\ lastGood' = IF bad THEN lastGood ELSE shedNow
      /\ lastBad' = IF bad THEN shedNow ELSE Never
      /\ UNCHANGED <<shedNow, dropping, dropNext, count, dropped>>

ShedTick ==
  /\ shedNow < MaxShedNow /\ shedNow' = shedNow + 1
  /\ UNCHANGED <<shedder, request, lastGood, lastBad, dropped>>

ShedNext ==
  \/ \E r \in Requests : RecordSojourn(r) \/ \E prio \in ShedPriorities : Admit(r, prio)
  \/ ShedTick

ShedSpec == ShedInit /\ [][ShedNext]_shedVars

-----------------------------------------------------------------------------
(* Properties                                                               *)

(***************************************************************************)
(* Shedding begins only after a full interval without a sample below the   *)
(* target, and goes on only while the newest sample is at or above it,     *)
(* whatever requests were admitted, finished late or overlapped in         *)
(* between; and work of the highest priority is never shed (loadshed.go    *)
(* shouldDrop, record, priorityGate).                                      *)
(***************************************************************************)
ShedsOnlyStandingQueues == dropped.any => dropped.standing /\ dropped.bad /\ ~dropped.critical
=============================================================================
