----------------------------- MODULE BreakerFSM -----------------------------
(***************************************************************************)
(* What a circuit breaker promises, with no callers, no slots and no       *)
(* faults: outcomes are recorded one at a time and move it between closed, *)
(* open and half-open.  age is the time since the circuit opened, counted  *)
(* up to OpenTimeout.  A breaker kept in a store that expires may also be  *)
(* forgotten, which leaves a fresh, closed one.                            *)
(***************************************************************************)
EXTENDS Naturals

CONSTANTS FailureThreshold, SuccessThreshold, OpenTimeout

VARIABLES state, failures, successes, age

vars == <<state, failures, successes, age>>

Init == state = "Closed" /\ failures = 0 /\ successes = 0 /\ age = 0

Become(s) == state' = s /\ failures' = 0 /\ successes' = 0 /\ age' = 0

\* A failure counts while closed, and the last one the threshold allows opens.
FailClosed ==
  /\ state = "Closed"
  /\ IF failures + 1 >= FailureThreshold
       THEN Become("Open")
       ELSE failures' = failures + 1 /\ UNCHANGED <<state, successes, age>>

\* One failure on probation opens the circuit again.
FailHalfOpen == state = "HalfOpen" /\ Become("Open")

\* SuccessThreshold successes on probation close it.
SucceedHalfOpen ==
  /\ state = "HalfOpen"
  /\ IF successes + 1 >= SuccessThreshold
       THEN Become("Closed")
       ELSE successes' = successes + 1 /\ UNCHANGED <<state, failures, age>>

\* Probation starts once the circuit has been open for OpenTimeout.
Promote ==
  /\ state = "Open" /\ age >= OpenTimeout
  /\ state' = "HalfOpen" /\ successes' = 0
  /\ UNCHANGED <<failures, age>>

Pass == state # "Closed" /\ age' = age + 1 /\ UNCHANGED <<state, failures, successes>>

Forget == Become("Closed")

Next == FailClosed \/ FailHalfOpen \/ SucceedHalfOpen \/ Promote \/ Pass \/ Forget

Spec == Init /\ [][Next]_vars
=============================================================================
