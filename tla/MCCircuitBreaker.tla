-------------------------- MODULE MCCircuitBreaker --------------------------
(* Instances of CircuitBreaker for TLC.                                     *)
EXTENDS CircuitBreaker

FixedStrategy == [type |-> "fixed", start |-> 1, step |-> 1, minInterval |-> 0]

RampStrategy == [type |-> "exponential", start |-> 1, step |-> 1, minInterval |-> 2]
=============================================================================
