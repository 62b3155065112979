--------------------- MODULE DistributedCircuitBreaker ---------------------
(***************************************************************************)
(* The breaker of circuitbreaker/distributed.go, whose state is a record   *)
(* in a store shared by every instance.  The acquire and record scripts    *)
(* (Lua in ratelimit/store/redis.go, Go handlers in scripts_memory.go) are *)
(* atomic, so each is one step; the calls around them are not.  A script   *)
(* may fail before it runs, or run and lose its reply; fn may panic; and   *)
(* the process of a call may crash.                                        *)
(*                                                                         *)
(* Time is relative: age is now - opened_at, counted up to OpenTimeout,    *)
(* which is all the scripts compare it with, and ttl is the time left      *)
(* before the key expires, 0 when the key does not exist.                  *)
(***************************************************************************)
EXTENDS Integers

CONSTANTS
  Calls,            \* concurrent users of the breaker, over all instances
  Backend,          \* "redis" or "memory"
  OpenTimeout, HalfOpenMaxRequests, SuccessThreshold, FailureThreshold,
  TTL               \* ttl(): ten times OpenTimeout, and a minute at least

ASSUME DistributedAssumption ==
  /\ Backend \in {"redis", "memory"}
  /\ OpenTimeout \in Nat \ {0}
  /\ HalfOpenMaxRequests \in Nat \ {0}
  /\ SuccessThreshold \in Nat \ {0}
  /\ FailureThreshold \in Nat \ {0}
  /\ TTL \in Nat /\ TTL > OpenTimeout

VARIABLES
  st,      \* the stored record
  ttl,     \* time before the key expires
  pc,      \* per call: "idle", "fn" or "record"
  probe,   \* per call: acquiredProbe
  failed   \* per call: what classify said

vars == <<st, ttl, pc, probe, failed>>

\* parseCBState of an absent key.
Fresh == [state |-> "Closed", failures |-> 0, successes |-> 0, inflight |-> 0, age |-> 0]

-----------------------------------------------------------------------------
(* The scripts, as functions of the stored record.                          *)

\* Variant: the promotion does not wait for OpenTimeout.
PromotedEarly(s) ==
  IF s.state = "Open" /\ s.age >= OpenTimeout - 1
    THEN [s EXCEPT !.state = "HalfOpen", !.successes = 0, !.inflight = 0]
    ELSE s

\* Acquire, its first part: the lazy promotion of an open circuit.
Promoted(s) ==
  IF s.state = "Open" /\ s.age >= OpenTimeout
    THEN [s EXCEPT !.state = "HalfOpen", !.successes = 0, !.inflight = 0]
    ELSE s

Admits(s) ==
  \/ s.state = "Closed"
  \/ s.state = "HalfOpen" /\ s.inflight < HalfOpenMaxRequests

\* Variant: the slot counter is not compared with the limit.
ReservedUnchecked(s) ==
  IF s.state = "HalfOpen" THEN [s EXCEPT !.inflight = @ + 1] ELSE s

\* Acquire, its second part: a half-open circuit with a free slot reserves it.
Reserved(s) ==
  IF s.state = "HalfOpen" /\ s.inflight < HalfOpenMaxRequests
    THEN [s EXCEPT !.inflight = @ + 1]
    ELSE s

\* Variant: every call that does not find the circuit open refreshes the key.
AcquireRefreshesAlways(s) == s.state # "Open"

(***************************************************************************)
(* Whether acquire extends the life of the key.  The Lua script does so    *)
(* only when it reserves a slot; the handler also does on a closed circuit *)
(* and when it rejects for want of a slot.                                 *)
(***************************************************************************)
AcquireRefreshes(s) ==
  /\ s.state # "Open"
  /\ Backend = "memory" \/ (s.state = "HalfOpen" /\ Admits(s))

\* open_circuit and close_circuit.
Opened == [Fresh EXCEPT !.state = "Open"]

\* Record's release, guarded against a counter that was reset meanwhile.
Released(s, p) == IF p /\ s.inflight > 0 THEN [s EXCEPT !.inflight = @ - 1] ELSE s

\* Record, after the release.
AfterOutcome(s, f) ==
  CASE s.state = "HalfOpen" /\ f  -> Opened
    [] s.state = "HalfOpen" /\ ~f ->
         IF s.successes + 1 >= SuccessThreshold THEN Fresh
         ELSE [s EXCEPT !.successes = @ + 1]
    [] s.state = "Closed" /\ f    ->
         IF s.failures + 1 >= FailureThreshold THEN Opened
         ELSE [s EXCEPT !.failures = @ + 1]
    [] OTHER                      -> s

-----------------------------------------------------------------------------
Init ==
  /\ st = Fresh /\ ttl = 0
  /\ pc = [c \in Calls |-> "idle"]
  /\ probe = [c \in Calls |-> FALSE]
  /\ failed = [c \in Calls |-> FALSE]

Goto(c, label) == pc' = [pc EXCEPT ![c] = label]

\* The effect of the acquire script on the store.
AcquireScript ==
  LET s == Promoted(st)
  IN  /\ st' = Reserved(s)
      /\ ttl' = IF AcquireRefreshes(s) THEN TTL ELSE ttl

\* Execute up to fn: rejected, or admitted with or without a probe slot.
Acquire(c) ==
  /\ pc[c] = "idle"
  /\ AcquireScript
  /\ LET s == Promoted(st)
     IN  /\ probe' = [probe EXCEPT ![c] = s.state = "HalfOpen" /\ Admits(s)]
         /\ Goto(c, IF Admits(s) THEN "fn" ELSE "idle")
  /\ UNCHANGED failed

\* The in-memory store only refuses to create a key, when it is full.
StoreMayErr == Backend = "redis" \/ ttl = 0

\* The store errs: fail open.  Over a network the script may have run.
AcquireErrs(c) ==
  /\ pc[c] = "idle"
  /\ StoreMayErr
  /\ (Backend = "redis" /\ AcquireScript) \/ UNCHANGED <<st, ttl>>
  /\ probe' = [probe EXCEPT ![c] = FALSE]
  /\ Goto(c, "fn")
  /\ UNCHANGED failed

RunFn(c) ==
  /\ pc[c] = "fn"
  /\ \E f \in BOOLEAN : failed' = [failed EXCEPT ![c] = f]
  /\ Goto(c, "record")
  /\ UNCHANGED <<st, ttl, probe>>

\* runFn does not recover: a panic unwinds Execute and nothing is recorded.
FnPanics(c) ==
  /\ pc[c] = "fn"
  /\ Goto(c, "idle")
  /\ UNCHANGED <<st, ttl, probe, failed>>

\* The process dies before the outcome reaches a store that outlives it.
Crash(c) ==
  /\ Backend = "redis"
  /\ pc[c] = "record"
  /\ Goto(c, "idle")
  /\ UNCHANGED <<st, ttl, probe, failed>>

\* recordOutcome; whether its reply arrives makes no difference to the state.
Record(c) ==
  /\ pc[c] = "record"
  /\ st' = AfterOutcome(Released(st, probe[c]), failed[c])
  /\ ttl' = TTL
  /\ Goto(c, "idle")
  /\ UNCHANGED <<probe, failed>>

\* A store error on record is swallowed.
RecordErrs(c) ==
  /\ pc[c] = "record"
  /\ StoreMayErr
  /\ Goto(c, "idle")
  /\ UNCHANGED <<st, ttl, probe, failed>>

\* Time passes; a key whose life is over is gone.
Tick ==
  /\ ttl > 0
  /\ ttl' = ttl - 1
  /\ st' = IF ttl = 1 THEN Fresh
           ELSE IF st.state # "Closed" /\ st.age < OpenTimeout
                THEN [st EXCEPT !.age = @ + 1]
           ELSE st
  /\ UNCHANGED <<pc, probe, failed>>

Next ==
  \/ Tick
  \/ \E c \in Calls :
       Acquire(c) \/ AcquireErrs(c) \/ RunFn(c) \/ FnPanics(c) \/ Crash(c)
         \/ Record(c) \/ RecordErrs(c)

Spec == Init /\ [][Next]_vars

\* Time passes, and a call that was admitted ends, one way or another.
Fairness ==
  /\ WF_vars(Tick)
  /\ \A c \in Calls :
       /\ WF_vars(RunFn(c) \/ FnPanics(c))
       /\ WF_vars(Record(c) \/ RecordErrs(c) \/ Crash(c))

FairSpec == Spec /\ Fairness

-----------------------------------------------------------------------------
(* Properties                                                               *)

(***************************************************************************)
(* Types.  half_open_inflight stays within 0..HalfOpenMaxRequests whatever *)
(* is lost, and the stored record is a fresh one when the key is gone.     *)
(***************************************************************************)
TypeOK ==
  /\ st \in [state : {"Closed", "Open", "HalfOpen"}, failures : 0..(FailureThreshold - 1),
             successes : 0..(SuccessThreshold - 1), inflight : 0..HalfOpenMaxRequests,
             age : 0..OpenTimeout]
  /\ ttl \in 0..TTL
  /\ ttl = 0 => st = Fresh
  /\ pc \in [Calls -> {"idle", "fn", "record"}]
  /\ probe \in [Calls -> BOOLEAN]
  /\ failed \in [Calls -> BOOLEAN]

(***************************************************************************)
(* With every decision made inside a script the shared state follows the   *)
(* promised state machine step by step, whatever the interleaving of the   *)
(* calls, the store errors, lost replies, panics and crashes.              *)
(***************************************************************************)
FSM == INSTANCE BreakerFSM WITH state <- st.state, failures <- st.failures,
         successes <- st.successes, age <- st.age

ImplementsFSM == FSM!Spec

(***************************************************************************)
(* Probation ends: a half-open circuit closes, opens again, or is          *)
(* forgotten with its key, even when panics, crashes and lost replies have *)
(* leaked every probe slot.  The expiry of the key is what recovers it.    *)
(***************************************************************************)
ProbationEnds == st.state = "HalfOpen" ~> st.state # "HalfOpen"
=============================================================================
