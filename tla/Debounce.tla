------------------------------ MODULE Debounce ------------------------------
(***************************************************************************)
(* The debouncer and the throttler (debounce/debounce.go, throttle.go).    *)
(* Triggers, Stop and the timers' callbacks take the lock in any order: a  *)
(* callback that has fired may find that the burst it belonged to was      *)
(* extended, ended or stopped.                                             *)
(*                                                                         *)
(* Time is left out: a timer that is armed may fire.  A timer no field     *)
(* refers to any more is counted in stray as long as it is armed.          *)
(***************************************************************************)
EXTENDS Naturals, FiniteSets

CONSTANTS MaxTriggers

ASSUME DebounceAssumption == MaxTriggers \in Nat

VARIABLES
  throttle,                  \* a Throttler, or a Debouncer
  leading, hasMaxWait,       \* the Debouncer's options
  trailing,                  \* the Throttler's
  timerRef, timerArmed,      \* timer # nil, and armed
  maxRef, maxArmed,          \* the same of maxTimer
  stray,                     \* armed timers that nothing refers to
  fired, maxFired,           \* callbacks that wait for the lock
  pending, callCount, leadingDone, stopped,
  triggered,                 \* Trigger calls so far; each brings a function, its number
  started,                   \* per function: how often it was started
  startedLate                \* a function was started that the lock handed out after Stop

bounceConf == <<throttle, leading, hasMaxWait, trailing>>
timers == <<timerRef, timerArmed, maxRef, maxArmed, stray, fired, maxFired>>
burst == <<pending, callCount, leadingDone, stopped>>
bounceVars == <<bounceConf, timers, burst, triggered, started, startedLate>>

BounceInit ==
  /\ throttle \in BOOLEAN
  /\ leading \in (IF throttle THEN {FALSE} ELSE BOOLEAN)
  /\ hasMaxWait \in (IF throttle THEN {FALSE} ELSE BOOLEAN)
  /\ trailing \in (IF throttle THEN BOOLEAN ELSE {FALSE})
  /\ timerRef = FALSE /\ timerArmed = FALSE /\ maxRef = FALSE /\ maxArmed = FALSE
  /\ stray = 0 /\ fired = 0 /\ maxFired = 0
  /\ pending = 0 /\ callCount = 0 /\ leadingDone = FALSE /\ stopped = FALSE
  /\ triggered = 0 /\ started = [i \in 1..MaxTriggers |-> 0] /\ startedLate = FALSE

\* The function taken under the lock is run; 0 is none.
Start(i) ==
  /\ started' = IF i = 0 THEN started ELSE [started EXCEPT ![i] = @ + 1]
  /\ startedLate' = (startedLate \/ (i # 0 /\ stopped))

\* Debouncer.Trigger
Trigger ==
  /\ ~throttle /\ triggered < MaxTriggers
  /\ triggered' = triggered + 1
  /\ IF stopped THEN UNCHANGED <<timers, burst, started, startedLate>>
     ELSE /\ pending' = triggered' /\ timerRef' = TRUE /\ timerArmed' = TRUE
          /\ callCount' = IF timerRef THEN callCount + 1 ELSE 1
          /\ leadingDone' = IF timerRef THEN leadingDone ELSE leading
          /\ IF ~timerRef /\ hasMaxWait
               THEN maxRef' = TRUE /\ maxArmed' = TRUE /\ stray' = stray + (IF maxArmed THEN 1 ELSE 0)
               ELSE UNCHANGED <<maxRef, maxArmed, stray>>
          /\ Start(IF ~timerRef /\ leading THEN triggered' ELSE 0)
          /\ UNCHANGED <<fired, maxFired, stopped>>
  /\ UNCHANGED bounceConf

\* Variant: the lone leading call is repeated.
TakeAndResetTwice(i) == i = pending

\* takeAndResetLocked hands out the pending function, unless it ran on the
\* leading edge as the only one of its burst.
TakeAndReset(i) == i = IF leadingDone /\ callCount <= 1 THEN 0 ELSE pending

EndBurst ==
  /\ pending' = 0 /\ timerRef' = FALSE /\ timerArmed' = FALSE
  /\ maxRef' = FALSE /\ maxArmed' = FALSE /\ leadingDone' = FALSE

\* onTrailing.  A timer that was reset after it fired stays armed.
OnTrailing ==
  /\ ~throttle /\ fired > 0 /\ fired' = fired - 1
  /\ \E i \in 0..MaxTriggers : TakeAndReset(i) /\ Start(i)
  /\ EndBurst
  /\ stray' = stray + (IF timerArmed THEN 1 ELSE 0)
  /\ UNCHANGED <<bounceConf, maxFired, callCount, stopped, triggered>>

\* onMaxWait stops the trailing timer.
OnMaxWait ==
  /\ maxFired > 0 /\ maxFired' = maxFired - 1
  /\ IF ~timerRef THEN UNCHANGED <<timerRef, timerArmed, maxRef, maxArmed, burst, started, startedLate>>
     ELSE /\ \E i \in 0..MaxTriggers : TakeAndReset(i) /\ Start(i)
          /\ EndBurst /\ UNCHANGED <<callCount, stopped>>
  /\ UNCHANGED <<bounceConf, stray, fired, triggered>>

\* Throttler.Trigger
ThrottleTrigger ==
  /\ throttle /\ triggered < MaxTriggers
  /\ triggered' = triggered + 1
  /\ \/ stopped /\ UNCHANGED <<timers, burst, started, startedLate>>
     \/ /\ ~stopped /\ ~timerRef
        /\ timerRef' = TRUE /\ timerArmed' = TRUE /\ Start(triggered')
        /\ UNCHANGED <<maxRef, maxArmed, stray, fired, maxFired, burst>>
     \/ /\ ~stopped /\ timerRef
        /\ pending' = IF trailing THEN triggered' ELSE pending
        /\ UNCHANGED <<timers, callCount, leadingDone, stopped, started, startedLate>>
  /\ UNCHANGED bounceConf

\* onInterval: the trailing call opens an interval of its own.
OnInterval ==
  /\ throttle /\ fired > 0 /\ fired' = fired - 1
  /\ IF stopped THEN UNCHANGED <<timerRef, timerArmed, pending, started, startedLate>>
     ELSE /\ timerRef' = (pending # 0) /\ timerArmed' = (pending # 0)
          /\ pending' = 0 /\ Start(pending)
  /\ UNCHANGED <<bounceConf, maxRef, maxArmed, stray, maxFired, callCount, leadingDone, stopped, triggered>>

\* An armed timer fires: its callback will ask for the lock.
Fire ==
  /\ \/ timerArmed /\ timerArmed' = FALSE /\ fired' = fired + 1 /\ UNCHANGED <<maxArmed, maxFired, stray>>
     \/ stray > 0 /\ stray' = stray - 1 /\ fired' = fired + 1 /\ UNCHANGED <<timerArmed, maxArmed, maxFired>>
     \/ maxArmed /\ maxArmed' = FALSE /\ maxFired' = maxFired + 1 /\ UNCHANGED <<timerArmed, fired, stray>>
  /\ UNCHANGED <<bounceConf, timerRef, maxRef, burst, triggered, started, startedLate>>

Stop ==
  /\ ~stopped /\ stopped' = TRUE
  /\ pending' = 0 /\ timerRef' = FALSE /\ timerArmed' = FALSE /\ maxRef' = FALSE /\ maxArmed' = FALSE
  /\ UNCHANGED <<bounceConf, stray, fired, maxFired, callCount, leadingDone, triggered, started, startedLate>>

BounceNext ==
  \/ Trigger \/ OnTrailing \/ OnMaxWait \/ ThrottleTrigger \/ OnInterval \/ Fire \/ Stop

BounceSpec == BounceInit /\ [][BounceNext]_bounceVars

-----------------------------------------------------------------------------
(* Properties                                                               *)

(***************************************************************************)
(* However triggers, late callbacks and Stop interleave, no function runs  *)
(* twice, none is started once Stop has taken the lock, and none is        *)
(* forgotten: while a function is pending, a timer that will take it is    *)
(* armed or its callback is on the way.  A throttler never has two         *)
(* intervals open at once (debounce.go takeAndResetLocked, Trigger:128;    *)
(* throttle.go onInterval).                                                *)
(***************************************************************************)
TriggersRunOnce ==
  /\ \A i \in DOMAIN started : started[i] <= 1
  /\ ~startedLate
  /\ pending # 0 => timerArmed \/ fired > 0
  /\ throttle /\ ~stopped => (IF timerArmed THEN 1 ELSE 0) + fired = (IF timerRef THEN 1 ELSE 0)
=============================================================================
