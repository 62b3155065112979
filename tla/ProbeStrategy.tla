--------------------------- MODULE ProbeStrategy ---------------------------
(***************************************************************************)
(* The half-open admission strategies of circuitbreaker/halfopen.go: how   *)
(* many probes may be in flight at once, as a pure function of what        *)
(* probeContext() reads.  A strategy is a record                           *)
(*   [type |-> "fixed" | "linear" | "exponential",                         *)
(*    start, step |-> Int, minInterval |-> Nat].                           *)
(***************************************************************************)
EXTENDS Integers

\* clampProbe: v limited to 1..ceiling.
ClampProbe(v, ceiling) == IF v < 1 THEN 1 ELSE IF v > ceiling THEN ceiling ELSE v

\* A non-positive Start, Step or ceiling is read as 1.
AtLeastOne(n) == IF n < 1 THEN 1 ELSE n

(***************************************************************************)
(* MaxConcurrentProbes of FixedProbeStrategy and RampProbeStrategy.        *)
(* since is the half-open start time, 0 when none is recorded.  The        *)
(* exponential loop stops doubling once the ceiling is reached, which the  *)
(* clamp makes the same as doubling n \div step times.                     *)
(***************************************************************************)
MaxConcurrentProbes(s, max, n, since, now) ==
  LET start   == AtLeastOne(s.start)
      step    == AtLeastOne(s.step)
      ceiling == AtLeastOne(max)
      paced   == s.minInterval > 0 /\ since # 0 /\ now - since < s.minInterval
  IN  CASE s.type = "fixed"       -> max
        [] s.type # "fixed" /\ paced -> ClampProbe(start, ceiling)
        [] s.type = "linear" /\ ~paced -> ClampProbe(start + n * step, ceiling)
        [] s.type = "exponential" /\ ~paced ->
             ClampProbe(start * 2^(n \div step), ceiling)
=============================================================================
