------------------------------ MODULE Hedging ------------------------------
(***************************************************************************)
(* Calls that do not wait for every goroutine they start: Hedge and HedgeN *)
(* (fallback/fallback.go), which race copies of a call, and Do of          *)
(* timeout/timeout.go, which abandons one.  Every copy reports over a      *)
(* buffered channel; a goroutine of its own drains what a returned call    *)
(* leaves in it.                                                           *)
(***************************************************************************)
EXTENDS Naturals, Sequences, FiniteSets

CONSTANTS Copies   \* the n of HedgeN

ASSUME HedgeAssumption == Copies \in Nat \ {0, 1}

VARIABLES
  hedgeMode,       \* "hedge", "hedgeN" or "timeout"
  hedgePc,         \* the caller: "select", "await" (Hedge, after its timer) or "over"
  copy,            \* per copy: "unfired", "running", "reported"
  cancelled,       \* the copies whose context was cancelled
  resultCh,
  outstanding,
  hedgeTimer,      \* the timer is armed
  hedgeCtx,        \* the caller's context: "live" or "done"
  drain,           \* results the draining goroutine still waits for
  hedgeAnswer

hedgeVars == <<hedgeMode, hedgePc, copy, cancelled, resultCh, outstanding, hedgeTimer, hedgeCtx, drain, hedgeAnswer>>

FiredTotal == Cardinality({i \in DOMAIN copy : copy[i] # "unfired"})

HedgeInit ==
  /\ hedgeMode \in {"hedge", "hedgeN", "timeout"}
  /\ hedgePc = "select"
  /\ copy = [i \in 1..(CASE hedgeMode = "hedge" -> 2 [] hedgeMode = "hedgeN" -> Copies [] OTHER -> 1) |->
               IF i = 1 THEN "running" ELSE "unfired"]
  /\ cancelled = {} /\ resultCh = <<>> /\ outstanding = 1
  /\ hedgeTimer = (hedgeMode # "timeout") /\ hedgeCtx = "live"
  /\ drain = 0 /\ hedgeAnswer = "none"

\* fn returns in its goroutine, which reports.
CopyReturns(i, ok) ==
  /\ copy[i] = "running"
  /\ copy' = [copy EXCEPT ![i] = "reported"]
  /\ resultCh' = Append(resultCh, ok)
  /\ UNCHANGED <<hedgeMode, hedgePc, cancelled, outstanding, hedgeTimer, hedgeCtx, drain, hedgeAnswer>>

\* The caller returns: the deferred cancels of Hedge and timeout.Do, and
\* cancelAll of HedgeN for a winner.
HedgeReturn(a, left, cs) ==
  /\ hedgePc' = "over" /\ hedgeAnswer' = a /\ drain' = left
  /\ cancelled' = cancelled \cup cs
  /\ hedgeTimer' = FALSE

FiredCopies == {i \in DOMAIN copy : copy[i] # "unfired"}

\* Variant: a failure is final although copies are left to fire.
OnResultHasty ==
  LET ok == Head(resultCh)
  IN  /\ hedgePc = "select" /\ hedgeMode = "hedgeN" /\ resultCh # <<>>
      /\ resultCh' = Tail(resultCh) /\ outstanding' = outstanding - 1
      /\ \/ ok /\ HedgeReturn("ok", outstanding - 1, FiredCopies) /\ UNCHANGED copy
         \/ ~ok /\ outstanding > 1 /\ UNCHANGED <<hedgePc, hedgeAnswer, drain, cancelled, hedgeTimer, copy>>
         \/ ~ok /\ outstanding = 1 /\ HedgeReturn("failed", 0, {}) /\ UNCHANGED copy
      /\ UNCHANGED <<hedgeMode, hedgeCtx>>

\* HedgeN: a success wins; a failure fires the next copy at once, and the last
\* failure ends it.
OnResult ==
  LET ok == Head(resultCh)
  IN  /\ hedgePc = "select" /\ hedgeMode = "hedgeN" /\ resultCh # <<>>
      /\ resultCh' = Tail(resultCh)
      /\ \/ /\ ok /\ outstanding' = outstanding - 1
            /\ HedgeReturn("ok", outstanding - 1, FiredCopies) /\ UNCHANGED copy
         \/ /\ ~ok /\ FiredTotal < Copies
            /\ copy' = [copy EXCEPT ![FiredTotal + 1] = "running"] /\ hedgeTimer' = TRUE
            /\ UNCHANGED <<hedgePc, hedgeAnswer, drain, cancelled, outstanding>>
         \/ /\ ~ok /\ FiredTotal = Copies /\ outstanding > 1 /\ outstanding' = outstanding - 1
            /\ UNCHANGED <<hedgePc, hedgeAnswer, drain, cancelled, hedgeTimer, copy>>
         \/ /\ ~ok /\ FiredTotal = Copies /\ outstanding = 1 /\ outstanding' = 0
            /\ HedgeReturn("failed", 0, {}) /\ UNCHANGED copy
      /\ UNCHANGED <<hedgeMode, hedgeCtx>>

\* Hedge takes the first result, whatever it is; once the backup runs, it drains
\* the other.
FirstResult ==
  /\ hedgePc \in {"select", "await"} /\ hedgeMode = "hedge" /\ resultCh # <<>>
  /\ resultCh' = Tail(resultCh) /\ outstanding' = outstanding - 1
  /\ HedgeReturn(IF Head(resultCh) THEN "ok" ELSE "failed", IF hedgePc = "await" THEN 1 ELSE 0, FiredCopies)
  /\ UNCHANGED <<hedgeMode, copy, hedgeCtx>>

\* The hedge delay is over: the next copy, if there is one.  Hedge then waits
\* for a result only; HedgeN arms its timer again.
OnTimer ==
  /\ hedgeTimer /\ hedgePc = "select"
  /\ IF FiredTotal < Len(copy)
       THEN /\ copy' = [copy EXCEPT ![FiredTotal + 1] = "running"]
            /\ outstanding' = outstanding + 1
       ELSE UNCHANGED <<copy, outstanding>>
  /\ hedgeTimer' = (hedgeMode = "hedgeN" /\ FiredTotal < Len(copy))
  /\ hedgePc' = IF hedgeMode = "hedge" THEN "await" ELSE hedgePc
  /\ UNCHANGED <<hedgeMode, cancelled, resultCh, hedgeCtx, drain, hedgeAnswer>>

\* The caller's context ends, or the deadline of timeout.Do: with it, those of
\* the copies.
ContextEnds ==
  /\ hedgeCtx = "live" /\ hedgeCtx' = "done"
  /\ UNCHANGED <<hedgeMode, hedgePc, copy, cancelled, resultCh, outstanding, hedgeTimer, drain, hedgeAnswer>>

OnContext ==
  /\ hedgeMode # "timeout" /\ hedgePc = "select" /\ hedgeCtx = "done"
  /\ HedgeReturn("context", 0, {})
  /\ UNCHANGED <<hedgeMode, copy, resultCh, outstanding, hedgeCtx>>

\* timeout.Do returns with the result or when its context is done, whichever the
\* select sees; its fn is never waited for.
TimeoutDo ==
  /\ hedgeMode = "timeout" /\ hedgePc = "select"
  /\ \/ /\ resultCh # <<>> /\ resultCh' = Tail(resultCh) /\ outstanding' = outstanding - 1
        /\ HedgeReturn(IF Head(resultCh) THEN "ok" ELSE "failed", 0, FiredCopies)
     \/ /\ hedgeCtx = "done" /\ HedgeReturn("context", 0, FiredCopies)
        /\ UNCHANGED <<resultCh, outstanding>>
  /\ UNCHANGED <<hedgeMode, copy, hedgeCtx>>

Drain ==
  /\ drain > 0 /\ resultCh # <<>>
  /\ drain' = drain - 1 /\ resultCh' = Tail(resultCh)
  /\ UNCHANGED <<hedgeMode, hedgePc, copy, cancelled, outstanding, hedgeTimer, hedgeCtx, hedgeAnswer>>

HedgeNext ==
  \/ \E i \in DOMAIN copy, ok \in BOOLEAN : CopyReturns(i, ok)
  \/ OnResult \/ FirstResult \/ OnTimer \/ ContextEnds \/ OnContext \/ TimeoutDo \/ Drain

HedgeSpec == HedgeInit /\ [][HedgeNext]_hedgeVars

-----------------------------------------------------------------------------
(* Properties                                                               *)

Running == {i \in DOMAIN copy : copy[i] = "running"}

(***************************************************************************)
(* A call that has answered leaves nothing behind that needs it: every     *)
(* copy still running has had its context ended, no report can block (the  *)
(* buffer has room for every report still to come), and the draining       *)
(* goroutine waits only for reports that will come.  HedgeN fails only     *)
(* after all its copies did ("the full budget of n attempts",              *)
(* fallback.go:235), and until it answers it counts exactly the copies     *)
(* whose result it has not seen.                                           *)
(***************************************************************************)
HedgeSettles ==
  /\ hedgePc = "over" => (hedgeCtx = "done" \/ Running \subseteq cancelled)
  /\ Len(resultCh) + Cardinality(Running) <= Len(copy)
  /\ drain <= Len(resultCh) + Cardinality(Running)
  /\ hedgePc # "over" => outstanding = Len(resultCh) + Cardinality(Running)
  /\ (hedgeMode = "hedgeN" /\ hedgeAnswer = "failed") => \A i \in DOMAIN copy : copy[i] = "reported"
=============================================================================
