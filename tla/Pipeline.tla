------------------------------ MODULE Pipeline ------------------------------
(***************************************************************************)
(* A pipeline (pipeline/pipeline.go) and the stack built on it             *)
(* (resilience/resilience.go): stages in a canonical order around an       *)
(* operation, each of which may turn the call down on the way in, and      *)
(* gives back what it took on the way out; a fallback outermost.  What a   *)
(* stage decides is its component's business (and module): here it is a    *)
(* choice, and what a stage holds is a member of held.                     *)
(***************************************************************************)
EXTENDS Naturals, Sequences, Functions

CONSTANTS MaxStages, PipeAttempts   \* the policy's MaxAttempts

ASSUME PipelineAssumption == MaxStages \in Nat /\ PipeAttempts \in Nat \ {0}

VARIABLES
  stages,          \* outermost first
  withFallback,
  pipePc,          \* "down", "up" or "over"
  depth,           \* how many stages the call is inside of
  held,            \* what stages have taken and not given back
  taken,           \* how often each stage let the call in
  pipeAttempt,     \* the attempts of the retry stage
  opRuns,
  outcome,         \* "none", "ok", "err" or "panic"
  fellBack         \* what the fallback was given, and what was held then

pipeVars == <<stages, withFallback, pipePc, depth, held, taken, pipeAttempt, opRuns, outcome, fellBack>>

\* stageKind, outermost first.
Kinds == <<"loadShed", "rateLimit", "bulkhead", "concurrency", "timeout", "circuitBreaker", "retry", "custom">>
Rank(k) == CHOOSE i \in DOMAIN Kinds : Kinds[i] = k

\* Variant: the stages run in the order they were added.
BuildUnsorted(added) == {added}

\* Build sorts by kind.  The stages are of different kinds: there is one such order.
Build(added) ==
  {s \in Bijection(DOMAIN added, Range(added)) : \A i, j \in DOMAIN s : i < j => Rank(s[i]) < Rank(s[j])}

Holders == {"loadShed", "bulkhead", "concurrency", "timeout", "circuitBreaker"}

PipeInit ==
  /\ \E added \in UNION {[1..n -> Range(Kinds) \ {"custom"}] : n \in 0..MaxStages} :
       /\ \A i, j \in DOMAIN added : i # j => added[i] # added[j]
       /\ stages \in Build(added)
  /\ withFallback \in BOOLEAN
  /\ pipePc = "down" /\ depth = 0 /\ held = {}
  /\ taken = [k \in Range(Kinds) |-> 0] /\ pipeAttempt = 0 /\ opRuns = 0
  /\ outcome = "none" /\ fellBack = "never"

\* chain: a stage lets the call in.  A retry stage starts its attempts.
Enter ==
  LET k == stages[depth + 1]
  IN  /\ pipePc = "down" /\ depth < Len(stages)
      /\ depth' = depth + 1
      /\ held' = IF k \in Holders THEN held \cup {k} ELSE held
      /\ taken' = [taken EXCEPT ![k] = @ + 1]
      /\ pipeAttempt' = IF k = "retry" THEN 1 ELSE pipeAttempt
      /\ UNCHANGED <<stages, withFallback, pipePc, opRuns, outcome, fellBack>>

\* A stage turns the call down: shed, limited, full, open, or out of time.
TurnDown ==
  /\ pipePc = "down" /\ depth < Len(stages)
  /\ stages[depth + 1] \in {"loadShed", "rateLimit", "bulkhead", "concurrency", "circuitBreaker", "retry"}
  /\ pipePc' = "up" /\ outcome' = "err"
  /\ UNCHANGED <<stages, withFallback, depth, held, taken, pipeAttempt, opRuns, fellBack>>

\* The operation, inside all stages; custom stages are part of it.
RunOp(result) ==
  /\ pipePc = "down" /\ depth = Len(stages)
  /\ pipePc' = "up" /\ outcome' = result /\ opRuns' = opRuns + 1
  /\ UNCHANGED <<stages, withFallback, depth, held, taken, pipeAttempt, fellBack>>

\* A retry stage runs what is inside of it again.
RunAgain ==
  /\ pipePc = "up" /\ depth > 0 /\ stages[depth] = "retry"
  /\ outcome = "err" /\ pipeAttempt < PipeAttempts
  /\ pipePc' = "down" /\ pipeAttempt' = pipeAttempt + 1
  /\ UNCHANGED <<stages, withFallback, depth, held, taken, opRuns, outcome, fellBack>>

\* A stage is left: it gives back what it took, by a deferred call, but for the
\* concurrency stage, whose release follows the call and is skipped by a panic.
Leave ==
  LET k == stages[depth]
  IN  /\ pipePc = "up" /\ depth > 0
      /\ depth' = depth - 1
      /\ held' = IF k = "concurrency" /\ outcome = "panic" THEN held ELSE held \ {k}
      /\ UNCHANGED <<stages, withFallback, pipePc, taken, pipeAttempt, opRuns, outcome, fellBack>>

\* Stack.Execute: an error goes to the fallback, whose result is the call's.
Finish(result) ==
  /\ pipePc = "up" /\ depth = 0
  /\ IF withFallback /\ outcome = "err"
       THEN fellBack' = (IF held = {} THEN "with nothing held" ELSE "with something held") /\ outcome' = result
       ELSE result = "ok" /\ UNCHANGED <<fellBack, outcome>>
  /\ pipePc' = "over"
  /\ UNCHANGED <<stages, withFallback, depth, held, taken, pipeAttempt, opRuns>>

PipeNext ==
  \/ Enter \/ TurnDown \/ RunAgain \/ Leave
  \/ \E r \in {"ok", "err", "panic"} : RunOp(r)
  \/ \E r \in {"ok", "err"} : Finish(r)

PipeSpec == PipeInit /\ [][PipeNext]_pipeVars

-----------------------------------------------------------------------------
(* Properties                                                               *)

(***************************************************************************)
(* Whatever order the stages were added in, a call takes each admission    *)
(* once ("retry only the actual operation, never the whole stack (which    *)
(* would re-run rate limiting, re-acquire slots, etc.)",                   *)
(* resilience.go:66), the operation runs inside everything its stages      *)
(* hold, an open circuit costs no attempts, and when the call is over, or  *)
(* its fallback runs, everything has been given back: the one exception is *)
(* the slot of the concurrency stage when the operation panics             *)
(* (pipeline.go:176).                                                      *)
(***************************************************************************)
PipelineSettles ==
  /\ \A k \in Range(Kinds) : taken[k] <= 1
  /\ (pipePc = "down" /\ depth = Len(stages)) => held = Range(stages) \cap Holders
  /\ opRuns <= (IF "retry" \in Range(stages) THEN PipeAttempts ELSE 1)
  /\ (opRuns = 0 /\ pipePc = "up") => pipeAttempt = 0
  /\ pipePc = "over" => held \subseteq (IF outcome = "panic" THEN {"concurrency"} ELSE {})
  /\ fellBack # "with something held"
=============================================================================
