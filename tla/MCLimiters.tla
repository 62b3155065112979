------------------------------ MODULE MCLimiters ------------------------------
(***************************************************************************)
(* The in-process rate limiters and the in-process store, for one TLC run: *)
(* the five that decide at once under their mutex, the leaky bucket, the   *)
(* composite and tiered limiters, the adaptive limiter, and MemoryStore.   *)
(* They share no state, so a behaviour exercises one of them, the one in   *)
(* focus, and the others stay in one initial state.                        *)
(***************************************************************************)
EXTENDS RateLimiters, LeakyBucket, CombinedLimiters, AdaptiveLimiter, MemoryStore, TLC

VARIABLE focus

\* None of the five is tested.
AtRest ==
  /\ tested = {} /\ now = 0
  /\ TB!Init /\ GC!Init /\ FW!Init /\ SL!Init /\ SC!Init
  /\ admitted = [l \in Limiters |-> Nothing]

MCInit ==
  /\ focus \in {"atomic", "leaky", "combined", "adaptive", "store"}
  /\ IF focus = "atomic" THEN Init ELSE AtRest
  /\ LeakyInit
  /\ CombinedInit
  /\ focus # "combined" => mode = "AND" /\ ~outsiders /\ blind = {}
  /\ AdaptiveInit
  /\ StoreInit

MCNext ==
  \/ focus = "atomic" /\ Next /\ UNCHANGED <<focus, leakyVars, combinedVars, adaptiveVars, storeVars>>
  \/ focus = "leaky" /\ LeakyNext /\ UNCHANGED <<focus, vars, combinedVars, adaptiveVars, storeVars>>
  \/ focus = "combined" /\ CombinedNext /\ UNCHANGED <<focus, vars, leakyVars, adaptiveVars, storeVars>>
  \/ focus = "adaptive" /\ AdaptiveNext /\ UNCHANGED <<focus, vars, leakyVars, combinedVars, storeVars>>
  \/ focus = "store" /\ StoreNext /\ UNCHANGED <<focus, vars, leakyVars, combinedVars, adaptiveVars>>

MCSpec == MCInit /\ [][MCNext]_<<focus, vars, leakyVars, combinedVars, adaptiveVars, storeVars>>

\* The callers, named alike in every component, and the keys of the store are
\* interchangeable.
MCSymmetry == Permutations(LeakyCalls) \cup Permutations(StoreKeys)
===============================================================================
