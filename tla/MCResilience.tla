----------------------------- MODULE MCResilience -----------------------------
(***************************************************************************)
(* The resilience policies around a call, the breaker's metrics window,    *)
(* and the two fan-outs of events, for one TLC run.  They share no state   *)
(* in the models, so a behaviour exercises one of them, the one in focus,  *)
(* and the others stay in one initial state.                               *)
(***************************************************************************)
EXTENDS MetricsWindow, Bulkhead, ThreadPool, RetryPolicy, Hedging, CachedFallback,
        Pipeline, LoadShedder, Debounce, EventStream, Hub, TLC

VARIABLE focus

MCInit ==
  /\ PipeInit
  /\ focus \in {"window", "bulkhead", "pool", "retry", "hedge", "cache",
                "pipeline", "shed", "bounce", "stream", "hub"}
  /\ focus # "pipeline" => stages = <<>> /\ withFallback
  /\ Init
  /\ BulkheadInit /\ (focus # "bulkhead" => blocking)
  /\ PoolInit /\ (focus # "pool" => queueSize = 1)
  /\ RetryInit /\ (focus # "retry" => backoff = "none")
  /\ HedgeInit /\ (focus # "hedge" => hedgeMode = "timeout")
  /\ CacheInit /\ (focus # "cache" => serveFresh)
  /\ ShedInit
  /\ BounceInit /\ (focus # "bounce" => throttle /\ trailing)
  /\ StreamInit
  /\ HubInit /\ (focus # "hub" => wsFilter = [c \in WsClients |-> ""])

MCNext ==
  \/ /\ focus = "window" /\ Next
     /\ UNCHANGED <<focus, bulkheadVars, poolVars, retryVars, hedgeVars, cacheVars,
                    pipeVars, shedVars, bounceVars, streamVars, hubVars>>
  \/ /\ focus = "bulkhead" /\ BulkheadNext
     /\ UNCHANGED <<focus, vars, poolVars, retryVars, hedgeVars, cacheVars,
                    pipeVars, shedVars, bounceVars, streamVars, hubVars>>
  \/ /\ focus = "pool" /\ PoolNext
     /\ UNCHANGED <<focus, vars, bulkheadVars, retryVars, hedgeVars, cacheVars,
                    pipeVars, shedVars, bounceVars, streamVars, hubVars>>
  \/ /\ focus = "retry" /\ RetryNext
     /\ UNCHANGED <<focus, vars, bulkheadVars, poolVars, hedgeVars, cacheVars,
                    pipeVars, shedVars, bounceVars, streamVars, hubVars>>
  \/ /\ focus = "hedge" /\ HedgeNext
     /\ UNCHANGED <<focus, vars, bulkheadVars, poolVars, retryVars, cacheVars,
                    pipeVars, shedVars, bounceVars, streamVars, hubVars>>
  \/ /\ focus = "cache" /\ CacheNext
     /\ UNCHANGED <<focus, vars, bulkheadVars, poolVars, retryVars, hedgeVars,
                    pipeVars, shedVars, bounceVars, streamVars, hubVars>>
  \/ /\ focus = "pipeline" /\ PipeNext
     /\ UNCHANGED <<focus, vars, bulkheadVars, poolVars, retryVars, hedgeVars,
                    cacheVars, shedVars, bounceVars, streamVars, hubVars>>
  \/ /\ focus = "shed" /\ ShedNext
     /\ UNCHANGED <<focus, vars, bulkheadVars, poolVars, retryVars, hedgeVars,
                    cacheVars, pipeVars, bounceVars, streamVars, hubVars>>
  \/ /\ focus = "bounce" /\ BounceNext
     /\ UNCHANGED <<focus, vars, bulkheadVars, poolVars, retryVars, hedgeVars,
                    cacheVars, pipeVars, shedVars, streamVars, hubVars>>
  \/ /\ focus = "stream" /\ StreamNext
     /\ UNCHANGED <<focus, vars, bulkheadVars, poolVars, retryVars, hedgeVars,
                    cacheVars, pipeVars, shedVars, bounceVars, hubVars>>
  \/ /\ focus = "hub" /\ HubNext
     /\ UNCHANGED <<focus, vars, bulkheadVars, poolVars, retryVars, hedgeVars,
                    cacheVars, pipeVars, shedVars, bounceVars, streamVars>>

MCSpec == MCInit /\ [][MCNext]_<<focus, vars, bulkheadVars, poolVars, retryVars, hedgeVars, cacheVars,
                               pipeVars, shedVars, bounceVars, streamVars, hubVars>>

\* The callers, named alike in every component, are interchangeable.
MCSymmetry == Permutations(RetryCalls)
===============================================================================
