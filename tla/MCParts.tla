------------------------------ MODULE MCParts -------------------------------
(* One run for the parts that stand alone: which of them a behaviour is about *)
(* is chosen at the start, and the others stay as they begin.  Their state    *)
(* spaces add up and do not multiply.                                         *)
EXTENDS BoundedPool, CircuitBreaker, RateLimiter, HttpClient, LinkFilter, Shutdown

VARIABLE part

Parts == {"pool", "breaker", "limiter", "http", "filter", "shutdown"}

Stay(parts) ==
  /\ "pool" \in parts => UNCHANGED poolVars
  /\ "breaker" \in parts => UNCHANGED cbVars
  /\ "limiter" \in parts => UNCHANGED limiterVars
  /\ "http" \in parts => UNCHANGED httpVars
  /\ "filter" \in parts => UNCHANGED filterVars
  /\ "shutdown" \in parts => UNCHANGED shutdownVars

PartsInit ==
  /\ part \in Parts
  /\ PoolInit /\ BreakerInit /\ LimiterInit /\ HttpInit /\ ShutdownInit
  /\ FilterInit
  /\ part # "filter" => href = "elsewhere" /\ ~hardExcl

PartsNext ==
  /\ \/ part = "pool" /\ PoolNext
     \/ part = "breaker" /\ BreakerNext
     \/ part = "limiter" /\ LimiterNext
     \/ part = "http" /\ HttpNext
     \/ part = "filter" /\ FilterNext
     \/ part = "shutdown" /\ ShutdownNext
  /\ Stay(Parts \ {part})
  /\ UNCHANGED part

PartsSpec ==
  /\ PartsInit
  /\ [][PartsNext]_<<part, poolVars, cbVars, limiterVars, httpVars, filterVars,
                     shutdownVars>>
  /\ ShutdownFairness
=============================================================================
