--------------------------- MODULE CircuitBreaker ----------------------------
(***************************************************************************)
(* CircuitBreaker of utils/backpressure.go.  Execute holds the mutex while  *)
(* the function it was given runs, so calls are made one after another; the *)
(* function may return an error, succeed or panic.  Time is counted in      *)
(* ticks since the last failure.                                            *)
(***************************************************************************)
EXTENDS Naturals

CONSTANTS MaxFailures, HalfOpenLimit,
          OpenTimeout,  \* ticks an open breaker rejects calls
          FailureBound  \* the counter of failures is not followed beyond it

ASSUME BreakerAssumption ==
  /\ MaxFailures \in Nat \ {0}
  /\ HalfOpenLimit \in Nat \ {0}
  /\ OpenTimeout \in Nat
  /\ FailureBound \in Nat

VARIABLES cbState,      \* 0, 1 and 2 of the code by name
          failures,
          successCount,
          sinceFail,    \* time.Since(lastFail), no further than past the timeout
          executing     \* a function runs, under the mutex

cbVars == <<cbState, failures, successCount, sinceFail, executing>>

BreakerTypeOK ==
  /\ cbState \in {"closed", "open", "halfOpen"}
  /\ failures \in Nat /\ successCount \in Nat
  /\ sinceFail \in 0..OpenTimeout + 1
  /\ executing \in BOOLEAN

BreakerInit ==
  /\ cbState = "closed"
  /\ failures = 0 /\ successCount = 0
  /\ sinceFail = OpenTimeout + 1
  /\ executing = FALSE

BreakerTick ==
  /\ sinceFail <= OpenTimeout
  /\ sinceFail' = sinceFail + 1
  /\ UNCHANGED <<cbState, failures, successCount, executing>>

\* Execute up to the call of fn: an open breaker lets a call through once its
\* timeout has passed, and is half-open from then on.
Admit ==
  /\ ~executing
  /\ \/ /\ cbState # "open"
        /\ UNCHANGED <<cbState, successCount>>
     \/ /\ cbState = "open" /\ sinceFail > OpenTimeout
        /\ cbState' = "halfOpen"
        /\ successCount' = 0
  /\ executing' = TRUE
  /\ UNCHANGED <<failures, sinceFail>>

\* One failure more than maxFailures is let pass (mutant).
FnFailsOneLate ==
  /\ executing
  /\ failures < FailureBound
  /\ executing' = FALSE
  /\ failures' = failures + 1
  /\ sinceFail' = 0
  /\ cbState' = IF failures' > MaxFailures THEN "open" ELSE cbState
  /\ UNCHANGED successCount

FnFails ==
  /\ executing
  /\ failures < FailureBound
  /\ executing' = FALSE
  /\ failures' = failures + 1
  /\ sinceFail' = 0
  /\ cbState' = IF failures' >= MaxFailures THEN "open" ELSE cbState
  /\ UNCHANGED successCount

FnSucceeds ==
  /\ executing
  /\ executing' = FALSE
  /\ failures' = 0
  /\ \/ /\ cbState = "halfOpen"
        /\ successCount' = successCount + 1
        /\ cbState' = IF successCount' >= HalfOpenLimit THEN "closed" ELSE "halfOpen"
     \/ /\ cbState # "halfOpen"
        /\ cbState' = "closed"
        /\ UNCHANGED successCount
  /\ UNCHANGED sinceFail

\* A panic of fn passes through Execute, whose deferred Unlock lets go of the
\* mutex and nothing else.
FnPanics ==
  /\ executing
  /\ executing' = FALSE
  /\ UNCHANGED <<cbState, failures, successCount, sinceFail>>

BreakerNext == BreakerTick \/ Admit \/ FnFails \/ FnSucceeds \/ FnPanics

BreakerSpec == BreakerInit /\ [][BreakerNext]_cbVars

------------------------------------------------------------------------------

Contract == INSTANCE Breaker
  WITH tripped <- cbState # "closed",
       bad <- failures,
       good <- IF cbState = "halfOpen" THEN successCount ELSE 0

\* The states and counters of the code, resets and half-open failures
\* included, keep the promise of Breaker: trip with the MaxFailures-th failure
\* in a row, recover after HalfOpenLimit successes since (backpressure.go:238).
ImplementsBreaker == Contract!Spec
==============================================================================
