----------------------------- MODULE HttpClient ------------------------------
(***************************************************************************)
(* One call of httpx.Client.Do: the limiter, up to RetryMax attempts with  *)
(* Retry-After and back-off between them, and the caller's context, which  *)
(* may be cancelled or reach its deadline at any moment.  The callers send *)
(* no body of their own.  What the remote side does is unknown: an answer  *)
(* whose status is worth another attempt or is not, or an error, which may *)
(* be a timeout of the client's own.                                       *)
(***************************************************************************)
EXTENDS Naturals

CONSTANT RetryMax

ASSUME RetryAssumption == RetryMax \in Nat \ {0}  \* New replaces others by 4

VARIABLES at,       \* where the call is
          ctx,      \* the caller's context
          attempt,
          last,     \* what the last attempt gave, resp and err of the code
          body,     \* the body of the response of each attempt
          result    \* what the call returns

httpVars == <<at, ctx, attempt, last, body, result>>

Attempts == 1..RetryMax

HttpTypeOK ==
  /\ at \in {"limiter", "send", "retryAfter", "after", "backoff", "done"}
  /\ ctx \in {"live", "cancelled", "expired"}
  /\ attempt \in Attempts
  /\ last \in {"none", "final", "retryable", "error"}
  /\ body \in [Attempts -> {"none", "open", "closed"}]
  /\ result \in {"none", "refused", "response", "cancelled", "timeout", "error"}

HttpInit ==
  /\ at = "limiter"
  /\ ctx = "live"
  /\ attempt = 1
  /\ last = "none"
  /\ body = [a \in Attempts |-> "none"]
  /\ result = "none"

Finish(r) == at' = "done" /\ result' = r

\* ctx.Err() of a context that is done.
ContextError == IF ctx = "expired" THEN "timeout" ELSE "cancelled"

ContextEnds ==
  /\ at # "done" /\ ctx = "live"
  /\ ctx' \in {"cancelled", "expired"}
  /\ UNCHANGED <<at, attempt, last, body, result>>

\* The limiter's error, also given when its wait would outlive the deadline,
\* is returned as it is.
PassLimiter ==
  /\ at = "limiter"
  /\ \/ at' = "send" /\ UNCHANGED result
     \/ Finish("refused")
  /\ UNCHANGED <<ctx, attempt, last, body>>

AnswerFinal ==
  /\ at = "send"
  /\ last' = "final"
  /\ body' = [body EXCEPT ![attempt] = "open"]
  /\ Finish("response")
  /\ UNCHANGED <<ctx, attempt>>

\* 408, 429, 500, 502, 503 or 504, with or without a Retry-After.
AnswerRetryable ==
  /\ at = "send"
  /\ last' = "retryable"
  /\ \/ body' = [body EXCEPT ![attempt] = "open"] /\ at' = "retryAfter"
     \/ body' = [body EXCEPT ![attempt] = "closed"] /\ at' = "after"
  /\ UNCHANGED <<ctx, attempt, result>>

\* An error ends the call if it is a timeout or the deadline has passed.
RequestFails ==
  /\ at = "send"
  /\ last' = "error"
  /\ \/ Finish("timeout")
     \/ ctx # "expired" /\ at' = "after" /\ UNCHANGED result
  /\ UNCHANGED <<ctx, attempt, body>>

\* The context ends the wait with the body still open (mutant).
AwaitRetryAfterLeaking ==
  /\ at = "retryAfter"
  /\ \/ /\ at' = "after"
        /\ body' = [body EXCEPT ![attempt] = "closed"]
        /\ UNCHANGED result
     \/ /\ ctx # "live"
        /\ Finish(ContextError)
        /\ UNCHANGED body
  /\ UNCHANGED <<ctx, attempt, last>>

\* After the last attempt, too, Retry-After is waited for.
AwaitRetryAfter ==
  /\ at = "retryAfter"
  /\ body' = [body EXCEPT ![attempt] = "closed"]
  /\ \/ at' = "after" /\ UNCHANGED result
     \/ ctx # "live" /\ Finish(ContextError)
  /\ UNCHANGED <<ctx, attempt, last>>

Retry ==
  /\ at = "after" /\ attempt < RetryMax
  /\ at' = "backoff"
  /\ UNCHANGED <<ctx, attempt, last, body, result>>

\* The last error is returned without another look at the context (mutant).
GiveUpBlindly ==
  /\ at = "after" /\ attempt = RetryMax
  /\ IF last = "error" THEN Finish("error") ELSE Finish("response")
  /\ UNCHANGED <<ctx, attempt, last, body>>

\* Out of attempts: the last error, or the last response with a closed body.
GiveUp ==
  /\ at = "after" /\ attempt = RetryMax
  /\ \/ last = "error" /\ ctx = "expired" /\ Finish("timeout")
     \/ last = "error" /\ ctx # "expired" /\ Finish("error")
     \/ last = "retryable" /\ Finish("response")
  /\ UNCHANGED <<ctx, attempt, last, body>>

Backoff ==
  /\ at = "backoff"
  /\ \/ at' = "send" /\ attempt' = attempt + 1 /\ UNCHANGED result
     \/ ctx # "live" /\ Finish(ContextError) /\ UNCHANGED attempt
  /\ UNCHANGED <<ctx, last, body>>

\* The client's Timeout of 30 s bounds an attempt, timers bound the waits.
CallStep == PassLimiter \/ AnswerFinal \/ AnswerRetryable \/ RequestFails
              \/ AwaitRetryAfter \/ Retry \/ GiveUp \/ Backoff

HttpNext == CallStep \/ ContextEnds

HttpSpec == HttpInit /\ [][HttpNext]_httpVars

------------------------------------------------------------------------------

\* No connection leaks: over retries, waits that are cut short and every way
\* out, the only body that is ever left open is the one a caller gets to read,
\* which is that of an answer not worth another attempt; and a caller never
\* gets such an answer with its body closed (httpx.go:165).
OnlyTheAnswerIsOpen ==
  \A a \in Attempts :
    body[a] = "open" <=> /\ a = attempt
                         /\ \/ at = "retryAfter"
                            \/ result = "response" /\ last = "final"

\* "Normalize timeout-related errors so callers/tests can reliably detect them":
\* behind the limiter, a call whose deadline has passed when it gives up returns
\* a timeout and no other error, wherever the deadline hit it (httpx.go:158).
DeadlinesAreReported ==
  at = "done" /\ ctx = "expired" => result \in {"timeout", "response", "refused"}
==============================================================================
