----------------------------- MODULE RateLimiter -----------------------------
(***************************************************************************)
(* RateLimiter of utils/backpressure.go: Limit tokens, one more for every   *)
(* whole Interval that has passed when somebody asks.  A refill forgets the *)
(* part of an interval that has begun.  Allow is one step under the mutex;  *)
(* a caller of Wait asks, sleeps and asks again until its context is done.  *)
(* The window is opened at any moment and counts what is granted in it.     *)
(***************************************************************************)
EXTENDS Naturals

CONSTANTS Limit, Interval, WaitCallers,
          WindowBound   \* ticks a window is followed

ASSUME LimiterAssumption ==
  /\ Limit \in Nat \ {0}      \* Wait divides by it
  /\ Interval \in Nat \ {0}
  /\ WindowBound \in Nat

VARIABLES tokens,
          elapsed,   \* time since lastTime; past Limit intervals more adds nothing
          waiting,   \* where each caller of Wait is
          window     \* open, its age and the calls granted in it

limiterVars == <<tokens, elapsed, waiting, window>>

LimiterTypeOK ==
  /\ tokens \in 0..Limit
  /\ elapsed \in 0..Limit * Interval
  /\ waiting \in [WaitCallers -> {"out", "asking", "asleep"}]
  /\ window \in [open : BOOLEAN, age : 0..WindowBound, granted : Nat]

LimiterInit ==
  /\ tokens = Limit
  /\ elapsed = 0
  /\ waiting = [c \in WaitCallers |-> "out"]
  /\ window = [open |-> FALSE, age |-> 0, granted |-> 0]

LimiterTick ==
  /\ window.age < WindowBound
  /\ elapsed' = IF elapsed < Limit * Interval THEN elapsed + 1 ELSE elapsed
  /\ window' = IF window.open THEN [window EXCEPT !.age = @ + 1] ELSE window
  /\ UNCHANGED <<tokens, waiting>>

OpenWindow ==
  /\ ~window.open
  /\ window' = [window EXCEPT !.open = TRUE]
  /\ UNCHANGED <<tokens, elapsed, waiting>>

\* A refill that leaves the clock as it is (mutant).
RefilledAgain ==
  LET added == elapsed \div Interval
  IN  [tokens |-> IF tokens + added < Limit THEN tokens + added ELSE Limit,
       elapsed |-> elapsed]

\* The tokens Allow finds, and the time it leaves on the clock.
Refilled ==
  LET added == elapsed \div Interval
  IN  [tokens |-> IF tokens + added < Limit THEN tokens + added ELSE Limit,
       elapsed |-> IF added > 0 THEN 0 ELSE elapsed]

Granted == window' = IF window.open THEN [window EXCEPT !.granted = @ + 1] ELSE window

\* Allow says yes, to a caller of its own or to Wait.
AllowYes ==
  /\ Refilled.tokens > 0
  /\ tokens' = Refilled.tokens - 1
  /\ elapsed' = Refilled.elapsed
  /\ Granted

AllowNo ==
  /\ Refilled.tokens = 0
  /\ tokens' = 0
  /\ elapsed' = Refilled.elapsed
  /\ UNCHANGED window

Allow == (AllowYes \/ AllowNo) /\ UNCHANGED waiting

BeginWait(c) ==
  /\ waiting[c] = "out"
  /\ waiting' = [waiting EXCEPT ![c] = "asking"]
  /\ UNCHANGED <<tokens, elapsed, window>>

Ask(c) ==
  /\ waiting[c] = "asking"
  /\ \/ AllowYes /\ waiting' = [waiting EXCEPT ![c] = "out"]
     \/ AllowNo /\ waiting' = [waiting EXCEPT ![c] = "asleep"]

WakeUp(c) ==
  /\ waiting[c] = "asleep"
  /\ waiting' = [waiting EXCEPT ![c] = "asking"]
  /\ UNCHANGED <<tokens, elapsed, window>>

WaitCancelled(c) ==
  /\ waiting[c] = "asleep"
  /\ waiting' = [waiting EXCEPT ![c] = "out"]
  /\ UNCHANGED <<tokens, elapsed, window>>

LimiterNext ==
  \/ LimiterTick \/ OpenWindow \/ Allow
  \/ \E c \in WaitCallers : BeginWait(c) \/ Ask(c) \/ WakeUp(c) \/ WaitCancelled(c)

LimiterSpec == LimiterInit /\ [][LimiterNext]_limiterVars

------------------------------------------------------------------------------

\* However the callers of Allow and Wait take turns, and whatever was saved up
\* before, a window of any length grants at most Limit calls, and one for each
\* interval in it, the last one begun included: what is left over of the time
\* before the window can bring a refill forward, not add one
\* (backpressure.go:338).
RateIsBounded ==
  window.granted <= Limit + (window.age + Interval - 1) \div Interval
==============================================================================
