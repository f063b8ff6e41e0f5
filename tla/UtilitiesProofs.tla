--------------------------- MODULE UtilitiesProofs ---------------------------
(***************************************************************************)
(* Proofs about the smaller parts, each for any values of its constants:   *)
(* the bounded worker pool closes gracefully and accounts for every job,   *)
(* the circuit breaker implements the Breaker, the rate limiter keeps its  *)
(* rate in every window, the HTTP client leaves no body open and reports   *)
(* every deadline, the score of the link filter is monotone in every word, *)
(* and the feed monitor is a client of the store that its Stop silences.   *)
(***************************************************************************)
EXTENDS BoundedPool, CircuitBreaker, RateLimiter, HttpClient, LinkFilter,
        FeedMonitor, JobStoreProofs, FiniteSums

-----------------------------------------------------------------------------
(* The pool.  A job that was accepted is in the channel, with a worker or   *)
(* finished.  A worker only leaves an empty channel that takes no more, so  *)
(* one that has left stands for the first case, and all of them, which      *)
(* Close waits for, for the second.                                         *)

PoolShape ==
  /\ caller \in [Callers -> {"out", "sending", "turned", "accepted", "closed",
                             "rejected", "panicked"}]
  /\ jobs \in Seq(Callers)
  /\ working \in [PoolWorkers -> Callers \union {NoJob, "exited"}]
  /\ closer \in [PoolClosers -> {"out", "closing", "waiting", "returned", "wasClosed"}]

Located(c) ==
  \/ c \in finished
  \/ \E i \in 1 .. Len(jobs) : jobs[i] = c
  \/ \E w \in PoolWorkers : working[w] = c

PoolInv ==
  /\ PoolShape
  /\ \A c \in Callers : caller[c] = "accepted" => Located(c)
  /\ \A w \in PoolWorkers : working[w] = "exited" => jobsClosed /\ jobs = <<>>
  /\ \A k \in PoolClosers :
       closer[k] = "returned" => \A w \in PoolWorkers : working[w] = "exited"

LEMMA InitPoolInv == PoolInit => PoolInv
  BY PoolAssumption DEF PoolInit, PoolInv, PoolShape, PoolAssumption

LEMMA PoolInvStep == PoolInv /\ [PoolNext]_poolVars => PoolInv'
<1> SUFFICES ASSUME PoolInv, [PoolNext]_poolVars PROVE PoolInv'
  OBVIOUS
<1> USE PoolAssumption DEF PoolAssumption, PoolInv, PoolShape
<1>1. ASSUME NEW c \in Callers, EnterSubmit(c) PROVE PoolInv'
  BY <1>1 DEF EnterSubmit, Located
<1>2. ASSUME NEW c \in Callers, SendJob(c) PROVE PoolInv'
  <2>1. PoolShape'
    BY <1>2 DEF SendJob
  <2>2. ASSUME NEW d \in Callers, caller'[d] = "accepted" PROVE Located(d)'
    <3>1. CASE d = c
      <4>1. Len(jobs') = Len(jobs) + 1 /\ jobs'[Len(jobs) + 1] = c
        BY <1>2 DEF SendJob
      <4> QED
        BY <3>1, <4>1 DEF Located
    <3>2. CASE d # c
      <4>1. Located(d)
        BY <1>2, <2>2, <3>2 DEF SendJob
      <4>2. /\ Len(jobs') = Len(jobs) + 1
            /\ \A i \in 1 .. Len(jobs) : jobs'[i] = jobs[i]
        BY <1>2 DEF SendJob
      <4>3. finished' = finished /\ working' = working
        BY <1>2 DEF SendJob
      <4> QED
        BY <4>1, <4>2, <4>3 DEF Located
    <3> QED
      BY <3>1, <3>2
  <2> QED
    BY <1>2, <2>1, <2>2 DEF SendJob
<1>3. ASSUME NEW c \in Callers, SendOnClosed(c) \/ TurnAway(c) \/ CountRejected(c)
      PROVE PoolInv'
  BY <1>3 DEF SendOnClosed, TurnAway, CountRejected, Located
<1>4. ASSUME NEW w \in PoolWorkers, TakeJob(w) PROVE PoolInv'
  <2>1. /\ Head(jobs) \in Callers /\ Tail(jobs) \in Seq(Callers)
        /\ jobs[1] = Head(jobs) /\ Len(Tail(jobs)) = Len(jobs) - 1
        /\ \A i \in 2 .. Len(jobs) : Tail(jobs)[i - 1] = jobs[i]
    BY <1>4 DEF TakeJob
  <2>2. PoolShape'
    BY <1>4, <2>1 DEF TakeJob
  <2>3. ASSUME NEW d \in Callers, caller'[d] = "accepted" PROVE Located(d)'
    <3>1. Located(d)
      BY <1>4, <2>3 DEF TakeJob
    <3>2. CASE d \in finished
      BY <1>4, <3>2 DEF TakeJob, Located
    <3>3. ASSUME NEW i \in 1 .. Len(jobs), jobs[i] = d PROVE Located(d)'
      <4>1. CASE i = 1
        BY <1>4, <2>1, <3>3, <4>1 DEF TakeJob, Located
      <4>2. CASE i # 1
        <5>1. i - 1 \in 1 .. Len(jobs') /\ jobs'[i - 1] = d
          BY <1>4, <2>1, <3>3, <4>2 DEF TakeJob
        <5> QED
          BY <5>1 DEF Located
      <4> QED
        BY <4>1, <4>2
    <3>4. ASSUME NEW v \in PoolWorkers, working[v] = d PROVE Located(d)'
      <4>1. v # w
        BY <1>4, <3>4 DEF TakeJob
      <4> QED
        BY <1>4, <3>4, <4>1 DEF TakeJob, Located
    <3> QED
      BY <3>1, <3>2, <3>3, <3>4 DEF Located
  <2>4. /\ \A v \in PoolWorkers : working'[v] = "exited" => working[v] = "exited"
        /\ \A v \in PoolWorkers : working[v] # "exited"
    BY <1>4, <2>1 DEF TakeJob
  <2> QED
    BY <1>4, <2>2, <2>3, <2>4 DEF TakeJob
<1>5. ASSUME NEW w \in PoolWorkers, FinishJob(w) PROVE PoolInv'
  BY <1>5 DEF FinishJob, Located
<1>6. ASSUME NEW w \in PoolWorkers, ExitWorker(w) PROVE PoolInv'
  BY <1>6 DEF ExitWorker, Located
<1>7. ASSUME NEW k \in PoolClosers, BeginClose(k) \/ CloseJobs(k) \/ EndClose(k)
      PROVE PoolInv'
  BY <1>7 DEF BeginClose, CloseJobs, EndClose, Located
<1>8. CASE UNCHANGED poolVars
  BY <1>8 DEF poolVars, Located
<1> QED
  BY <1>1, <1>2, <1>3, <1>4, <1>5, <1>6, <1>7, <1>8 DEF PoolNext

(* "Close shuts down the pool gracefully, waiting for all queued jobs to   *)
(* complete" (backpressure.go:168), for any callers, workers and capacity. *)
THEOREM PoolClosesGracefully == PoolSpec => []CloseIsGraceful
<1>1. PoolInv => CloseIsGraceful
  BY PoolAssumption DEF PoolInv, PoolShape, CloseIsGraceful, Located, PoolAssumption
<1> QED
  BY <1>1, InitPoolInv, PoolInvStep, PTL DEF PoolSpec

-----------------------------------------------------------------------------
(* The counters.  A step moves one job from one term of the sum to another, *)
(* or adds one to both sides.  The callers between the mutex and the        *)
(* channel are finitely many, as each has counted itself.                   *)

AtWork == {w \in PoolWorkers : working[w] \in Callers}
Between == {c \in Callers : caller[c] \in {"sending", "turned", "panicked"}}

SumInv ==
  /\ PoolShape
  /\ stats \in [submitted : Nat, completed : Nat, rejected : Nat]
  /\ IsFiniteSet(Between)
  /\ CountersAddUp

LEMMA InitSumInv == PoolInit => SumInv
<1> SUFFICES ASSUME PoolInit PROVE SumInv
  OBVIOUS
<1>1. AtWork = {} /\ Between = {}
  BY PoolAssumption DEF PoolInit, AtWork, Between, PoolAssumption
<1>2. Cardinality(AtWork) = 0 /\ Cardinality(Between) = 0 /\ IsFiniteSet(Between)
  BY <1>1, FS_EmptySet
<1>3. PoolShape
  BY InitPoolInv DEF PoolInv
<1> QED
  BY <1>2, <1>3 DEF PoolInit, SumInv, CountersAddUp, AtWork, Between

LEMMA SumInvStep == SumInv /\ PoolShape' /\ [PoolNext]_poolVars => SumInv'
<1> SUFFICES ASSUME SumInv, PoolShape', [PoolNext]_poolVars PROVE SumInv'
  OBVIOUS
<1> USE PoolAssumption DEF PoolAssumption, PoolShape
<1>0. /\ IsFiniteSet(AtWork) /\ IsFiniteSet(Between) /\ Len(jobs) \in Nat
      /\ Cardinality(AtWork) \in Nat /\ Cardinality(Between) \in Nat
      /\ stats.submitted = stats.completed + stats.rejected + Len(jobs)
                             + Cardinality(AtWork) + Cardinality(Between)
  BY FS_Subset, FS_CardinalityType DEF SumInv, CountersAddUp, AtWork, Between
<1>e. stats \in [submitted : Nat, completed : Nat, rejected : Nat]
  BY DEF SumInv
<1> DEFINE Sum == stats'.completed + stats'.rejected + Len(jobs')
                    + Cardinality(AtWork') + Cardinality(Between')
<1>d. stats.submitted \in Nat /\ stats.completed \in Nat /\ stats.rejected \in Nat
  BY <1>e
<1>a. ASSUME stats' \in [submitted : Nat, completed : Nat, rejected : Nat],
             IsFiniteSet(Between'), stats'.submitted = Sum
      PROVE  SumInv'
  BY <1>a DEF SumInv, CountersAddUp, AtWork, Between
<1>b. ASSUME working' = working PROVE AtWork' = AtWork
  BY <1>b DEF AtWork
<1>c. ASSUME caller' = caller PROVE Between' = Between
  BY <1>c DEF Between
<1>1. ASSUME NEW c \in Callers, EnterSubmit(c) PROVE SumInv'
  <2>1. CASE closed
    <3>1. Between' = Between /\ UNCHANGED <<stats, jobs, working>>
      BY <1>1, <2>1 DEF EnterSubmit, Between, SumInv
    <3> QED
      BY <1>0, <1>a, <1>e, <1>b, <3>1
  <2>2. CASE ~closed
    <3>1. /\ Between' = Between \union {c} /\ c \notin Between
          /\ stats' = [stats EXCEPT !.submitted = @ + 1] /\ UNCHANGED <<jobs, working>>
      BY <1>1, <2>2 DEF EnterSubmit, Between, SumInv
    <3>2. IsFiniteSet(Between') /\ Cardinality(Between') = Cardinality(Between) + 1
      BY <1>0, <3>1, FS_AddElement
    <3>3. /\ stats'.submitted = stats.submitted + 1
          /\ stats'.completed = stats.completed /\ stats'.rejected = stats.rejected
          /\ stats' \in [submitted : Nat, completed : Nat, rejected : Nat]
      BY <1>e, <3>1
    <3>4. stats'.submitted = Sum
      BY <1>0, <1>b, <1>d, <3>1, <3>2, <3>3
    <3> QED
      BY <1>a, <3>2, <3>3, <3>4
  <2> QED
    BY <2>1, <2>2
<1>2. ASSUME NEW c \in Callers, SendJob(c) PROVE SumInv'
  <2>1. /\ Between' = Between \ {c} /\ c \in Between
        /\ UNCHANGED <<stats, working>> /\ Len(jobs') = Len(jobs) + 1
    BY <1>2 DEF SendJob, Between, SumInv
  <2>2. IsFiniteSet(Between') /\ Cardinality(Between') = Cardinality(Between) - 1
    BY <1>0, <2>1, FS_RemoveElement
  <2> QED
    BY <1>0, <1>a, <1>e, <1>b, <2>1, <2>2
<1>3. ASSUME NEW c \in Callers, SendOnClosed(c) \/ TurnAway(c) PROVE SumInv'
  <2>1. Between' = Between /\ UNCHANGED <<stats, jobs, working>>
    BY <1>3 DEF SendOnClosed, TurnAway, Between, SumInv
  <2> QED
    BY <1>0, <1>a, <1>e, <1>b, <2>1
<1>4. ASSUME NEW c \in Callers, CountRejected(c) PROVE SumInv'
  <2>1. /\ Between' = Between \ {c} /\ c \in Between
        /\ stats' = [stats EXCEPT !.rejected = @ + 1] /\ UNCHANGED <<jobs, working>>
    BY <1>4 DEF CountRejected, Between, SumInv
  <2>2. IsFiniteSet(Between') /\ Cardinality(Between') = Cardinality(Between) - 1
    BY <1>0, <2>1, FS_RemoveElement
  <2>3. /\ stats'.rejected = stats.rejected + 1
        /\ stats'.submitted = stats.submitted /\ stats'.completed = stats.completed
        /\ stats' \in [submitted : Nat, completed : Nat, rejected : Nat]
    BY <1>e, <2>1
  <2>4. PICK l \in Nat : l = Len(jobs)
    BY <1>0
  <2>5. /\ Cardinality(AtWork) \in Nat /\ Cardinality(Between) \in Nat
        /\ stats.submitted = stats.completed + stats.rejected + l
                               + Cardinality(AtWork) + Cardinality(Between)
    BY <1>0, <2>4
  <2>6. stats.submitted = stats.completed + (stats.rejected + 1) + l + Cardinality(AtWork)
                           + (Cardinality(Between) - 1)
    BY ONLY <1>d, <2>5
  <2>7. stats'.submitted = Sum
    BY <1>b, <2>1, <2>2, <2>3, <2>4, <2>6
  <2> QED
    BY <1>a, <2>2, <2>3, <2>7
<1>5. ASSUME NEW w \in PoolWorkers, TakeJob(w) PROVE SumInv'
  <2>1. Head(jobs) \in Callers /\ Len(jobs') = Len(jobs) - 1 /\ UNCHANGED <<stats, caller>>
    BY <1>5 DEF TakeJob, SumInv
  <2>2. AtWork' = AtWork \union {w} /\ w \notin AtWork
    BY <1>5, <2>1 DEF TakeJob, AtWork, SumInv
  <2>3. Cardinality(AtWork') = Cardinality(AtWork) + 1
    BY <1>0, <2>2, FS_AddElement
  <2> QED
    BY <1>0, <1>a, <1>e, <1>c, <2>1, <2>3
<1>6. ASSUME NEW w \in PoolWorkers, FinishJob(w) PROVE SumInv'
  <2>1. /\ AtWork' = AtWork \ {w} /\ w \in AtWork
        /\ stats' = [stats EXCEPT !.completed = @ + 1] /\ UNCHANGED <<jobs, caller>>
    BY <1>6 DEF FinishJob, AtWork, SumInv
  <2>2. Cardinality(AtWork') = Cardinality(AtWork) - 1
    BY <1>0, <2>1, FS_RemoveElement
  <2>3. /\ stats'.completed = stats.completed + 1
        /\ stats'.submitted = stats.submitted /\ stats'.rejected = stats.rejected
        /\ stats' \in [submitted : Nat, completed : Nat, rejected : Nat]
    BY <1>e, <2>1
  <2>4. stats'.submitted = Sum
    BY <1>0, <1>c, <1>d, <2>1, <2>2, <2>3
  <2> QED
    BY <1>0, <1>a, <1>e, <1>c, <2>1, <2>3, <2>4
<1>7. ASSUME NEW w \in PoolWorkers, ExitWorker(w) PROVE SumInv'
  <2>1. AtWork' = AtWork /\ UNCHANGED <<stats, jobs, caller>>
    BY <1>7 DEF ExitWorker, AtWork, SumInv
  <2> QED
    BY <1>0, <1>a, <1>e, <1>c, <2>1
<1>8. ASSUME NEW k \in PoolClosers, BeginClose(k) \/ CloseJobs(k) \/ EndClose(k)
      PROVE SumInv'
  <2>1. UNCHANGED <<stats, jobs, caller, working>>
    BY <1>8 DEF BeginClose, CloseJobs, EndClose
  <2> QED
    BY <1>0, <1>a, <1>e, <1>b, <1>c, <2>1
<1>9. CASE UNCHANGED poolVars
  BY <1>0, <1>9, <1>a, <1>e, <1>b, <1>c DEF poolVars
<1> QED
  BY <1>1, <1>2, <1>3, <1>4, <1>5, <1>6, <1>7, <1>8, <1>9 DEF PoolNext

(* The counters of GetStats account for every job that was submitted, for  *)
(* any callers, workers and capacity, panicking callers included.          *)
THEOREM StatsAccountForEveryJob == PoolSpec => []CountersAddUp
<1>1. SumInv => CountersAddUp
  BY DEF SumInv
<1>2. PoolInv => PoolShape
  BY DEF PoolInv
<1> QED
  BY <1>1, <1>2, InitPoolInv, PoolInvStep, InitSumInv, SumInvStep, PTL DEF PoolSpec

-----------------------------------------------------------------------------
(* The breaker.  A function runs only with the breaker closed or half-open, *)
(* which is why a success never closes an open one.                         *)

BreakerInv ==
  /\ cbState \in {"closed", "open", "halfOpen"}
  /\ failures \in Nat /\ successCount \in Nat
  /\ executing => cbState # "open"

LEMMA InitBreakerInv == BreakerInit => BreakerInv
  BY BreakerAssumption DEF BreakerInit, BreakerInv, BreakerAssumption

LEMMA BreakerInvStep == BreakerInv /\ [BreakerNext]_cbVars => BreakerInv'
  BY BreakerAssumption
  DEF BreakerAssumption, BreakerInv, cbVars, BreakerNext,
      BreakerTick, Admit, FnFails, FnSucceeds, FnPanics

LEMMA BreakerRefines ==
  BreakerInv /\ [BreakerNext]_cbVars => [Contract!Next]_Contract!vars
<1> SUFFICES ASSUME BreakerInv, [BreakerNext]_cbVars
             PROVE Contract!Next \/ UNCHANGED Contract!vars
  BY DEF Contract!vars
<1> USE BreakerAssumption DEF BreakerAssumption, BreakerInv
<1>1. CASE BreakerTick \/ Admit \/ FnPanics \/ UNCHANGED cbVars
  BY <1>1 DEF BreakerTick, Admit, FnPanics, cbVars, Contract!vars
<1>2. CASE FnFails
  BY <1>2 DEF FnFails, Contract!Next, Contract!Fail
<1>3. CASE FnSucceeds
  BY <1>3 DEF FnSucceeds, Contract!Next, Contract!Succeed
<1> QED
  BY <1>1, <1>2, <1>3 DEF BreakerNext

(* The states and counters of CircuitBreaker keep the promise of Breaker,  *)
(* for any thresholds and any timeout (backpressure.go:238).               *)
THEOREM CircuitBreakerImplementsBreaker == BreakerSpec => ImplementsBreaker
<1>1. BreakerInit => Contract!Init
  BY DEF BreakerInit, Contract!Init
<1> QED
  BY <1>1, InitBreakerInv, BreakerInvStep, BreakerRefines, PTL
  DEF BreakerSpec, ImplementsBreaker, Contract!Spec

-----------------------------------------------------------------------------
(* The rate limiter.  Counted in ticks, a token is worth an interval.  What *)
(* can be granted without another tick is the tokens and the time on the    *)
(* clock, but no more than Limit intervals and what is left over of one: a  *)
(* tick adds one to it, a refill never adds to it, a call takes an interval *)
(* from it.                                                                 *)

Full == Limit * Interval

Usable ==
  IF tokens * Interval + elapsed < Full + Interval
    THEN tokens * Interval + elapsed ELSE Full + Interval - 1

LimiterInv ==
  /\ LimiterTypeOK
  /\ ~window.open => window.granted = 0
  /\ window.granted * Interval + Usable <= Full + Interval - 1 + window.age

LEMMA Quotient ==
  ASSUME NEW d \in Nat \ {0}, NEW n \in Nat
  PROVE  n \div d \in Nat /\ (n \div d) * d <= n /\ n < (n \div d) * d + d
  OBVIOUS

LEMMA Times ==
  ASSUME NEW d \in Nat, NEW m \in Nat, NEW n \in Nat
  PROVE  /\ m * d \in Nat /\ (m + n) * d = m * d + n * d
         /\ m <= n => m * d <= n * d
  OBVIOUS

LEMMA FullIsNat == Full \in Nat /\ Interval \in Nat \ {0} /\ Limit \in Nat \ {0}
  BY LimiterAssumption, Times DEF LimiterAssumption, Full

(* A refill adds nothing to what can be granted: it gives a token only for *)
(* the intervals it takes off the clock.                                   *)
LEMMA RefillAddsNothing ==
  ASSUME LimiterTypeOK
  PROVE  /\ Refilled.tokens \in 0 .. Limit /\ Refilled.elapsed \in 0 .. Full
         /\ Refilled.tokens * Interval + Refilled.elapsed <= Usable
<1> DEFINE added == elapsed \div Interval
           total == IF tokens + added < Limit THEN tokens + added ELSE Limit
           left == IF added > 0 THEN 0 ELSE elapsed
<1>1. Refilled.tokens = total /\ Refilled.elapsed = left
  BY DEF Refilled
<1>2. tokens \in Nat /\ tokens <= Limit /\ elapsed \in Nat /\ elapsed <= Full
  BY FullIsNat DEF LimiterTypeOK, Full
<1>3. added \in Nat /\ added * Interval <= elapsed /\ elapsed < added * Interval + Interval
  BY <1>2, FullIsNat, Quotient
<1> HIDE DEF added
<1>4. total \in Nat /\ total <= Limit /\ total <= tokens + added
  BY <1>2, <1>3, FullIsNat
<1>5. left \in Nat /\ left <= elapsed
  BY <1>2, <1>3
<1>6. /\ total * Interval <= Full /\ total * Interval \in Nat
      /\ total * Interval <= tokens * Interval + added * Interval
      /\ tokens * Interval \in Nat /\ added * Interval \in Nat
      /\ tokens * Interval <= Full
  BY <1>2, <1>3, <1>4, FullIsNat, Times DEF Full
<1> HIDE DEF total, left
<1>7. total * Interval + left <= tokens * Interval + elapsed
  <2>1. CASE added > 0
    BY <1>2, <1>3, <1>6, <2>1 DEF left
  <2>2. CASE added = 0
    <3>1. total = tokens
      BY <1>2, <2>2, FullIsNat DEF total
    <3>2. QED
      BY <1>2, <2>2, <1>3, <1>5, <1>6, <3>1
  <2>3. QED
    BY <1>3, <2>1, <2>2
<1>8. total * Interval + left < Full + Interval
  <2>1. left < Interval
    <3>1. CASE added > 0
      BY <3>1, FullIsNat DEF left
    <3>2. CASE added = 0
      BY <1>2, <1>3, <1>5, <3>2, FullIsNat
    <3>3. QED
      BY <1>3, <3>1, <3>2
  <2>2. QED
    BY <1>5, <1>6, <2>1, FullIsNat
<1>9. total * Interval + left <= Usable
  BY <1>2, <1>5, <1>6, <1>7, <1>8, FullIsNat DEF Usable
<1>10. QED
  BY <1>1, <1>2, <1>4, <1>5, <1>9, FullIsNat

LEMMA UsableBounds ==
  ASSUME LimiterTypeOK
  PROVE  /\ Usable \in Nat /\ Usable <= Full + Interval - 1
         /\ Usable <= tokens * Interval + elapsed
<1>1. tokens \in Nat /\ elapsed \in Nat
  BY FullIsNat DEF LimiterTypeOK, Full
<1>2. tokens * Interval \in Nat
  BY <1>1, FullIsNat, Times
<1>3. QED
  BY <1>1, <1>2, FullIsNat DEF Usable

LEMMA InitLimiterInv == LimiterInit => LimiterInv
<1> SUFFICES ASSUME LimiterInit PROVE LimiterInv
  OBVIOUS
<1>1. LimiterTypeOK
  BY FullIsNat, LimiterAssumption DEF LimiterInit, LimiterTypeOK, LimiterAssumption, Full
<1>2. window.granted * Interval = 0
  BY FullIsNat DEF LimiterInit
<1>3. QED
  BY <1>1, <1>2, UsableBounds, FullIsNat DEF LimiterInit, LimiterInv

(* Allow: what a call is granted was usable before.                        *)
LEMMA AllowStep ==
  ASSUME LimiterInv, AllowYes \/ AllowNo,
         waiting' \in [WaitCallers -> {"out", "asking", "asleep"}]
  PROVE  LimiterInv'
<1>1. LimiterTypeOK
  BY DEF LimiterInv
<1>2. /\ Refilled.tokens \in 0 .. Limit /\ Refilled.elapsed \in 0 .. Full
      /\ Refilled.tokens * Interval + Refilled.elapsed <= Usable
  BY <1>1, RefillAddsNothing
<1>3. PICK t \in Nat : t = Refilled.tokens /\ t <= Limit
  BY <1>2, FullIsNat
<1>4. PICK e \in Nat : e = Refilled.elapsed /\ e <= Full
  BY <1>2, FullIsNat
<1>5. Usable \in Nat /\ window.granted \in Nat /\ window.age \in Nat
  BY <1>1, UsableBounds, LimiterAssumption DEF LimiterTypeOK, LimiterAssumption
<1>6. CASE AllowYes
  <2>1. tokens' = t - 1 /\ elapsed' = e /\ t > 0
    BY <1>3, <1>4, <1>6 DEF AllowYes
  <2>2. /\ window' \in [open : BOOLEAN, age : 0 .. WindowBound, granted : Nat]
        /\ window'.age = window.age /\ window'.open = window.open
        /\ window'.granted = IF window.open THEN window.granted + 1 ELSE window.granted
    BY <1>1, <1>6 DEF AllowYes, Granted, LimiterTypeOK
  <2>3. LimiterTypeOK'
    BY <1>3, <1>4, <2>1, <2>2, FullIsNat DEF LimiterTypeOK, Full
  <2>4. PICK x \in Nat : x = (t - 1) * Interval
    <3>1. t - 1 \in Nat
      BY <2>1
    <3>2. QED
      BY <3>1, FullIsNat, Times
  <2>5. Usable' <= x + e /\ Usable' \in Nat
    BY <2>1, <2>4, FullIsNat DEF Usable
  <2>6. t * Interval = (t - 1) * Interval + Interval /\ (t - 1) * Interval \in Nat
    <3>1. t - 1 \in Nat /\ t = (t - 1) + 1 /\ 1 * Interval = Interval
      BY <2>1, FullIsNat
    <3>2. QED
      BY <3>1, FullIsNat, Times
  <2>7. Usable' <= Usable - Interval
    BY <1>2, <1>3, <1>4, <1>5, <2>1, <2>4, <2>5, <2>6, FullIsNat
  <2>8. window'.granted * Interval <= window.granted * Interval + Interval
    <3>1. /\ (window.granted + 1) * Interval = window.granted * Interval + Interval
          /\ window.granted * Interval \in Nat
      <4>1. 1 * Interval = Interval
        BY FullIsNat
      <4>2. QED
        BY <1>5, <4>1, FullIsNat, Times
    <3>2. QED
      BY <1>5, <2>2, <3>1, FullIsNat
  <2>9. window.granted * Interval \in Nat /\ window'.granted * Interval \in Nat
    BY <1>5, <2>2, FullIsNat, Times
  <2>10. /\ ~window'.open => window'.granted = 0
         /\ window'.granted * Interval + Usable' <= Full + Interval - 1 + window'.age
    <3>1. ~window'.open => window'.granted = 0
      BY <2>2 DEF LimiterInv
    <3>2. PICK y \in Nat : y = window.granted * Interval
      BY <2>9
    <3>3. y + Usable <= Full + Interval - 1 + window.age
      BY <3>2 DEF LimiterInv
    <3>4. window'.granted * Interval + Usable' <= y + Usable
      BY <1>5, <2>5, <2>7, <2>8, <2>9, <3>2, FullIsNat
    <3>5. PICK z \in Nat : z = window'.granted * Interval
      BY <2>9
    <3>6. z + Usable' <= Full + Interval - 1 + window'.age
      BY ONLY <1>5, <2>2, <2>5, <3>3, <3>4, <3>5, FullIsNat
    <3>7. QED
      BY <3>1, <3>5, <3>6
  <2>11. QED
    BY <2>3, <2>10 DEF LimiterInv
<1>7. CASE AllowNo
  <2>1. tokens' = t /\ elapsed' = e /\ t = 0 /\ window' = window
    BY <1>3, <1>4, <1>7 DEF AllowNo
  <2>2. LimiterTypeOK'
    BY <1>1, <1>3, <1>4, <2>1, FullIsNat DEF LimiterTypeOK, Full
  <2>3. Usable' <= Usable /\ Usable' \in Nat
    <3>1. t * Interval \in Nat
      BY FullIsNat, Times
    <3>2. QED
      BY <1>2, <1>3, <1>4, <1>5, <2>1, <3>1, FullIsNat DEF Usable
  <2>4. window.granted * Interval \in Nat
    BY <1>5, FullIsNat, Times
  <2>5. window'.granted * Interval + Usable' <= Full + Interval - 1 + window'.age
    BY <1>5, <2>1, <2>3, <2>4, FullIsNat DEF LimiterInv
  <2>6. QED
    BY <2>1, <2>2, <2>5 DEF LimiterInv
<1>8. QED
  BY <1>6, <1>7

LEMMA TickStep == LimiterInv /\ LimiterTick => LimiterInv'
<1> SUFFICES ASSUME LimiterInv, LimiterTick PROVE LimiterInv'
  OBVIOUS
<1>1. /\ tokens \in Nat /\ elapsed \in Nat /\ elapsed <= Full /\ tokens' = tokens
      /\ elapsed' = (IF elapsed < Full THEN elapsed + 1 ELSE elapsed)
      /\ window.granted \in Nat /\ window.age \in Nat /\ window.age < WindowBound
  BY FullIsNat, LimiterAssumption
  DEF LimiterInv, LimiterTypeOK, LimiterTick, LimiterAssumption, Full
<1>2. /\ window' \in [open : BOOLEAN, age : 0 .. WindowBound, granted : Nat]
      /\ window'.granted = window.granted /\ window'.open = window.open
      /\ window'.age = IF window.open THEN window.age + 1 ELSE window.age
  BY <1>1, LimiterAssumption DEF LimiterInv, LimiterTypeOK, LimiterTick, LimiterAssumption
<1>3. LimiterTypeOK'
  BY <1>1, <1>2, FullIsNat DEF LimiterInv, LimiterTypeOK, LimiterTick, Full
<1>4. tokens * Interval \in Nat /\ window.granted * Interval \in Nat
  BY <1>1, FullIsNat, Times
<1>5. Usable' <= Usable + 1 /\ Usable \in Nat /\ Usable' \in Nat /\ Usable' <= Full + Interval - 1
  BY <1>1, <1>4, FullIsNat DEF Usable
<1>6. CASE window.open
  BY <1>1, <1>2, <1>3, <1>4, <1>5, <1>6, FullIsNat DEF LimiterInv
<1>7. CASE ~window.open
  <2>1. window.granted * Interval = 0
    BY <1>7, FullIsNat DEF LimiterInv
  <2>2. QED
    BY <1>1, <1>2, <1>3, <1>5, <1>7, <2>1, FullIsNat DEF LimiterInv
<1>8. QED
  BY <1>2, <1>6, <1>7

LEMMA LimiterInvStep == LimiterInv /\ [LimiterNext]_limiterVars => LimiterInv'
<1> SUFFICES ASSUME LimiterInv, [LimiterNext]_limiterVars PROVE LimiterInv'
  OBVIOUS
<1>1. ASSUME UNCHANGED <<tokens, elapsed>>, LimiterTypeOK',
             window'.granted = window.granted, window'.age = window.age,
             window.open => window'.open
      PROVE  LimiterInv'
  BY <1>1 DEF LimiterInv, Usable
<1>2. CASE OpenWindow
  <2>1. /\ LimiterTypeOK' /\ window'.granted = window.granted
        /\ window'.age = window.age /\ window'.open
    BY <1>2 DEF OpenWindow, LimiterInv, LimiterTypeOK
  <2>2. QED
    BY <1>1, <1>2, <2>1 DEF OpenWindow
<1>3. CASE Allow
  BY <1>3, AllowStep DEF Allow, LimiterInv, LimiterTypeOK
<1>4. ASSUME NEW c \in WaitCallers, Ask(c) PROVE LimiterInv'
  <2>1. waiting' \in [WaitCallers -> {"out", "asking", "asleep"}]
    BY <1>4 DEF Ask, LimiterInv, LimiterTypeOK
  <2>2. QED
    BY <1>4, <2>1, AllowStep DEF Ask
<1>5. ASSUME NEW c \in WaitCallers, BeginWait(c) \/ WakeUp(c) \/ WaitCancelled(c)
      PROVE  LimiterInv'
  <2>1. LimiterTypeOK' /\ UNCHANGED <<tokens, elapsed, window>>
    BY <1>5 DEF BeginWait, WakeUp, WaitCancelled, LimiterInv, LimiterTypeOK
  <2>2. QED
    BY <1>1, <2>1
<1>6. CASE UNCHANGED limiterVars
  BY <1>1, <1>6 DEF limiterVars, LimiterInv, LimiterTypeOK
<1>7. QED
  BY <1>2, <1>3, <1>4, <1>5, <1>6, TickStep DEF LimiterNext

(* No window of any length is granted more calls than the limit and one    *)
(* for each interval it has begun (backpressure.go:338).                   *)
THEOREM RateIsKept == LimiterSpec => []RateIsBounded
<1>1. LimiterInv => RateIsBounded
  <2> SUFFICES ASSUME LimiterInv PROVE RateIsBounded
    OBVIOUS
  <2>1. Usable \in Nat
    BY UsableBounds DEF LimiterInv
  <2>2. window.granted \in Nat /\ window.age \in Nat
    BY LimiterAssumption DEF LimiterInv, LimiterTypeOK, LimiterAssumption
  <2>3. PICK g \in Nat : g = window.granted
    BY <2>2
  <2>4. PICK a \in Nat : a = window.age + Interval - 1
    BY <2>2, FullIsNat
  <2>5. PICK k \in Nat : k = a \div Interval /\ a < k * Interval + Interval
    BY FullIsNat, Quotient
  <2>6. g * Interval \in Nat /\ g * Interval <= Full + a
    BY <2>1, <2>2, <2>3, <2>4, FullIsNat, Times DEF LimiterInv
  <2>7. SUFFICES ASSUME g > Limit + k PROVE FALSE
    BY <2>3, <2>4, <2>5, FullIsNat DEF RateIsBounded
  <2>8. /\ (Limit + k + 1) * Interval <= g * Interval
        /\ (Limit + k + 1) * Interval = Full + k * Interval + Interval
        /\ k * Interval \in Nat
    <3>1. Limit + k + 1 \in Nat /\ Limit + k \in Nat /\ Limit + k + 1 <= g
      BY <2>7, FullIsNat
    <3>2. (Limit + k + 1) * Interval <= g * Interval
      BY <3>1, FullIsNat, Times
    <3>3. (Limit + k) * Interval = Full + k * Interval /\ k * Interval \in Nat
      BY FullIsNat, Times DEF Full
    <3>4. (Limit + k + 1) * Interval = (Limit + k) * Interval + Interval
      <4>1. 1 * Interval = Interval
        BY FullIsNat
      <4>2. QED
        BY <3>1, <4>1, FullIsNat, Times
    <3>5. QED
      BY <3>2, <3>3, <3>4, FullIsNat
  <2>9. QED
    BY <2>5, <2>6, <2>8, FullIsNat
<1>2. QED
  BY <1>1, InitLimiterInv, LimiterInvStep, PTL DEF LimiterSpec

-----------------------------------------------------------------------------
(* The HTTP client.  The result is set with the last step, a context does   *)
(* not end after it, and an attempt follows only one that is over.          *)

HttpInv ==
  /\ HttpTypeOK
  /\ at # "done" => result = "none"
  /\ at = "backoff" => attempt < RetryMax
  /\ OnlyTheAnswerIsOpen
  /\ DeadlinesAreReported

LEMMA InitHttpInv == HttpInit => HttpInv
  BY RetryAssumption
  DEF HttpInit, HttpInv, HttpTypeOK, OnlyTheAnswerIsOpen, DeadlinesAreReported,
      Attempts, RetryAssumption

LEMMA HttpInvStep == HttpInv /\ [HttpNext]_httpVars => HttpInv'
<1> SUFFICES ASSUME HttpInv, [HttpNext]_httpVars PROVE HttpInv'
  OBVIOUS
<1> USE RetryAssumption
    DEF RetryAssumption, HttpInv, HttpTypeOK, OnlyTheAnswerIsOpen,
        DeadlinesAreReported, Attempts, Finish, ContextError
<1>1. CASE PassLimiter
  BY <1>1 DEF PassLimiter
<1>2. CASE AnswerFinal
  BY <1>2 DEF AnswerFinal
<1>3. CASE AnswerRetryable
  BY <1>3 DEF AnswerRetryable
<1>4. CASE RequestFails
  BY <1>4 DEF RequestFails
<1>5. CASE AwaitRetryAfter
  BY <1>5 DEF AwaitRetryAfter
<1>6. CASE Retry \/ Backoff
  BY <1>6 DEF Retry, Backoff
<1>7. CASE GiveUp
  BY <1>7 DEF GiveUp
<1>8. CASE ContextEnds \/ UNCHANGED httpVars
  BY <1>8 DEF ContextEnds, httpVars
<1> QED
  BY <1>1, <1>2, <1>3, <1>4, <1>5, <1>6, <1>7, <1>8 DEF HttpNext, CallStep

LEMMA AlwaysHttpInv == HttpSpec => []HttpInv
  BY InitHttpInv, HttpInvStep, PTL DEF HttpSpec

(* No body is left open but that of the answer the caller gets to read,    *)
(* however many attempts there are (httpx.go:165).                         *)
THEOREM NoBodyLeaks == HttpSpec => []OnlyTheAnswerIsOpen
<1>1. HttpInv => OnlyTheAnswerIsOpen
  BY DEF HttpInv
<1> QED
  BY <1>1, AlwaysHttpInv, PTL

(* A deadline is never reported as another error (httpx.go:158).           *)
THEOREM TimeoutsAreNormalized == HttpSpec => []DeadlinesAreReported
<1>1. HttpInv => DeadlinesAreReported
  BY DEF HttpInv
<1> QED
  BY <1>1, AlwaysHttpInv, PTL

-----------------------------------------------------------------------------
(* The link filter.  What a word does to the score is an inequality between *)
(* two shares: multiplied out, another word changes every product at once.  *)
(* The lemmas say in numbers, with G good words of W and T the threshold    *)
(* and the penalty, that a good word keeps the score and that a score       *)
(* reached with another word was reached without it.                        *)

FilterInv ==
  /\ good \in [GoodWords -> Nat]
  /\ bad \in Nat /\ other \in Nat

LEMMA InitFilterInv == FilterInit => FilterInv
  BY DEF FilterInit, FilterInv

LEMMA FilterInvStep == FilterInv /\ [FilterNext]_filterVars => FilterInv'
  BY DEF FilterInv, FilterNext, ReadGood, ReadBad, ReadOther, filterVars

(* The factor common to both sides of an inequality goes.                  *)
LEMMA Cancel ==
  ASSUME NEW k \in Nat \ {0}, NEW x \in Int, NEW y \in Int, k * x >= k * y
  PROVE  x >= y
<1> SUFFICES ASSUME y - x >= 1 PROVE FALSE
  OBVIOUS
<1>1. k * (y - x) >= k * 1
  OBVIOUS
<1>2. k * (y - x) = k * y - k * x
  OBVIOUS
<1> QED
  BY <1>1, <1>2

LEMMA AGoodWordKeepsTheScore ==
  ASSUME NEW G \in Nat, NEW W \in Nat \ {0}, G <= W,
         NEW N \in Nat \ {0}, NEW U \in Nat, NEW V \in Nat, U <= V, NEW T \in Nat,
         65 * G * N + 35 * U * W >= T * W * N
  PROVE  65 * (G + 1) * N + 35 * V * (W + 1) >= T * (W + 1) * N
<1> DEFINE before == 65 * (G * N) + 35 * (U * W)
           after == 65 * ((G + 1) * N) + 35 * (V * (W + 1))
<1>1. W * ((G + 1) * N) >= (W + 1) * (G * N)
  <2>1. W * ((G + 1) * N) = (W * G) * N + W * N
    OBVIOUS
  <2>2. (W + 1) * (G * N) = (W * G) * N + G * N
    OBVIOUS
  <2>3. W * N >= G * N
    OBVIOUS
  <2> QED
    BY <2>1, <2>2, <2>3
<1>2. W * (V * (W + 1)) >= (W + 1) * (U * W)
  <2>1. W * (V * (W + 1)) = V * (W * (W + 1))
    OBVIOUS
  <2>2. (W + 1) * (U * W) = U * (W * (W + 1))
    OBVIOUS
  <2>3. W * (W + 1) \in Nat
    OBVIOUS
  <2>4. \A p \in Nat : V * p >= U * p
    OBVIOUS
  <2> QED
    BY <2>1, <2>2, <2>3, <2>4
<1>3. W * after = 65 * (W * ((G + 1) * N)) + 35 * (W * (V * (W + 1)))
  OBVIOUS
<1>4. (W + 1) * before = 65 * ((W + 1) * (G * N)) + 35 * ((W + 1) * (U * W))
  OBVIOUS
<1>5. W * after >= (W + 1) * before
  BY <1>1, <1>2, <1>3, <1>4
<1>6. (W + 1) * before >= (W + 1) * (T * W * N)
  <2>1. before >= T * W * N
    OBVIOUS
  <2>2. before \in Nat /\ T * W * N \in Nat /\ W + 1 \in Nat
    OBVIOUS
  <2>3. \A k, x, y \in Nat : x >= y => k * x >= k * y
    OBVIOUS
  <2> HIDE DEF before
  <2> QED
    BY <2>1, <2>2, <2>3
<1>7. (W + 1) * (T * W * N) = W * (T * (W + 1) * N)
  OBVIOUS
<1>8. after >= T * (W + 1) * N
  <2>1. after \in Nat /\ T * (W + 1) * N \in Nat /\ before \in Nat
    OBVIOUS
  <2>2. W * after >= W * (T * (W + 1) * N)
    <3> HIDE DEF before, after
    <3> QED
      BY <1>5, <1>6, <1>7, <2>1
  <2> HIDE DEF before, after
  <2> QED
    BY <2>1, <2>2, Cancel
<1> QED
  BY <1>8

LEMMA AnotherWordWinsNothing ==
  ASSUME NEW G \in Nat, NEW W \in Nat \ {0},
         NEW N \in Nat \ {0}, NEW U \in Nat, NEW T \in Nat, NEW R \in Nat, T <= R,
         65 * G * N + 35 * U * (W + 1) >= R * (W + 1) * N
  PROVE  65 * G * N + 35 * U * W >= T * W * N
<1> DEFINE before == 65 * (G * N) + 35 * (U * W)
           after == 65 * (G * N) + 35 * (U * (W + 1))
<1>1. (W + 1) * before = W * after + 65 * (G * N)
  OBVIOUS
<1>2. G * N \in Nat
  OBVIOUS
<1>3. (W + 1) * before >= W * after
  <2> before \in Nat /\ after \in Nat
    OBVIOUS
  <2> HIDE DEF before, after
  <2> QED
    BY <1>1, <1>2
<1>4. W * after >= W * (R * (W + 1) * N)
  <2>1. after >= R * (W + 1) * N
    OBVIOUS
  <2>2. after \in Nat /\ R * (W + 1) * N \in Nat
    OBVIOUS
  <2>3. \A k, x, y \in Nat : x >= y => k * x >= k * y
    OBVIOUS
  <2> HIDE DEF after
  <2> QED
    BY <2>1, <2>2, <2>3
<1>5. W * (R * (W + 1) * N) >= (W + 1) * (T * W * N)
  <2>1. W * (R * (W + 1) * N) = R * ((W + 1) * (W * N))
    OBVIOUS
  <2>2. (W + 1) * (T * W * N) = T * ((W + 1) * (W * N))
    OBVIOUS
  <2>3. (W + 1) * (W * N) \in Nat
    OBVIOUS
  <2>4. \A p \in Nat : R * p >= T * p
    OBVIOUS
  <2> QED
    BY <2>1, <2>2, <2>3, <2>4
<1>6. before >= T * W * N
  <2>1. before \in Nat /\ after \in Nat /\ T * W * N \in Nat /\ R * (W + 1) * N \in Nat
        /\ W + 1 \in Nat \ {0}
    OBVIOUS
  <2>2. (W + 1) * before >= (W + 1) * (T * W * N)
    <3> HIDE DEF before, after
    <3> QED
      BY <1>3, <1>4, <1>5, <2>1
  <2> HIDE DEF before, after
  <2> QED
    BY <2>1, <2>2, Cancel
<1> QED
  BY <1>6

LEMMA TheCounts ==
  ASSUME FilterInv
  PROVE  /\ jobGood \in Nat /\ words \in Nat /\ jobGood <= words
         /\ uniq \in Nat /\ goods \in Nat \ {0}
         /\ words = jobGood + bad + other
<1> USE FilterAssumption DEF FilterAssumption, FilterInv
<1>1. jobGood \in Nat
  BY SumIsNat DEF jobGood
<1>2. IsFiniteSet({w \in GoodWords : good[w] > 0})
  BY FS_Subset
<1>3. uniq \in Nat
  BY <1>2, FS_CardinalityType DEF uniq
<1>4. goods \in Nat \ {0}
  BY FS_CardinalityType, FS_EmptySet DEF goods
<1> QED
  BY <1>1, <1>3, <1>4 DEF words

(* A good word is one more, and takes none of the others away.             *)
LEMMA AGoodWordCounts ==
  ASSUME FilterInv, NEW w \in GoodWords, ReadGood(w)
  PROVE  /\ jobGood' = jobGood + 1 /\ words' = words + 1
         /\ uniq' \in Nat /\ uniq <= uniq'
<1> USE FilterAssumption DEF FilterAssumption
<1>1. /\ \A x \in GoodWords : good[x] \in Nat /\ good'[x] \in Nat
      /\ good'[w] = good[w] + 1
      /\ \A x \in GoodWords \ {w} : good'[x] = good[x]
  BY DEF FilterInv, ReadGood
<1>2. jobGood' = jobGood + 1
  <2>1. /\ SumFunctionOnSet(good', GoodWords) + good[w]
             = SumFunctionOnSet(good, GoodWords) + good'[w]
    BY <1>1, SumUpdate
  <2>2. SumFunctionOnSet(good', GoodWords) \in Nat /\ SumFunctionOnSet(good, GoodWords) \in Nat
    BY <1>1, SumIsNat
  <2> QED
    BY <1>1, <2>1, <2>2 DEF jobGood
<1>3. words' = words + 1
  BY <1>2, TheCounts DEF words, ReadGood, FilterInv
<1>4. uniq' \in Nat /\ uniq <= uniq'
  <2>1. {x \in GoodWords : good[x] > 0} \subseteq {x \in GoodWords : good'[x] > 0}
    BY <1>1
  <2>2. IsFiniteSet({x \in GoodWords : good'[x] > 0})
    BY FS_Subset
  <2> QED
    BY <2>1, <2>2, FS_Subset, FS_CardinalityType DEF uniq
<1> QED
  BY <1>2, <1>3, <1>4

LEMMA APenaltyGrows ==
  ASSUME NEW n \in Nat, NEW m \in Nat, n <= m
  PROVE  /\ Capped(15 * n, 60) \in Nat /\ Capped(15 * n, 60) <= Capped(15 * m, 60)
  BY DEF Capped

(* Another good word, new or repeated, never loses a link, another bad or  *)
(* neutral one never wins it, for any keywords, threshold and numbers of   *)
(* words (heuristic.go:5).                                                 *)
THEOREM WordsAreMonotone == FilterSpec => WordsCountTheRightWay
<1>1. ASSUME FilterInv, NEW w \in GoodWords, ReadGood(w)
      PROVE  good' # good /\ (MustJobLinkURL => MustJobLinkURL')
  <2>1. good'[w] # good[w]
    BY <1>1 DEF FilterInv, ReadGood
  <2>2. ASSUME ScoresEnough PROVE ScoresEnough'
    <3>1. CASE Threshold = 0
      BY <3>1 DEF ScoresEnough
    <3>2. CASE Threshold # 0
      <4> DEFINE G == jobGood
                 W == words
                 N == goods
                 U == uniq
                 V == uniq'
                 T == Threshold + Capped(15 * bad, 60)
      <4>1. /\ G \in Nat /\ W \in Nat \ {0} /\ G <= W /\ N \in Nat \ {0}
            /\ U \in Nat /\ V \in Nat /\ U <= V /\ T \in Nat
        <5>1. T \in Nat
          BY <1>1, FilterAssumption, APenaltyGrows DEF FilterAssumption, FilterInv
        <5> QED
          BY <1>1, <2>2, <3>2, <5>1, TheCounts, AGoodWordCounts DEF ScoresEnough
      <4>2. 65 * G * N + 35 * U * W >= T * W * N
        BY <2>2, <3>2 DEF ScoresEnough
      <4>3. /\ jobGood' = G + 1 /\ words' = W + 1 /\ goods' = N
            /\ (Threshold + Capped(15 * bad, 60))' = T
        BY <1>1, AGoodWordCounts DEF ReadGood, goods
      <4> HIDE DEF G, W, N, U, V, T
      <4>4. 65 * (G + 1) * N + 35 * V * (W + 1) >= T * (W + 1) * N
        BY <4>1, <4>2, AGoodWordKeepsTheScore
      <4>5. words' > 0
        BY <4>1, <4>3
      <4> QED
        BY <4>3, <4>4, <4>5 DEF ScoresEnough, V
    <3> QED
      BY <3>1, <3>2
  <2> QED
    BY <1>1, <2>1, <2>2 DEF MustJobLinkURL, badHrefLite, InScope, ReadGood
<1>2. ASSUME FilterInv, ReadBad \/ ReadOther, MustJobLinkURL'
      PROVE  MustJobLinkURL
  <2>1. CASE Threshold = 0
    BY <1>2, <2>1 DEF MustJobLinkURL, badHrefLite, InScope, ScoresEnough,
       ReadBad, ReadOther, FilterInv
  <2>2. CASE Threshold # 0
    <3> DEFINE G == jobGood
               W == words
               N == goods
               U == uniq
               T == Threshold + Capped(15 * bad, 60)
               R == Threshold + Capped(15 * bad', 60)
    <3>1. /\ G \in Nat /\ W \in Nat /\ N \in Nat \ {0} /\ U \in Nat
          /\ T \in Nat /\ R \in Nat /\ T <= R /\ Threshold \in Nat \ {0}
      <4>1. /\ bad \in Nat /\ bad' \in Nat /\ bad <= bad'
        BY <1>2 DEF ReadBad, ReadOther, FilterInv
      <4>2. Threshold \in Nat \ {0}
        BY <2>2, FilterAssumption DEF FilterAssumption
      <4>3. /\ Capped(15 * bad, 60) \in Nat /\ Capped(15 * bad', 60) \in Nat
            /\ Capped(15 * bad, 60) <= Capped(15 * bad', 60)
        BY <4>1, APenaltyGrows
      <4> QED
        BY <1>2, <4>2, <4>3, TheCounts
    <3>2. /\ jobGood' = G /\ goods' = N /\ uniq' = U /\ words' = W + 1
          /\ (Threshold + Capped(15 * bad, 60))' = R
      <4>1. good' = good
        BY <1>2 DEF ReadBad, ReadOther
      <4>2. jobGood' = G /\ goods' = N /\ uniq' = U
        BY <4>1 DEF jobGood, goods, uniq
      <4>3. bad' + other' = bad + other + 1
        BY <1>2 DEF ReadBad, ReadOther, FilterInv
      <4>4. words' = W + 1
        BY <1>2, <4>2, <4>3, TheCounts DEF words, FilterInv, ReadBad, ReadOther
      <4> QED
        BY <4>2, <4>4
    <3>3. 65 * G * N + 35 * U * (W + 1) >= R * (W + 1) * N
      BY <1>2, <2>2, <3>2 DEF MustJobLinkURL, ScoresEnough
    (* A first word that is not good scores nothing.                       *)
    <3>4. W # 0
      <4> SUFFICES ASSUME W = 0 PROVE FALSE
        OBVIOUS
      <4>1. G = 0
        BY <1>2, TheCounts
      <4>2. U = 0
        <5>1. \A w \in GoodWords : good[w] = 0
          <6> SUFFICES ASSUME NEW w \in GoodWords PROVE good[w] = 0
            OBVIOUS
          <6>1. /\ SumFunctionOnSet(good, GoodWords)
                     = good[w] + SumFunctionOnSet(good, GoodWords \ {w})
                /\ SumFunctionOnSet(good, GoodWords \ {w}) \in Nat
            BY <1>2, FilterAssumption, SumTakeOut, SumIsNat, FS_RemoveElement
               DEF FilterAssumption, FilterInv
          <6> QED
            BY <1>2, <4>1, <6>1 DEF jobGood, FilterInv
        <5>2. {w \in GoodWords : good[w] > 0} = {}
          BY <5>1
        <5> QED
          BY <5>2, FS_EmptySet DEF uniq
      <4>3. Threshold <= R
        BY <3>1, <1>2, APenaltyGrows DEF FilterInv, ReadBad, ReadOther
      <4> HIDE DEF G, W, N, U, T, R
      <4>4. 0 >= R * N
        BY <3>1, <3>3, <4>1, <4>2
      <4>5. R * N >= 1
        BY <3>1, <4>3
      <4> QED
        BY <3>1, <4>4, <4>5
    <3>5. 65 * G * N + 35 * U * W >= T * W * N
      <4> HIDE DEF G, W, N, U, T, R
      <4> QED
        BY <3>1, <3>3, <3>4, AnotherWordWinsNothing
    <3>6. ScoresEnough
      <4>1. words > 0
        BY <3>1, <3>4
      <4> QED
        BY <3>5, <4>1 DEF ScoresEnough
    <3> HIDE DEF G, W, N, U, T, R
    <3> QED
      BY <1>2, <3>6 DEF MustJobLinkURL, badHrefLite, InScope, ReadBad,
         ReadOther, FilterInv
  <2> QED
    BY <2>1, <2>2
<1>3. ASSUME FilterInv, [FilterNext]_filterVars
      PROVE  [/\ good' # good /\ MustJobLinkURL => MustJobLinkURL'
              /\ good' = good /\ MustJobLinkURL' => MustJobLinkURL]_filterVars
  <2>1. CASE ReadBad \/ ReadOther
    BY <1>2, <1>3, <2>1 DEF ReadBad, ReadOther
  <2>2. ASSUME NEW w \in GoodWords, ReadGood(w)
        PROVE  good' # good /\ (MustJobLinkURL => MustJobLinkURL')
    BY <1>1, <1>3, <2>2
  <2> QED
    BY <1>3, <2>1, <2>2 DEF FilterNext
<1> QED
  BY <1>3, InitFilterInv, FilterInvStep, PTL DEF FilterSpec, WordsCountTheRightWay

-----------------------------------------------------------------------------
(* The feed monitor.  To know that it only issues statements of the        *)
(* repository, one has to know that a round never leaves the list of       *)
(* feeds.                                                                  *)

WithinTheFeeds ==
  /\ DOMAIN poll = Pollers
  /\ \A p \in Pollers :
       /\ DOMAIN poll[p] = {"pc", "feed", "found", "left", "upserted", "cached"}
       /\ poll[p].feed \in 1 .. Len(Feeds)

FeedInv ==
  /\ StoreInv
  /\ WithinTheFeeds
  /\ stop = "returned" => \A p \in Pollers : poll[p].pc = "exited"

LEMMA ARoundStaysWithinTheFeeds ==
  ASSUME WithinTheFeeds, [FeedNext]_feedVars PROVE WithinTheFeeds'
<1> USE FeedAssumption DEF FeedAssumption, WithinTheFeeds, Pollers, At
<1>0. Len(Feeds) \in Nat \ {0}
  OBVIOUS
<1>1. CASE Start \/ Ticks \/ RunReturns
  BY <1>0, <1>1 DEF Start, Ticks, RunReturns
<1>2. CASE CallStop \/ StopReturns \/ OtherClients \/ UNCHANGED feedVars
  BY <1>2 DEF CallStop, StopReturns, OtherClients, monitorVars, feedVars
<1>3. ASSUME NEW p \in Pollers, NEW ok, Report(p, ok) PROVE WithinTheFeeds'
  <2>1. ASSUME NEW pc, NEW i \in 1 .. Len(Feeds), poll' = [poll EXCEPT ![p] = At(pc, i)]
        PROVE  WithinTheFeeds'
    BY <2>1
  <2> HIDE DEF At
  <2>2. poll[p].feed \in 1 .. Len(Feeds)
    OBVIOUS
  <2>3. CASE poll[p].feed < Len(Feeds)
    <3>1. poll' = [poll EXCEPT ![p] = At("parse", poll[p].feed + 1)]
      BY <1>3, <2>3 DEF Report
    <3>2. poll[p].feed + 1 \in 1 .. Len(Feeds)
      BY <1>0, <2>2, <2>3
    <3> QED
      BY <2>1, <3>1, <3>2
  <2>4. CASE ~(poll[p].feed < Len(Feeds))
    <3>1. \/ poll' = [poll EXCEPT ![p] = At("exited", 1)]
          \/ poll' = [poll EXCEPT ![p] = At("wait", 1)]
      BY <1>3, <2>4 DEF Report
    <3>2. 1 \in 1 .. Len(Feeds)
      BY <1>0
    <3> QED
      BY <2>1, <3>1, <3>2
  <2> QED
    BY <2>3, <2>4
<1>4. ASSUME NEW p \in Pollers, ParseFeed(p) \/ GetCompany(p) \/ StoreItem(p) \/ SkipItem(p)
      PROVE  WithinTheFeeds'
  <2>1. CASE ParseFeed(p)
    BY <2>1 DEF ParseFeed
  <2>2. CASE GetCompany(p)
    BY <2>2 DEF GetCompany
  <2>3. CASE StoreItem(p)
    BY <2>3 DEF StoreItem
  <2>4. CASE SkipItem(p)
    BY <2>4 DEF SkipItem
  <2> QED
    BY <1>4, <2>1, <2>2, <2>3, <2>4
<1> QED
  BY <1>1, <1>2, <1>3, <1>4 DEF FeedNext, PollStep, ParseFeedFails, EndFeed

LEMMA MonitorStepIsAStatement ==
  ASSUME StoreTypeOK, WithinTheFeeds, [FeedNext]_feedVars
  PROVE  [StoreNext]_storeVars
<1>1. ASSUME NEW p \in Pollers, GetCompany(p) PROVE StoreNext
  <2>1. Feeds[poll[p].feed] \in Companies
    BY FeedAssumption DEF FeedAssumption, WithinTheFeeds
  <2> QED
    BY <1>1, <2>1 DEF GetCompany, StoreNext
<1>2. ASSUME NEW p \in Pollers, StoreItem(p) PROVE StoreNext
  BY <1>2 DEF StoreItem, StoreNext
<1>3. ASSUME OtherClients PROVE StoreNext
  <2>1. rows \subseteq Jobs
    BY DEF StoreTypeOK
  <2>2. PICK j \in rows : ApplyJobs({j}) \/ BanJobs({j}) \/ DeleteJobs({j})
    BY <1>3 DEF OtherClients
  <2>3. {j} \in SUBSET Jobs
    BY <2>1
  <2> QED
    BY <2>2, <2>3 DEF StoreNext
<1>4. CASE \/ Start \/ Ticks \/ RunReturns \/ CallStop \/ StopReturns
           \/ UNCHANGED feedVars
  BY <1>4 DEF Start, Ticks, RunReturns, CallStop, StopReturns, feedVars, storeVars
<1>5. ASSUME NEW p \in Pollers,
             ParseFeed(p) \/ ParseFeedFails(p) \/ SkipItem(p) \/ EndFeed(p)
      PROVE  UNCHANGED storeVars
  BY <1>5 DEF ParseFeed, ParseFeedFails, SkipItem, EndFeed, storeVars
<1> QED
  BY <1>1, <1>2, <1>3, <1>4, <1>5 DEF FeedNext, PollStep

LEMMA AfterStopNobodyPolls ==
  ASSUME [FeedNext]_feedVars,
         stop = "returned" => \A p \in Pollers : poll[p].pc = "exited"
  PROVE  /\ stop' = "returned" => \A p \in Pollers : poll'[p].pc = "exited"
         /\ stop = "returned" => UNCHANGED <<poll, updates, rounds>>
<1>1. CASE Start \/ Ticks \/ RunReturns \/ CallStop \/ StopReturns
  BY <1>1 DEF Pollers, Start, Ticks, RunReturns, CallStop, StopReturns
<1>2. ASSUME NEW p \in Pollers, PollStep(p)
      PROVE  stop # "returned" /\ stop' = stop
  BY <1>2 DEF PollStep, ParseFeed, ParseFeedFails, GetCompany, StoreItem,
     SkipItem, EndFeed, Report
<1>3. CASE OtherClients \/ UNCHANGED feedVars
  BY <1>3 DEF OtherClients, monitorVars, feedVars
<1> QED
  BY <1>1, <1>2, <1>3 DEF FeedNext

LEMMA FeedInvAlways == FeedSpec => []FeedInv
<1>1. FeedInit => FeedInv
  <2> SUFFICES ASSUME FeedInit PROVE FeedInv
    OBVIOUS
  <2>1. StoreInv
    BY StoreInitInv DEF FeedInit
  <2>2. Len(Feeds) \in Nat \ {0}
    BY FeedAssumption DEF FeedAssumption
  <2> QED
    BY <2>1, <2>2 DEF FeedInit, FeedInv, WithinTheFeeds, At
<1>2. FeedInv /\ [FeedNext]_feedVars => FeedInv'
  BY ARoundStaysWithinTheFeeds, MonitorStepIsAStatement, AfterStopNobodyPolls,
     StoreStepInv DEF FeedInv, StoreInv
<1> QED
  BY <1>1, <1>2, PTL DEF FeedSpec

(* The monitor is a client of the store like any other: what is proved of  *)
(* the store under every order of its statements holds while it polls,     *)
(* too (monitor.go:146).                                                   *)
THEOREM MonitorUsesTheStore == FeedSpec => StoreSpec
<1>1. FeedInit => StoreInit
  BY DEF FeedInit
<1>2. FeedInv /\ [FeedNext]_feedVars => [StoreNext]_storeVars
  BY MonitorStepIsAStatement DEF FeedInv, StoreInv
<1> QED
  BY <1>1, <1>2, FeedInvAlways, PTL DEF FeedSpec, StoreSpec

(* When Stop has returned no goroutine of the monitor is left, with any    *)
(* number of feeds and items (monitor.go:98).                              *)
THEOREM StoppedMonitorIsSilent == FeedSpec => StopIsFinal
<1>1. FeedInv /\ [FeedNext]_feedVars
        => [stop = "returned" => UNCHANGED <<poll, updates, rounds>>]_feedVars
  BY AfterStopNobodyPolls DEF FeedInv
<1> QED
  BY <1>1, FeedInvAlways, PTL DEF FeedSpec, StopIsFinal
=============================================================================
