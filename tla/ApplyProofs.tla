----------------------------- MODULE ApplyProofs -----------------------------
(***************************************************************************)
(* Proofs about module Apply, for every set of jobs, requests, companies   *)
(* and aggregators and any number of crashes: its types, one run at a time,*)
(* true marks, justified exits from the queue, counters that follow the    *)
(* run; that the tables, seen from here, behave as JobStore says; and that *)
(* a run is never held up by the program and has boundedly many steps.     *)
(***************************************************************************)
EXTENDS Apply, JobStoreProofs, FiniteSetTheorems

(* The locals of a request and of the worker that must be empty or set in  *)
(* each phase.  TypeOK is inductive only with it: a goroutine adds its     *)
(* current job to sets of jobs.                                            *)
RequestShape ==
  \A r \in Requests :
    /\ req[r].pc \in {"submit", "result"} => req[r].cur \in Jobs
    /\ req[r].result = "ok" => req[r].pc = "result"
    /\ req[r].ok # {} => req[r].pc \in {"next", "submit", "result", "publish", "mark"}

WorkerShape ==
  worker.pc \in {"submit", "dequeue", "mark", "postpone"} => worker.cur \in Jobs

Shape == RequestShape /\ WorkerShape

TypeInv == TypeOK /\ Shape

LEMMA TypeInit == Init => TypeInv
  <1> SUFFICES ASSUME Init PROVE TypeInv
    OBVIOUS
  <1>1. StoreTypeOK
    BY DEF Init, StoreInit, StoreTypeOK, QueueState
  <1>2. ZeroStatus \in Tally
    BY DEF ZeroStatus, Tally
  <1>3. NewRequest \in RequestType
    BY <1>2 DEF NewRequest, RequestType, ReqPc, Routes
  <1>4. NewWorker \in WorkerType
    BY DEF NewWorker, WorkerType
  <1>5. crashes \in 0..MaxCrashes
    BY ApplyAssumption DEF ApplyAssumption, Init
  <1>6. req \in [Requests -> RequestType]
    BY <1>3 DEF Init
  <1>7. TypeOK
    BY <1>1, <1>2, <1>4, <1>5, <1>6 DEF Init, TypeOK
  <1>8. Shape
    BY DEF Init, Shape, RequestShape, WorkerShape, NewRequest, NewWorker
  <1>9. QED
    BY <1>7, <1>8 DEF TypeInv

(* The statements keep the types of the store.                             *)
LEMMA StoreTypes ==
  ASSUME StoreTypeOK
  PROVE  /\ \A c \in Companies : UpsertCompanyByName(c) => StoreTypeOK'
         /\ \A j \in Jobs : UpsertJob(j) => StoreTypeOK'
         /\ \A ids \in SUBSET Jobs :
              ApplyJobs(ids) \/ BanJobs(ids) \/ DeleteJobs(ids) => StoreTypeOK'
         /\ \A j \in Jobs :
              EnqueueRateLimited(j) \/ DequeueRateLimited(j)
              \/ UpdateRateLimitedRetry(j) \/ RetryTimeComes(j) => StoreTypeOK'
         /\ UNCHANGED storeVars => StoreTypeOK'
  <1> USE DEF StoreTypeOK, QueueState
  <1>1. ASSUME NEW c \in Companies, UpsertCompanyByName(c) PROVE StoreTypeOK'
    BY <1>1 DEF UpsertCompanyByName
  <1>2. ASSUME NEW j \in Jobs, UpsertJob(j) PROVE StoreTypeOK'
    BY <1>2 DEF UpsertJob
  <1>3. ASSUME NEW ids \in SUBSET Jobs, ApplyJobs(ids) PROVE StoreTypeOK'
    BY <1>3 DEF ApplyJobs
  <1>4. ASSUME NEW ids \in SUBSET Jobs, BanJobs(ids) PROVE StoreTypeOK'
    BY <1>4 DEF BanJobs
  <1>5. ASSUME NEW ids \in SUBSET Jobs, DeleteJobs(ids) PROVE StoreTypeOK'
    BY <1>5 DEF DeleteJobs
  <1>6. ASSUME NEW j \in Jobs, EnqueueRateLimited(j) PROVE StoreTypeOK'
    BY <1>6 DEF EnqueueRateLimited
  <1>7. ASSUME NEW j \in Jobs, DequeueRateLimited(j) PROVE StoreTypeOK'
    BY <1>7 DEF DequeueRateLimited
  <1>8. ASSUME NEW j \in Jobs, UpdateRateLimitedRetry(j) PROVE StoreTypeOK'
    BY <1>8 DEF UpdateRateLimitedRetry
  <1>9. ASSUME NEW j \in Jobs, RetryTimeComes(j) PROVE StoreTypeOK'
    BY <1>9 DEF RetryTimeComes
  <1>10. ASSUME UNCHANGED storeVars PROVE StoreTypeOK'
    BY <1>10 DEF storeVars
  <1> HIDE DEF StoreTypeOK
  <1>11. QED
    BY <1>1, <1>2, <1>3, <1>4, <1>5, <1>6, <1>7, <1>8, <1>9, <1>10

(* The number of listed jobs is a number.                                  *)
LEMMA ListedJobsAreCounted == \A S \in SUBSET Jobs : Cardinality(S) \in Nat
  BY ApplyAssumption, FS_Subset, FS_CardinalityType DEF ApplyAssumption

LEMMA HandlerTypes ==
  ASSUME TypeInv, NEW r \in Requests, Handler(r) PROVE TypeInv'
  <1> USE DEF TypeInv, TypeOK, Shape, RequestShape, WorkerShape, history, Holding, Detached
  <1>1. CASE Reject(r)
    BY <1>1 DEF Reject, Gone, NewRequest, RequestType, ReqPc, Routes, Tally, ZeroStatus, StoreTypeOK, storeVars
  <1>2. ASSUME NEW ids \in SUBSET Jobs, Claim(r, ids) PROVE TypeInv'
    <2>1. req[r] \in RequestType
      OBVIOUS
    <2>2. [req[r] EXCEPT !.pc = "claimed", !.todo = ids] \in RequestType
      BY <2>1 DEF RequestType, ReqPc
    <2>3. req' \in [Requests -> RequestType]
      BY <1>2, <2>2 DEF Claim
    <2>4. Shape'
      BY <1>2 DEF Claim, RequestType
    <2>5. QED
      BY <1>2, <2>3, <2>4 DEF Claim, StoreTypeOK, storeVars
  <1>3. CASE ListJobs(r)
    <2> DEFINE found == req[r].todo \intersect rows
    <2>1. req[r] \in RequestType
      OBVIOUS
    <2>2. found \in SUBSET Jobs /\ Cardinality(found) \in Nat
      BY <2>1, ListedJobsAreCounted DEF RequestType
    <2>3. \A n \in Nat, S \in SUBSET Jobs :
            [req[r] EXCEPT !.pc = "listed", !.todo = S, !.tally.total = n] \in RequestType
      BY <2>1 DEF RequestType, ReqPc, Tally
    <2>4. req' \in [Requests -> RequestType]
      BY <1>3, <2>2, <2>3 DEF ListJobs, ListJobsByIDs
    <2>5. Shape'
      BY <1>3 DEF ListJobs, ListJobsByIDs, RequestType
    <2>6. QED
      BY <1>3, <2>4, <2>5 DEF ListJobs, ListJobsByIDs, StoreTypeOK, storeVars
  <1>4. CASE ListJobsReturns(r)
    BY <1>4 DEF ListJobsReturns, GiveUp, Gone, NewRequest, RequestType, ReqPc, Routes, Tally, ZeroStatus, StoreTypeOK, storeVars
  <1>5. CASE ListCompanies(r)
    BY <1>5 DEF ListCompanies, RequestType, ReqPc, StoreTypeOK, storeVars
  <1>6. CASE ListCompaniesFails(r)
    BY <1>6 DEF ListCompaniesFails, GiveUp, Gone, NewRequest, RequestType, ReqPc, Routes, Tally, ZeroStatus, StoreTypeOK, storeVars
  <1>7. QED
    BY <1>1, <1>2, <1>3, <1>4, <1>5, <1>6 DEF Handler

(* The store statements a run and the worker issue keep the store's types. *)
LEMMA AggregatorUpsertTypes ==
  ASSUME StoreTypeOK, MayUpsertAggregator PROVE StoreTypeOK'
  BY StoreTypes, ApplyAssumption DEF ApplyAssumption, MayUpsertAggregator, StoreTypeOK, storeVars, UpsertCompanyByName

LEMMA RunTypes ==
  ASSUME TypeInv, NEW r \in Requests, Run(r) PROVE TypeInv'
  <1> USE DEF TypeInv, TypeOK, Shape, RequestShape, WorkerShape, history, Holding, Detached
  <1> DEFINE q == req[r]
  <1>0. q \in RequestType
    OBVIOUS
  <1>1. CASE Start(r)
    BY <1>1 DEF Start, RequestType, ReqPc, StoreTypeOK, storeVars
  <1>2. CASE ResetStatus(r)
    <2>1. applyStatus' \in Tally
      BY <1>0, <1>2 DEF ResetStatus, RequestType, Tally, ZeroStatus
    <2>2. QED
      BY <1>2, <2>1 DEF ResetStatus, RequestType, ReqPc, StoreTypeOK, storeVars
  <1>3. ASSUME NEW j \in Jobs, NEW route \in Routes, Resolve(r, j, route) PROVE TypeInv'
    <2>1. [q EXCEPT !.pc = "submit", !.todo = q.todo \ {j}, !.cur = j, !.route = route] \in RequestType
      BY <1>0 DEF RequestType, ReqPc
    <2>2. req' \in [Requests -> RequestType]
      BY <1>3, <2>1 DEF Resolve
    <2>3. Shape'
      BY <1>0, <1>3 DEF Resolve, RequestType
    <2>4. StoreTypeOK'
      BY <1>3, AggregatorUpsertTypes DEF Resolve
    <2>5. QED
      BY <1>3, <2>2, <2>3, <2>4 DEF Resolve
  <1>4. CASE Submit(r)
    <2>1. PICK answer \in Answers(q.route) :
            /\ req' = [req EXCEPT ![r] = [@ EXCEPT !.pc = "result", !.result = answer]]
            /\ confirmed' = IF answer = "ok" THEN confirmed \union {q.cur} ELSE confirmed
      BY <1>4 DEF Submit
    <2>2. answer \in {"ok", "429", "fail"}
      BY DEF Answers
    <2>3. [q EXCEPT !.pc = "result", !.result = answer] \in RequestType
      BY <1>0, <2>2 DEF RequestType, ReqPc
    <2>4. req' \in [Requests -> RequestType]
      BY <2>1, <2>3
    <2>5. confirmed' \subseteq Jobs
      BY <1>4, <2>1 DEF Submit
    <2>6. Shape'
      BY <1>0, <1>4, <2>1 DEF Submit, RequestType
    <2>7. QED
      BY <1>4, <2>4, <2>5, <2>6 DEF Submit, StoreTypeOK, storeVars
  <1>5. ASSUME NEW t \in Tally, NEW ok \in SUBSET Jobs, q.pc = "result",
               req' = [req EXCEPT ![r] = Counted(q, t, ok)]
        PROVE  req' \in [Requests -> RequestType] /\ RequestShape'
    <2>1. Counted(q, t, ok) \in RequestType
      BY <1>0 DEF Counted, RequestType, ReqPc, Routes
    <2>2. req' \in [Requests -> RequestType]
      BY <1>5, <2>1
    <2>3. RequestShape'
      BY <1>0, <1>5 DEF Counted, RequestType
    <2>4. QED
      BY <2>2, <2>3
  <1>a. /\ q.tally \in Tally /\ [q.tally EXCEPT !.sent = @ + 1] \in Tally
        /\ [q.tally EXCEPT !.failed = @ + 1] \in Tally
        /\ [q.tally EXCEPT !.waiting = @ + 1] \in Tally
        /\ q.ok \in SUBSET Jobs
    BY <1>0 DEF RequestType, Tally
  <1>6. CASE CountSent(r)
    <2>1. q.ok \union {q.cur} \in SUBSET Jobs
      BY <1>a, <1>6 DEF CountSent
    <2>2. req' \in [Requests -> RequestType] /\ RequestShape'
      BY <1>5, <1>a, <1>6, <2>1 DEF CountSent
    <2>3. QED
      BY <1>6, <2>2 DEF CountSent, StoreTypeOK, storeVars
  <1>7. CASE CountFailed(r)
    <2>1. req' \in [Requests -> RequestType] /\ RequestShape'
      BY <1>5, <1>a, <1>7 DEF CountFailed
    <2>2. QED
      BY <1>7, <2>1 DEF CountFailed, StoreTypeOK, storeVars
  <1>8. CASE CountWaiting(r)
    <2>1. StoreTypeOK'
      BY <1>8, StoreTypes DEF CountWaiting
    <2>2. req' \in [Requests -> RequestType] /\ RequestShape'
      BY <1>5, <1>a, <1>8 DEF CountWaiting
    <2>3. QED
      BY <1>8, <2>1, <2>2 DEF CountWaiting
  <1>9. CASE EnqueueFails(r)
    <2>1. req' \in [Requests -> RequestType] /\ RequestShape'
      BY <1>5, <1>a, <1>9 DEF EnqueueFails
    <2>2. QED
      BY <1>9, <2>1 DEF EnqueueFails, StoreTypeOK, storeVars
  <1>10. CASE PublishProgress(r)
    <2>1. applyStatus' \in Tally
      BY <1>0, <1>10 DEF PublishProgress, RequestType, Tally
    <2>2. QED
      BY <1>0, <1>10, <2>1 DEF PublishProgress, RequestType, ReqPc, StoreTypeOK, storeVars
  <1>11. CASE MarkApplied(r)
    <2>1. StoreTypeOK'
      BY <1>0, <1>11, StoreTypes DEF MarkApplied, RequestType
    <2>2. [q EXCEPT !.pc = "release", !.ok = {}] \in RequestType
      BY <1>0 DEF RequestType, ReqPc
    <2>3. req' \in [Requests -> RequestType]
      BY <1>11, <2>2 DEF MarkApplied
    <2>4. Shape'
      BY <1>0, <1>11 DEF MarkApplied, RequestType
    <2>5. QED
      BY <1>11, <2>1, <2>3, <2>4 DEF MarkApplied
  <1>12. CASE MarkAppliedFails(r)
    <2>1. [q EXCEPT !.pc = "release", !.ok = {}] \in RequestType
      BY <1>0 DEF RequestType, ReqPc
    <2>2. req' \in [Requests -> RequestType]
      BY <1>12, <2>1 DEF MarkAppliedFails
    <2>3. Shape'
      BY <1>0, <1>12 DEF MarkAppliedFails, RequestType
    <2>4. unrecorded' \subseteq Jobs
      BY <1>0, <1>12 DEF MarkAppliedFails, RequestType
    <2>5. QED
      BY <1>12, <2>2, <2>3, <2>4 DEF MarkAppliedFails, StoreTypeOK, storeVars
  <1>13. CASE Release(r)
    BY <1>13 DEF Release, GiveUp, Gone, NewRequest, RequestType, ReqPc, Routes, Tally, ZeroStatus, StoreTypeOK, storeVars
  <1>14. QED
    BY <1>1, <1>2, <1>3, <1>4, <1>6, <1>7, <1>8, <1>9, <1>10, <1>11, <1>12, <1>13 DEF Run

LEMMA WorkerTypes ==
  ASSUME TypeInv, Tick \/ WorkerPass PROVE TypeInv'
  <1> USE DEF TypeInv, TypeOK, Shape, RequestShape, WorkerShape, history, WorkerType
  <1>1. CASE Tick
    BY <1>1 DEF Tick, ReadyEntries, StoreTypeOK, storeVars
  <1>2. CASE WorkerListCompanies
    BY <1>2 DEF WorkerListCompanies, StoreTypeOK, storeVars
  <1>3. CASE WorkerListJobs
    BY <1>3 DEF WorkerListJobs, ListJobsByIDs, StoreTypeOK, storeVars
  <1>4. CASE EndPass
    BY <1>4 DEF EndPass, NewWorker, StoreTypeOK, storeVars
  <1>5. ASSUME NEW j \in Jobs, WorkerDrop(j) PROVE TypeInv'
    <2>1. StoreTypeOK'
      BY <1>5, StoreTypes DEF WorkerDrop
    <2>2. QED
      BY <1>5, <2>1 DEF WorkerDrop
  <1>6. ASSUME NEW j \in Jobs, WorkerDropFails(j) PROVE TypeInv'
    BY <1>6 DEF WorkerDropFails, StoreTypeOK, storeVars
  <1>7. ASSUME NEW j \in Jobs, WorkerResolve(j) PROVE TypeInv'
    <2>1. StoreTypeOK'
      BY <1>7, AggregatorUpsertTypes DEF WorkerResolve
    <2>2. QED
      BY <1>7, <2>1 DEF WorkerResolve
  <1>8. ASSUME NEW j \in Jobs, WorkerHasNoSource(j) PROVE TypeInv'
    <2>1. StoreTypeOK'
      BY <1>8, AggregatorUpsertTypes DEF WorkerHasNoSource
    <2>2. QED
      BY <1>8, <2>1 DEF WorkerHasNoSource
  <1>9. CASE WorkerSubmit
    <2>1. worker' \in WorkerType /\ WorkerShape'
      BY <1>9 DEF WorkerSubmit, WorkerNext
    <2>2. confirmed' \subseteq Jobs
      BY <1>9 DEF WorkerSubmit
    <2>3. QED
      BY <1>9, <2>1, <2>2 DEF WorkerSubmit, StoreTypeOK, storeVars
  <1>10. CASE WorkerDequeue
    <2>1. StoreTypeOK'
      BY <1>10, StoreTypes DEF WorkerDequeue
    <2>2. QED
      BY <1>10, <2>1 DEF WorkerDequeue
  <1>11. CASE WorkerMark
    <2>1. StoreTypeOK'
      BY <1>11, StoreTypes DEF WorkerMark
    <2>2. QED
      BY <1>11, <2>1 DEF WorkerMark, WorkerNext
  <1>12. CASE WorkerMarkFails
    BY <1>12 DEF WorkerMarkFails, WorkerNext, StoreTypeOK, storeVars
  <1>13. CASE WorkerPostpone
    <2>1. StoreTypeOK'
      BY <1>13, StoreTypes DEF WorkerPostpone
    <2>2. QED
      BY <1>13, <2>1 DEF WorkerPostpone, WorkerNext
  <1>14. QED
    BY <1>1, <1>2, <1>3, <1>4, <1>5, <1>6, <1>7, <1>8, <1>9, <1>10, <1>11, <1>12, <1>13
    DEF WorkerPass

LEMMA PendingJobs == TypeInv => Pending \subseteq Jobs
  BY DEF TypeInv, TypeOK, Shape, RequestShape, WorkerShape, Pending, PendingRun, PendingWorker, RequestType, WorkerType

LEMMA WorldTypes ==
  ASSUME TypeInv, World PROVE TypeInv'
  <1> USE DEF TypeInv, TypeOK, Shape, RequestShape, WorkerShape, history, procVars
  <1>1. CASE Discover
    <2>1. StoreTypeOK'
      BY <1>1, StoreTypes DEF Discover
    <2>2. QED
      BY <1>1, <2>1 DEF Discover
  <1>2. ASSUME NEW ids \in SUBSET Jobs, Delete(ids) \/ Ban(ids) PROVE TypeInv'
    <2>1. StoreTypeOK'
      BY <1>2, StoreTypes DEF Delete, Ban
    <2>2. QED
      BY <1>2, <2>1 DEF Delete, Ban
  <1>3. ASSUME NEW j \in Jobs, BackoffEnds(j) PROVE TypeInv'
    <2>1. StoreTypeOK'
      BY <1>3, StoreTypes DEF BackoffEnds
    <2>2. QED
      BY <1>3, <2>1 DEF BackoffEnds
  <1>4. CASE Crash
    <2>1. Gone \in RequestType
      BY DEF Gone, NewRequest, RequestType, ReqPc, Routes, Tally, ZeroStatus
    <2>2. req' \in [Requests -> RequestType]
      BY <1>4, <2>1 DEF Crash
    <2>3. Shape'
      BY <1>4 DEF Crash, NewWorker, Gone, NewRequest
    <2>4. unrecorded' \subseteq Jobs
      BY <1>4, PendingJobs DEF Crash
    <2>5. worker' \in WorkerType /\ applyStatus' \in Tally /\ applyRunning' \in BOOLEAN
      BY <1>4 DEF Crash, NewWorker, WorkerType, Tally, ZeroStatus
    <2>6. crashes' \in 0..MaxCrashes
      BY <1>4, ApplyAssumption DEF Crash, ApplyAssumption
    <2>7. StoreTypeOK' /\ confirmed' \subseteq Jobs
      BY <1>4, StoreTypes DEF Crash
    <2>8. QED
      BY <2>2, <2>3, <2>4, <2>5, <2>6, <2>7
  <1>5. QED
    BY <1>1, <1>2, <1>3, <1>4 DEF World

LEMMA TypeStep == TypeInv /\ [Next]_vars => TypeInv'
  <1> SUFFICES ASSUME TypeInv, [Next]_vars PROVE TypeInv'
    OBVIOUS
  <1>1. CASE UNCHANGED vars
    BY <1>1, StoreTypes DEF vars, procVars, history, TypeInv, TypeOK, Shape, RequestShape, WorkerShape
  <1>2. QED
    BY <1>1, HandlerTypes, RunTypes, WorkerTypes, WorldTypes DEF Next

LEMMA TypeAlways == Spec => []TypeInv
  BY TypeInit, TypeStep, PTL DEF Spec

(* Every variable keeps its type, for every value of the constants.        *)
THEOREM TypeCorrect == Spec => []TypeOK
  <1>1. TypeInv => TypeOK
    BY DEF TypeInv
  <1>2. QED
    BY <1>1, TypeAlways, PTL
-----------------------------------------------------------------------------
(* The store beneath.  Whatever request, run, worker, user or crash takes  *)
(* a step, it is one of the store's statements or none; the jobs that a    *)
(* goroutine has in hand are jobs (Shape).                                 *)

LEMMA ApplyIssuesStatements ==
  ASSUME TypeInv, [Next]_vars PROVE [StoreNext]_storeVars
<1> USE DEF StoreNext
<1>1. MayUpsertAggregator => [StoreNext]_storeVars
  BY ApplyAssumption DEF MayUpsertAggregator, ApplyAssumption
<1>2. ASSUME NEW r \in Requests, Handler(r) PROVE [StoreNext]_storeVars
  BY <1>2 DEF Handler, Reject, Claim, ListJobs, ListJobsReturns, ListCompanies,
     ListCompaniesFails
<1>3. ASSUME NEW r \in Requests, Run(r) PROVE [StoreNext]_storeVars
  <2>1. CASE CountWaiting(r)
    BY <2>1 DEF CountWaiting, TypeInv, Shape, RequestShape
  <2>2. CASE MarkApplied(r)
    <3>1. req[r].ok \in SUBSET Jobs
      BY DEF TypeInv, TypeOK, RequestType
    <3>2. QED
      BY <2>2, <3>1 DEF MarkApplied
  <2>3. CASE ~CountWaiting(r) /\ ~MarkApplied(r)
    <3> HIDE DEF StoreNext
    <3>1. QED
      BY <1>1, <1>3, <2>3 DEF Run, Start, ResetStatus, Resolve, Submit, CountSent,
         CountFailed, EnqueueFails, PublishProgress, MarkAppliedFails, Release
  <2>4. QED
    BY <2>1, <2>2, <2>3
<1>4. CASE Tick \/ WorkerPass
  <2>1. ASSUME NEW j \in Jobs, WorkerDrop(j) PROVE [StoreNext]_storeVars
    BY <2>1 DEF WorkerDrop
  <2>2. CASE WorkerDequeue
    BY <2>2 DEF WorkerDequeue, TypeInv, Shape, WorkerShape
  <2>3. CASE WorkerMark
    <3>1. {worker.cur} \in SUBSET Jobs
      BY <2>3 DEF WorkerMark, TypeInv, Shape, WorkerShape
    <3>2. QED
      BY <2>3, <3>1 DEF WorkerMark
  <2>4. CASE WorkerPostpone
    BY <2>4 DEF WorkerPostpone, TypeInv, Shape, WorkerShape
  <2>5. ASSUME NEW j \in Jobs, WorkerResolve(j) \/ WorkerHasNoSource(j)
        PROVE  [StoreNext]_storeVars
    <3> HIDE DEF StoreNext
    <3>1. QED
      BY <1>1, <2>5 DEF WorkerResolve, WorkerHasNoSource
  <2>6. CASE \/ Tick \/ WorkerListCompanies \/ WorkerListJobs \/ EndPass
             \/ WorkerSubmit \/ WorkerMarkFails
             \/ \E j \in Jobs : WorkerDropFails(j)
    <3> HIDE DEF StoreNext
    <3>1. QED
      BY <2>6 DEF Tick, WorkerListCompanies, WorkerListJobs, EndPass, WorkerSubmit,
         WorkerMarkFails, WorkerDropFails
  <2>7. QED
    BY <1>4, <2>1, <2>2, <2>3, <2>4, <2>5, <2>6 DEF WorkerPass
<1>5. CASE World
  BY <1>5 DEF World, Discover, Delete, Ban, BackoffEnds, Crash
<1>6. CASE UNCHANGED vars
  BY <1>6 DEF vars
<1>7. QED
  BY <1>2, <1>3, <1>4, <1>5, <1>6 DEF Next

(* Applying is one more client of the store, through crashes and restarts  *)
(* too.                                                                    *)
THEOREM ApplyUsesTheStore == Spec => StoreSpec
<1>1. Init => StoreInit
  BY DEF Init
<1>2. TypeInv /\ [Next]_vars => [StoreNext]_storeVars
  BY ApplyIssuesStatements
<1>3. QED
  BY <1>1, <1>2, TypeAlways, PTL DEF Spec, StoreSpec

(* So while requests, the worker, the user and crashes interleave, the     *)
(* tables stay whole, no decision is forgotten and no id comes back.       *)
COROLLARY ApplyKeepsTheTables ==
  Spec => []Integrity /\ DecisionsSurvive /\ IdsAreNeverReused
  BY ApplyUsesTheStore, TablesKeepTheirIntegrity, DecisionsAreKept,
     DeletedIdsStayDeleted

-----------------------------------------------------------------------------
(* Mutual exclusion.  SingleRun is inductive relative to TypeInv: a step   *)
(* of a request either takes the flag when nobody holds it, or keeps it    *)
(* and stays among the holding phases, or gives it up and leaves them.     *)

LEMMA SingleRunInit == Init => SingleRun
  BY DEF Init, SingleRun, Active, NewRequest, Holding, Detached

(* What a step of request r does to the flag and to who is Active.         *)
Takes(r) == ~applyRunning /\ applyRunning' /\ Active(r)'
Keeps(r) == (Active(r)' <=> Active(r)) /\ (applyRunning' <=> applyRunning)
Resumes(r) == Active(r) /\ Active(r)' /\ applyRunning'
Leaves(r) == Active(r) /\ ~Active(r)' /\ ~applyRunning'

OthersKeep(r) == \A s \in Requests \ {r} : Active(s)' <=> Active(s)

LEMMA FlagProtocol ==
  ASSUME TypeInv, NEW r \in Requests, Handler(r) \/ Run(r)
  PROVE  /\ OthersKeep(r)
         /\ Takes(r) \/ Keeps(r) \/ Resumes(r) \/ Leaves(r)
  <1> USE DEF TypeInv, TypeOK, OthersKeep, Active, Holding, Detached, Takes, Keeps, Resumes, Leaves, RequestType
  <1>1. CASE Reject(r)
    BY <1>1 DEF Reject, Gone, NewRequest
  <1>2. ASSUME NEW ids \in SUBSET Jobs, Claim(r, ids)
        PROVE  OthersKeep(r) /\ Takes(r)
    BY <1>2 DEF Claim
  <1>3. CASE ListJobs(r)
    BY <1>3 DEF ListJobs, ListJobsByIDs
  <1>4. CASE ListJobsReturns(r)
    BY <1>4 DEF ListJobsReturns, GiveUp, Gone, NewRequest
  <1>5. CASE ListCompanies(r)
    BY <1>5 DEF ListCompanies
  <1>6. CASE ListCompaniesFails(r)
    BY <1>6 DEF ListCompaniesFails, GiveUp, Gone, NewRequest
  <1>7. CASE Start(r)
    BY <1>7 DEF Start
  <1>8. CASE ResetStatus(r)
    BY <1>8 DEF ResetStatus
  <1>9. ASSUME NEW j \in Jobs, NEW route \in Routes, Resolve(r, j, route)
        PROVE  OthersKeep(r) /\ Keeps(r)
    BY <1>9 DEF Resolve
  <1>10. CASE Submit(r)
    BY <1>10 DEF Submit
  <1>11. CASE CountSent(r)
    BY <1>11 DEF CountSent, Counted
  <1>12. CASE CountFailed(r)
    BY <1>12 DEF CountFailed, Counted
  <1>13. CASE CountWaiting(r)
    BY <1>13 DEF CountWaiting, Counted
  <1>14. CASE EnqueueFails(r)
    BY <1>14 DEF EnqueueFails, Counted
  <1>15. CASE PublishProgress(r)
    BY <1>15 DEF PublishProgress
  <1>16. CASE MarkApplied(r)
    BY <1>16 DEF MarkApplied
  <1>17. CASE MarkAppliedFails(r)
    BY <1>17 DEF MarkAppliedFails
  <1>18. CASE Release(r)
    BY <1>18 DEF Release, GiveUp, Gone, NewRequest
  <1>19. QED
    BY <1>1, <1>2, <1>3, <1>4, <1>5, <1>6, <1>7, <1>8, <1>9, <1>10, <1>11, <1>12,
       <1>13, <1>14, <1>15, <1>16, <1>17, <1>18
    DEF Handler, Run

LEMMA SingleRunStep == TypeInv /\ SingleRun /\ [Next]_vars => SingleRun'
  <1> SUFFICES ASSUME TypeInv, SingleRun, [Next]_vars PROVE SingleRun'
    OBVIOUS
  <1>1. ASSUME NEW r \in Requests, Handler(r) \/ Run(r) PROVE SingleRun'
    <2>1. OthersKeep(r) /\ (Takes(r) \/ Keeps(r) \/ Resumes(r) \/ Leaves(r))
      BY <1>1, FlagProtocol
    <2>2. QED
      BY <2>1 DEF SingleRun, OthersKeep, Takes, Keeps, Resumes, Leaves
  <1>2. CASE UNCHANGED <<applyRunning, req>>
    BY <1>2 DEF SingleRun, Active
  <1>3. CASE Crash
    BY <1>3 DEF Crash, SingleRun, Active, Gone, NewRequest, Holding, Detached
  <1>4. CASE Tick \/ WorkerPass
    BY <1>2, <1>4
    DEF Tick, WorkerPass, WorkerListCompanies, WorkerListJobs, EndPass, WorkerDrop, WorkerDropFails,
        WorkerResolve, WorkerHasNoSource, WorkerSubmit, WorkerDequeue, WorkerMark, WorkerMarkFails,
        WorkerPostpone
  <1>5. CASE World
    BY <1>2, <1>3, <1>5 DEF World, Discover, Delete, Ban, BackoffEnds, procVars
  <1>6. CASE UNCHANGED vars
    BY <1>2, <1>6 DEF vars, procVars
  <1>7. QED
    BY <1>1, <1>4, <1>5, <1>6 DEF Next

(* At most one apply run at a time, and applyRunning is set exactly while  *)
(* one is going on.                                                        *)
THEOREM MutualExclusion == Spec => []SingleRun
  BY TypeAlways, SingleRunInit, SingleRunStep, PTL DEF Spec
-----------------------------------------------------------------------------
(* Every job a goroutine works on has been stored at some time, so that no *)
(* new row can be a job that somebody has already sent.                    *)

Known ==
  /\ \A j \in Jobs : Queued(j) => j \in rows
  /\ \A r \in Requests :
       /\ req[r].pc \in {"listed", "spawned", "started", "next", "submit", "result", "publish"}
            => req[r].todo \subseteq minted
       /\ req[r].pc \in {"submit", "result"} => req[r].cur \in minted
  /\ worker.todo \subseteq minted
  /\ worker.pc \in {"submit", "dequeue", "mark", "postpone"} => worker.cur \in minted
  /\ confirmed \subseteq minted

LEMMA KnownInit == Init => Known
  BY DEF Init, StoreInit, Known, Queued, NewRequest, NewWorker

(* A queue entry is only made for a row, and leaves with it.               *)
LEMMA QueueKeepsToRows ==
  ASSUME StoreTypeOK, \A j \in Jobs : Queued(j) => j \in rows
  PROVE  LET Kept == minted \subseteq minted' /\ \A j \in Jobs : Queued(j)' => j \in rows' IN
         /\ \A c \in Companies : UpsertCompanyByName(c) => Kept
         /\ \A j \in Jobs : UpsertJob(j) => Kept
         /\ \A ids \in SUBSET Jobs :
              ApplyJobs(ids) \/ BanJobs(ids) \/ DeleteJobs(ids) => Kept
         /\ \A j \in Jobs :
              EnqueueRateLimited(j) \/ DequeueRateLimited(j)
              \/ UpdateRateLimitedRetry(j) \/ RetryTimeComes(j) => Kept
         /\ UNCHANGED storeVars => Kept
  BY DEF StoreTypeOK, QueueState, Queued, UpsertCompanyByName, UpsertJob, ApplyJobs, BanJobs,
         DeleteJobs, EnqueueRateLimited, DequeueRateLimited, UpdateRateLimitedRetry,
         RetryTimeComes, storeVars

LEMMA KnownHandler ==
  ASSUME TypeInv, Known, NEW r \in Requests, Handler(r) PROVE Known'
  <1> USE DEF TypeInv, TypeOK, StoreTypeOK, Known, Queued, storeVars, history, RequestType
  <1>1. CASE Reject(r)
    BY <1>1 DEF Reject, Gone, NewRequest
  <1>2. ASSUME NEW ids \in SUBSET Jobs, Claim(r, ids) PROVE Known'
    BY <1>2 DEF Claim
  <1>3. CASE ListJobs(r)
    BY <1>3 DEF ListJobs, ListJobsByIDs
  <1>4. CASE ListJobsReturns(r)
    BY <1>4 DEF ListJobsReturns, GiveUp, Gone, NewRequest
  <1>5. CASE ListCompanies(r)
    BY <1>5 DEF ListCompanies
  <1>6. CASE ListCompaniesFails(r)
    BY <1>6 DEF ListCompaniesFails, GiveUp, Gone, NewRequest
  <1>7. QED
    BY <1>1, <1>2, <1>3, <1>4, <1>5, <1>6 DEF Handler

LEMMA KnownRun ==
  ASSUME TypeInv, Known, NEW r \in Requests, Run(r) PROVE Known'
  <1> USE DEF TypeInv, TypeOK, StoreTypeOK, Known, Queued, storeVars, history, RequestType
  <1>1. CASE Start(r)
    BY <1>1 DEF Start
  <1>2. CASE ResetStatus(r)
    BY <1>2 DEF ResetStatus
  <1>3. ASSUME NEW j \in Jobs, NEW route \in Routes, Resolve(r, j, route) PROVE Known'
    BY <1>3 DEF Resolve, MayUpsertAggregator, UpsertCompanyByName
  <1>4. CASE Submit(r)
    BY <1>4 DEF Submit
  <1>5. CASE CountSent(r)
    BY <1>5 DEF CountSent, Counted
  <1>6. CASE CountFailed(r)
    BY <1>6 DEF CountFailed, Counted
  <1>7. CASE CountWaiting(r)
    BY <1>7 DEF CountWaiting, Counted, EnqueueRateLimited
  <1>8. CASE EnqueueFails(r)
    BY <1>8 DEF EnqueueFails, Counted
  <1>9. CASE PublishProgress(r)
    BY <1>9 DEF PublishProgress
  <1>10. CASE MarkApplied(r)
    BY <1>10 DEF MarkApplied, ApplyJobs
  <1>11. CASE MarkAppliedFails(r)
    BY <1>11 DEF MarkAppliedFails
  <1>12. CASE Release(r)
    BY <1>12 DEF Release, GiveUp, Gone, NewRequest
  <1>13. QED
    BY <1>1, <1>2, <1>3, <1>4, <1>5, <1>6, <1>7, <1>8, <1>9, <1>10, <1>11, <1>12 DEF Run

LEMMA KnownWorker ==
  ASSUME TypeInv, Known, Tick \/ WorkerPass PROVE Known'
  <1> USE DEF TypeInv, TypeOK, StoreTypeOK, Known, Queued, storeVars, history, WorkerType
  <1>1. CASE Tick
    BY <1>1 DEF Tick, ReadyEntries
  <1>2. CASE WorkerListCompanies
    BY <1>2 DEF WorkerListCompanies
  <1>3. CASE WorkerListJobs
    BY <1>3 DEF WorkerListJobs, ListJobsByIDs
  <1>4. CASE EndPass
    BY <1>4 DEF EndPass, NewWorker
  <1>5. ASSUME NEW j \in Jobs, WorkerDrop(j) \/ WorkerDropFails(j) PROVE Known'
    BY <1>5 DEF WorkerDrop, WorkerDropFails, DequeueRateLimited
  <1>6. ASSUME NEW j \in Jobs, WorkerResolve(j) \/ WorkerHasNoSource(j) PROVE Known'
    BY <1>6 DEF WorkerResolve, WorkerHasNoSource, MayUpsertAggregator, UpsertCompanyByName
  <1>7. CASE WorkerSubmit
    BY <1>7 DEF WorkerSubmit, WorkerNext
  <1>8. CASE WorkerDequeue
    BY <1>8 DEF WorkerDequeue, DequeueRateLimited
  <1>9. CASE WorkerMark
    BY <1>9 DEF WorkerMark, WorkerNext, ApplyJobs
  <1>10. CASE WorkerMarkFails
    BY <1>10 DEF WorkerMarkFails, WorkerNext
  <1>11. CASE WorkerPostpone
    BY <1>11 DEF WorkerPostpone, WorkerNext, UpdateRateLimitedRetry, QueueState
  <1>12. QED
    BY <1>1, <1>2, <1>3, <1>4, <1>5, <1>6, <1>7, <1>8, <1>9, <1>10, <1>11 DEF WorkerPass

LEMMA KnownStep == TypeInv /\ Known /\ [Next]_vars => Known'
  <1> SUFFICES ASSUME TypeInv, Known, [Next]_vars PROVE Known'
    OBVIOUS
  <1>1. CASE World
    <2>1. CASE Discover
      BY <1>1, <2>1, QueueKeepsToRows DEF Discover, TypeInv, TypeOK, Known, procVars, history
    <2>2. ASSUME NEW ids \in SUBSET Jobs, Delete(ids) \/ Ban(ids) PROVE Known'
      BY <2>2, QueueKeepsToRows DEF Delete, Ban, TypeInv, TypeOK, Known, procVars, history
    <2>3. ASSUME NEW j \in Jobs, BackoffEnds(j) PROVE Known'
      BY <2>3, QueueKeepsToRows DEF BackoffEnds, TypeInv, TypeOK, Known, procVars, history
    <2>4. CASE Crash
      BY <2>4 DEF Crash, Known, Queued, storeVars, Gone, NewRequest, NewWorker, Active, Holding, Detached
    <2>5. QED
      BY <1>1, <2>1, <2>2, <2>3, <2>4 DEF World
  <1>2. CASE UNCHANGED vars
    BY <1>2 DEF vars, storeVars, procVars, history, Known, Queued
  <1>3. QED
    BY <1>1, <1>2, KnownHandler, KnownRun, KnownWorker DEF Next
-----------------------------------------------------------------------------
(* The applied column and what the senders were told.  p and pp are what   *)
(* one sender has pending before and after its step; the step is silent,   *)
(* an acceptance, a mark, or the loss of what it should have marked.       *)

Silent(p, pp) ==
  pp = p /\ UNCHANGED <<rows, applied, confirmed, unrecorded>>
Accepts(p, pp) ==
  /\ \E j \in minted : pp = p \union {j} /\ confirmed' = confirmed \union {j}
  /\ UNCHANGED <<rows, applied, unrecorded>>
Marks(p, pp) ==
  /\ pp = {} /\ applied' = applied \union (p \intersect rows)
  /\ UNCHANGED <<rows, confirmed, unrecorded>>
Loses(p, pp) ==
  /\ pp = {} /\ unrecorded' = unrecorded \union p
  /\ UNCHANGED <<rows, applied, confirmed>>

SenderStep(p, pp) == Silent(p, pp) \/ Accepts(p, pp) \/ Marks(p, pp) \/ Loses(p, pp)

Recorded == AppliedMatchesConfirmed /\ Pending \subseteq confirmed

(* A sender's step keeps Recorded when the other senders' hands are still. *)
LEMMA SenderKeepsRecorded ==
  ASSUME Recorded, NEW p, NEW pp, NEW rest,
         Pending = rest \union p, Pending' = rest \union pp,
         SenderStep(p, pp)
  PROVE  Recorded'
  BY DEF Recorded, AppliedMatchesConfirmed, SenderStep, Silent, Accepts, Marks, Loses

LEMMA HandlerIsSilent ==
  ASSUME TypeInv, NEW r \in Requests, Handler(r)
  PROVE  Silent(PendingRun(r), PendingRun(r)')
  <1> USE DEF TypeInv, TypeOK, Shape, RequestShape, PendingRun, Silent, RequestType, storeVars, history
  <1>1. CASE Reject(r)
    BY <1>1 DEF Reject, Gone, NewRequest
  <1>2. ASSUME NEW ids \in SUBSET Jobs, Claim(r, ids) PROVE Silent(PendingRun(r), PendingRun(r)')
    BY <1>2 DEF Claim
  <1>3. CASE ListJobs(r)
    BY <1>3 DEF ListJobs, ListJobsByIDs
  <1>4. CASE ListJobsReturns(r)
    BY <1>4 DEF ListJobsReturns, GiveUp, Gone, NewRequest
  <1>5. CASE ListCompanies(r)
    BY <1>5 DEF ListCompanies
  <1>6. CASE ListCompaniesFails(r)
    BY <1>6 DEF ListCompaniesFails, GiveUp, Gone, NewRequest
  <1>7. QED
    BY <1>1, <1>2, <1>3, <1>4, <1>5, <1>6 DEF Handler

LEMMA RunIsSender ==
  ASSUME TypeInv, Known, NEW r \in Requests, Run(r)
  PROVE  SenderStep(PendingRun(r), PendingRun(r)')
  <1> DEFINE p == PendingRun(r)
             pp == PendingRun(r)'
  <1> USE DEF TypeInv, TypeOK, Shape, RequestShape, PendingRun, RequestType, storeVars, history
  <1>1. CASE Start(r)
    BY <1>1 DEF Start, SenderStep, Silent
  <1>2. CASE ResetStatus(r)
    BY <1>2 DEF ResetStatus, SenderStep, Silent
  <1>3. ASSUME NEW j \in Jobs, NEW route \in Routes, Resolve(r, j, route) PROVE Silent(p, pp)
    BY <1>3 DEF Resolve, MayUpsertAggregator, UpsertCompanyByName, Silent
  <1>4. CASE Submit(r)
    <2>1. PICK answer \in Answers(req[r].route) :
            /\ req' = [req EXCEPT ![r] = [@ EXCEPT !.pc = "result", !.result = answer]]
            /\ confirmed' = IF answer = "ok" THEN confirmed \union {req[r].cur} ELSE confirmed
      BY <1>4 DEF Submit
    <2>2. CASE answer = "ok"
      <3>1. req[r].cur \in minted
        BY <1>4 DEF Submit, Known
      <3>2. pp = p \union {req[r].cur}
        <4>1. p = req[r].ok
          BY <1>4 DEF Submit
        <4>2. req'[r].ok = req[r].ok /\ req'[r].cur = req[r].cur /\ req'[r].result = "ok"
          BY <2>1, <2>2
        <4>3. QED
          BY <4>1, <4>2
      <3>3. confirmed' = confirmed \union {req[r].cur} /\ UNCHANGED <<rows, applied, unrecorded>>
        BY <1>4, <2>1, <2>2 DEF Submit
      <3>4. QED
        BY <3>1, <3>2, <3>3 DEF SenderStep, Accepts
    <2>3. CASE answer # "ok"
      BY <1>4, <2>1, <2>3 DEF Submit, SenderStep, Silent
    <2>4. QED
      BY <2>2, <2>3
  <1>5. CASE CountSent(r)
    BY <1>5 DEF CountSent, Counted, SenderStep, Silent
  <1>6. CASE CountFailed(r)
    BY <1>6 DEF CountFailed, Counted, SenderStep, Silent
  <1>7. CASE CountWaiting(r)
    BY <1>7 DEF CountWaiting, EnqueueRateLimited, Counted, SenderStep, Silent
  <1>8. CASE EnqueueFails(r)
    BY <1>8 DEF EnqueueFails, Counted, SenderStep, Silent
  <1>9. CASE PublishProgress(r)
    BY <1>9 DEF PublishProgress, SenderStep, Silent
  <1>10. CASE MarkApplied(r)
    BY <1>10 DEF MarkApplied, ApplyJobs, SenderStep, Marks
  <1>11. CASE MarkAppliedFails(r)
    BY <1>11 DEF MarkAppliedFails, SenderStep, Loses
  <1>12. CASE Release(r)
    BY <1>12 DEF Release, GiveUp, Gone, NewRequest, SenderStep, Silent
  <1>13. QED
    BY <1>1, <1>2, <1>3, <1>4, <1>5, <1>6, <1>7, <1>8, <1>9, <1>10, <1>11, <1>12
    DEF Run, SenderStep

LEMMA WorkerIsSender ==
  ASSUME TypeInv, Known, Tick \/ WorkerPass
  PROVE  SenderStep(PendingWorker, PendingWorker')
  <1> DEFINE p == PendingWorker
             pp == PendingWorker'
  <1> USE DEF TypeInv, TypeOK, PendingWorker, WorkerType, storeVars, history
  <1>1. ASSUME Tick \/ WorkerListCompanies \/ WorkerListJobs \/ EndPass PROVE Silent(p, pp)
    <2>1. worker.pc \notin {"dequeue", "mark"} /\ worker'.pc \notin {"dequeue", "mark"}
      <3>1. CASE Tick
        BY <3>1 DEF Tick
      <3>2. CASE WorkerListCompanies
        BY <3>2 DEF WorkerListCompanies
      <3>3. CASE WorkerListJobs
        BY <3>3 DEF WorkerListJobs, ListJobsByIDs
      <3>4. CASE EndPass
        BY <3>4 DEF EndPass, NewWorker
      <3>5. QED
        BY <1>1, <3>1, <3>2, <3>3, <3>4
    <2>2. p = {} /\ pp = {}
      BY <2>1
    <2>3. QED
      BY <1>1, <2>2 DEF Tick, WorkerListCompanies, WorkerListJobs, EndPass, Silent
  <1>2. ASSUME NEW j \in Jobs, WorkerDrop(j) \/ WorkerDropFails(j) PROVE Silent(p, pp)
    BY <1>2 DEF WorkerDrop, WorkerDropFails, DequeueRateLimited, Silent
  <1>3. ASSUME NEW j \in Jobs, WorkerResolve(j) \/ WorkerHasNoSource(j) PROVE Silent(p, pp)
    BY <1>3 DEF WorkerResolve, WorkerHasNoSource, MayUpsertAggregator, UpsertCompanyByName, Silent
  <1>4. CASE WorkerSubmit
    <2>1. PICK answer \in Answers("source") :
            /\ worker' = CASE answer = "ok" -> [worker EXCEPT !.pc = "dequeue"]
                           [] answer = "429" -> [worker EXCEPT !.pc = "postpone"]
                           [] OTHER -> WorkerNext(worker)
            /\ confirmed' = IF answer = "ok" THEN confirmed \union {worker.cur} ELSE confirmed
      BY <1>4 DEF WorkerSubmit
    <2>2. CASE answer = "ok"
      <3>1. worker.cur \in minted
        BY <1>4 DEF WorkerSubmit, Known
      <3>2. pp = p \union {worker.cur}
        BY <1>4, <2>1, <2>2 DEF WorkerSubmit
      <3>3. confirmed' = confirmed \union {worker.cur} /\ UNCHANGED <<rows, applied, unrecorded>>
        BY <1>4, <2>1, <2>2 DEF WorkerSubmit
      <3>4. QED
        BY <3>1, <3>2, <3>3 DEF SenderStep, Accepts
    <2>3. CASE answer # "ok"
      BY <1>4, <2>1, <2>3 DEF WorkerSubmit, WorkerNext, SenderStep, Silent
    <2>4. QED
      BY <2>2, <2>3
  <1>5. CASE WorkerDequeue
    BY <1>5 DEF WorkerDequeue, DequeueRateLimited, SenderStep, Silent
  <1>6. CASE WorkerMark
    BY <1>6 DEF WorkerMark, WorkerNext, ApplyJobs, SenderStep, Marks
  <1>7. CASE WorkerMarkFails
    BY <1>7 DEF WorkerMarkFails, WorkerNext, SenderStep, Loses
  <1>8. CASE WorkerPostpone
    BY <1>8 DEF WorkerPostpone, WorkerNext, UpdateRateLimitedRetry, SenderStep, Silent
  <1>9. QED
    BY <1>1, <1>2, <1>3, <1>4, <1>5, <1>6, <1>7, <1>8 DEF WorkerPass, SenderStep

LEMMA RecordedInit == Init => Recorded
  BY DEF Init, StoreInit, Recorded, AppliedMatchesConfirmed, Pending, PendingRun, PendingWorker,
         NewRequest, NewWorker

LEMMA RecordedStep == TypeInv /\ Known /\ Recorded /\ [Next]_vars => Recorded'
  <1> SUFFICES ASSUME TypeInv, Known, Recorded, [Next]_vars PROVE Recorded'
    OBVIOUS
  <1>1. ASSUME NEW r \in Requests, Handler(r) \/ Run(r) PROVE Recorded'
    <2> DEFINE rest == PendingWorker \union UNION {PendingRun(s) : s \in Requests \ {r}}
    <2>1. SenderStep(PendingRun(r), PendingRun(r)')
      BY <1>1, HandlerIsSilent, RunIsSender DEF SenderStep
    <2>2. UNCHANGED worker /\ \A s \in Requests \ {r} : req'[s] = req[s]
      BY <1>1
      DEF TypeInv, TypeOK, Handler, Run, Reject, Claim, ListJobs, ListJobsReturns, ListCompanies,
          ListCompaniesFails, GiveUp, Start, ResetStatus, Resolve, Submit, CountSent, CountFailed,
          CountWaiting, EnqueueFails, PublishProgress, MarkApplied, MarkAppliedFails, Release
    <2>3. PendingWorker' = PendingWorker
      BY <2>2 DEF PendingWorker
    <2>4. \A s \in Requests \ {r} : PendingRun(s)' = PendingRun(s)
      BY <2>2 DEF PendingRun
    <2>5. Pending = rest \union PendingRun(r)
      BY DEF Pending
    <2>6. Pending' = rest \union PendingRun(r)'
      BY <2>3, <2>4 DEF Pending
    <2>7. QED
      BY <2>1, <2>5, <2>6, SenderKeepsRecorded
  <1>2. CASE Tick \/ WorkerPass
    <2> DEFINE rest == UNION {PendingRun(s) : s \in Requests}
    <2>1. SenderStep(PendingWorker, PendingWorker')
      BY <1>2, WorkerIsSender
    <2>2. UNCHANGED req
      BY <1>2
      DEF Tick, WorkerPass, WorkerListCompanies, WorkerListJobs, EndPass, WorkerDrop,
          WorkerDropFails, WorkerResolve, WorkerHasNoSource, WorkerSubmit, WorkerDequeue,
          WorkerMark, WorkerMarkFails, WorkerPostpone
    <2>3. Pending = rest \union PendingWorker /\ Pending' = rest \union PendingWorker'
      BY <2>2 DEF Pending, PendingRun
    <2>4. QED
      BY <2>1, <2>3, SenderKeepsRecorded
  <1>3. CASE World
    <2>1. ASSUME UNCHANGED <<req, worker, confirmed, unrecorded>> PROVE Pending' = Pending
      BY <2>1 DEF Pending, PendingRun, PendingWorker
    <2>2. CASE Discover
      BY <2>1, <2>2 DEF Discover, UpsertCompanyByName, UpsertJob, procVars, history,
        Recorded, AppliedMatchesConfirmed, Known
    <2>3. ASSUME NEW ids \in SUBSET Jobs, Delete(ids) \/ Ban(ids) PROVE Recorded'
      BY <2>1, <2>3 DEF Delete, Ban, DeleteJobs, BanJobs, procVars, history,
        Recorded, AppliedMatchesConfirmed
    <2>4. ASSUME NEW j \in Jobs, BackoffEnds(j) PROVE Recorded'
      BY <2>1, <2>4 DEF BackoffEnds, RetryTimeComes, procVars, history,
        Recorded, AppliedMatchesConfirmed
    <2>5. CASE Crash
      <3>1. \A r \in Requests : PendingRun(r)' = {}
        BY <2>5 DEF Crash, Active, Gone, NewRequest, Holding, Detached, PendingRun,
          TypeInv, Shape, RequestShape
      <3>2. PendingWorker' = {}
        BY <2>5 DEF Crash, NewWorker, PendingWorker
      <3>3. Pending' = {}
        BY <3>1, <3>2 DEF Pending
      <3>4. QED
        BY <2>5, <3>3 DEF Crash, storeVars, Recorded, AppliedMatchesConfirmed
    <2>6. QED
      BY <1>3, <2>2, <2>3, <2>4, <2>5 DEF World
  <1>4. CASE UNCHANGED vars
    <2>1. Pending' = Pending
      BY <1>4 DEF vars, procVars, Pending, PendingRun, PendingWorker
    <2>2. QED
      BY <1>4, <2>1 DEF vars, storeVars, history, Recorded, AppliedMatchesConfirmed
  <1>5. QED
    BY <1>1, <1>2, <1>3, <1>4 DEF Next

(* Every accepted application of a job that still has a row is marked, in  *)
(* hand, or was lost to a crash or a failed UPDATE; and no row is marked   *)
(* that was not accepted.                                                  *)
THEOREM AppliedIsTrue == Spec => []AppliedMatchesConfirmed
  <1>1. Recorded => AppliedMatchesConfirmed
    BY DEF Recorded
  <1>2. QED
    BY <1>1, TypeAlways, KnownInit, KnownStep, RecordedInit, RecordedStep, PTL DEF Spec
-----------------------------------------------------------------------------
(* The retry queue.  What the worker's snapshot condemned stays condemned: *)
(* a missing row does not come back and an accepted job stays accepted.    *)

Condemned ==
  \A j \in worker.drop : j \in minted /\ (j \notin rows \/ j \in confirmed)

LEMMA CondemnedInit == Init => Condemned
  BY DEF Init, NewWorker, Condemned

(* No step brings a stored id back or forgets an acceptance.               *)
LEMMA NothingComesBack ==
  ASSUME TypeInv, [Next]_vars
  PROVE  /\ minted \subseteq minted'
         /\ minted \intersect rows' \subseteq rows
         /\ confirmed \subseteq confirmed'
  <1>1. minted \subseteq minted' /\ minted \intersect rows' \subseteq rows
    BY ApplyIssuesStatements, AStatementRevivesNoId DEF TypeInv, TypeOK
  <1>2. ASSUME NEW r \in Requests, Handler(r) \/ Run(r) PROVE confirmed \subseteq confirmed'
    BY <1>2 DEF Handler, Reject, Claim, ListJobs, ListJobsReturns, ListCompanies,
         ListCompaniesFails, Run, Start, ResetStatus, Resolve, Submit, CountSent, CountFailed,
         CountWaiting, EnqueueFails, PublishProgress, MarkApplied, MarkAppliedFails, Release,
         history
  <1>3. ASSUME Tick \/ WorkerPass PROVE confirmed \subseteq confirmed'
    BY <1>3 DEF Tick, WorkerPass, WorkerListCompanies, WorkerListJobs, EndPass, WorkerDrop,
          WorkerDropFails, WorkerResolve, WorkerHasNoSource, WorkerSubmit, WorkerDequeue,
          WorkerMark, WorkerMarkFails, WorkerPostpone, history
  <1>4. ASSUME World PROVE confirmed \subseteq confirmed'
    BY <1>4 DEF World, Discover, Delete, Ban, BackoffEnds, Crash, history
  <1>5. ASSUME UNCHANGED vars PROVE confirmed \subseteq confirmed'
    BY <1>5 DEF vars, history
  <1>6. QED
    BY <1>1, <1>2, <1>3, <1>4, <1>5 DEF Next

LEMMA CondemnedStep ==
  TypeInv /\ Known /\ Recorded /\ Condemned /\ [Next]_vars => Condemned'
  <1> SUFFICES ASSUME TypeInv, Known, Recorded, Condemned, [Next]_vars PROVE Condemned'
    OBVIOUS
  <1>1. ASSUME worker'.drop \subseteq worker.drop PROVE Condemned'
    BY <1>1, NothingComesBack DEF Condemned
  <1>2. ASSUME NEW r \in Requests, Handler(r) \/ Run(r) PROVE UNCHANGED worker
    BY <1>2
    DEF Handler, Run, Reject, Claim, ListJobs, ListJobsReturns, ListCompanies,
        ListCompaniesFails, Start, ResetStatus, Resolve, Submit, CountSent, CountFailed,
        CountWaiting, EnqueueFails, PublishProgress, MarkApplied, MarkAppliedFails, Release
  <1>3. CASE WorkerListJobs
    <2>1. worker'.drop = {j \in worker.todo : j \notin rows \/ j \in applied}
      BY <1>3 DEF WorkerListJobs, ListJobsByIDs, TypeInv, TypeOK, WorkerType
    <2>2. UNCHANGED <<storeVars, confirmed>>
      BY <1>3 DEF WorkerListJobs, ListJobsByIDs, history
    <2>3. QED
      BY <2>1, <2>2 DEF Condemned, Known, Recorded, AppliedMatchesConfirmed, storeVars
  <1>4. CASE Tick \/ (WorkerPass /\ ~WorkerListJobs)
    <2> USE DEF TypeInv, TypeOK, WorkerType
    <2>1. CASE Tick \/ WorkerListCompanies \/ EndPass
      <3>1. CASE Tick
        BY <1>1, <3>1 DEF Tick
      <3>2. CASE WorkerListCompanies
        BY <1>1, <3>2 DEF WorkerListCompanies
      <3>3. CASE EndPass
        BY <1>1, <3>3 DEF EndPass, NewWorker
      <3>4. QED
        BY <2>1, <3>1, <3>2, <3>3
    <2>2. ASSUME NEW j \in Jobs, WorkerDrop(j) \/ WorkerDropFails(j) PROVE Condemned'
      BY <1>1, <2>2 DEF WorkerDrop, WorkerDropFails
    <2>3. ASSUME NEW j \in Jobs, WorkerResolve(j) \/ WorkerHasNoSource(j) PROVE Condemned'
      BY <1>1, <2>3 DEF WorkerResolve, WorkerHasNoSource
    <2>4. CASE WorkerSubmit
      BY <1>1, <2>4 DEF WorkerSubmit, WorkerNext
    <2>5. CASE WorkerDequeue
      BY <1>1, <2>5 DEF WorkerDequeue
    <2>6. CASE WorkerMark \/ WorkerMarkFails \/ WorkerPostpone
      BY <1>1, <2>6 DEF WorkerMark, WorkerMarkFails, WorkerPostpone, WorkerNext
    <2>7. QED
      BY <1>4, <2>1, <2>2, <2>3, <2>4, <2>5, <2>6 DEF WorkerPass
  <1>5. CASE World
    BY <1>1, <1>5 DEF World, Discover, Delete, Ban, BackoffEnds, Crash, procVars, NewWorker
  <1>6. CASE UNCHANGED vars
    BY <1>1, <1>6 DEF vars, procVars
  <1>7. QED
    BY <1>1, <1>2, <1>3, <1>4, <1>5, <1>6 DEF Next

LEMMA QueueStep ==
  ASSUME TypeInv, Known, Recorded, Condemned, [Next]_vars
  PROVE  QueueExit
  <1> USE DEF QueueExit, Queued
  <1>1. ASSUME UNCHANGED queue PROVE QueueExit
    BY <1>1
  <1>2. ASSUME NEW r \in Requests, Handler(r) \/ Run(r) PROVE QueueExit
    <2>1. CASE CountWaiting(r)
      BY <2>1 DEF CountWaiting, EnqueueRateLimited, TypeInv, TypeOK, StoreTypeOK, QueueState
    <2>2. CASE ~CountWaiting(r)
      BY <1>1, <1>2, <2>2
      DEF Handler, Run, Reject, Claim, ListJobs, ListJobsReturns, ListCompanies,
        ListCompaniesFails, Start, ResetStatus, Resolve, MayUpsertAggregator, UpsertCompanyByName,
        Submit, CountSent, CountFailed, EnqueueFails, PublishProgress, MarkApplied, ApplyJobs,
        MarkAppliedFails, Release, storeVars
    <2>3. QED
      BY <2>1, <2>2
  <1>3. CASE Tick \/ WorkerPass
    <2> USE DEF TypeInv, TypeOK, StoreTypeOK, QueueState
    <2>1. ASSUME NEW j \in Jobs, WorkerDrop(j) PROVE QueueExit
      BY <2>1 DEF WorkerDrop, DequeueRateLimited, Condemned, history
    <2>2. CASE WorkerDequeue
      <3>1. worker.cur \in confirmed /\ UNCHANGED confirmed
        BY <2>2 DEF WorkerDequeue, Recorded, Pending, PendingWorker, history
      <3>2. QED
        BY <1>1, <2>2, <3>1 DEF WorkerDequeue, DequeueRateLimited, storeVars
    <2>3. CASE WorkerPostpone
      BY <1>1, <2>3 DEF WorkerPostpone, UpdateRateLimitedRetry, storeVars
    <2>4. CASE Tick \/ WorkerListCompanies \/ WorkerListJobs \/ EndPass \/ WorkerSubmit
               \/ WorkerMark \/ WorkerMarkFails
      BY <1>1, <2>4 DEF Tick, WorkerListCompanies, WorkerListJobs, EndPass, WorkerSubmit,
        WorkerMark, WorkerMarkFails, ApplyJobs, storeVars
    <2>5. ASSUME NEW j \in Jobs, WorkerDropFails(j) \/ WorkerResolve(j) \/ WorkerHasNoSource(j)
          PROVE  QueueExit
      BY <1>1, <2>5 DEF WorkerDropFails, WorkerResolve, WorkerHasNoSource, MayUpsertAggregator,
        UpsertCompanyByName, storeVars
    <2>6. QED
      BY <1>3, <2>1, <2>2, <2>3, <2>4, <2>5 DEF WorkerPass
  <1>4. CASE World
    <2> USE DEF TypeInv, TypeOK, StoreTypeOK, QueueState
    <2>1. ASSUME NEW ids \in SUBSET Jobs, Delete(ids) PROVE QueueExit
      BY <2>1 DEF Delete, DeleteJobs
    <2>2. ASSUME NEW j \in Jobs, BackoffEnds(j) PROVE QueueExit
      BY <2>2 DEF BackoffEnds, RetryTimeComes
    <2>3. ASSUME NEW ids \in SUBSET Jobs, Ban(ids) PROVE QueueExit
      BY <1>1, <2>3 DEF Ban, BanJobs
    <2>4. CASE Discover \/ Crash
      BY <1>1, <2>4 DEF Discover, UpsertCompanyByName, UpsertJob, Crash, storeVars
    <2>5. QED
      BY <1>4, <2>1, <2>2, <2>3, <2>4 DEF World
  <1>5. CASE UNCHANGED vars
    BY <1>1, <1>5 DEF vars, storeVars
  <1>6. QED
    BY <1>2, <1>3, <1>4, <1>5 DEF Next

(* No step takes a job out of the retry queue unless it was accepted or    *)
(* its row is gone.                                                        *)
THEOREM QueueKeepsItsJobs == Spec => QueueExitsAreJustified
  <1>1. TypeInv /\ Known /\ Recorded /\ Condemned /\ [Next]_vars => [QueueExit]_vars
    BY QueueStep
  <1>2. QED
    BY <1>1, TypeAlways, KnownInit, KnownStep, RecordedInit, RecordedStep,
       CondemnedInit, CondemnedStep, PTL
    DEF Spec, QueueExitsAreJustified
-----------------------------------------------------------------------------
(* The counters.  What a request has counted, has in hand and has still to *)
(* do adds up to the jobs it listed, job by job; what is published is its  *)
(* tally as of the last job, as only the holder of the flag writes it.     *)

InHand(q) == IF q.pc \in {"submit", "result"} THEN 1 ELSE 0

Balanced(q) ==
  /\ q.pc \in {"idle", "claimed"} => q.tally = ZeroStatus
  /\ q.pc \in {"listed", "spawned", "started"}
       => /\ q.tally = [ZeroStatus EXCEPT !.total = Cardinality(q.todo)]
          /\ q.ok = {}
  /\ q.pc \in Detached => CountedIn(q.tally) + InHand(q) + Cardinality(q.todo) <= q.tally.total
  /\ q.pc \in Detached \ {"release"} => q.tally.sent = Cardinality(q.ok) /\ q.ok \intersect q.todo = {}
  /\ q.pc \in {"submit", "result"} => q.cur \notin q.todo \union q.ok

Follows(q, status) ==
  /\ q.pc \in {"next", "submit", "result", "mark", "release"} => status = q.tally
  /\ q.pc = "publish"
       => /\ status.total = q.tally.total
          /\ CountedIn(status) \in {CountedIn(q.tally) - 1, CountedIn(q.tally)}

Counts == \A r \in Requests : Balanced(req[r]) /\ Follows(req[r], applyStatus)

LEMMA CountsFollow == Counts => StatusFollowsRun
  BY DEF Counts, Balanced, Follows, InHand, StatusFollowsRun

LEMMA CountsInit == Init => Counts
  BY DEF Init, NewRequest, Counts, Balanced, Follows, Detached

(* The sizes of sets of jobs, as the run changes them.                     *)
LEMMA SizesOfJobs ==
  ASSUME NEW S \in SUBSET Jobs, NEW j \in Jobs
  PROVE  /\ Cardinality(S) \in Nat
         /\ j \notin S => Cardinality(S \union {j}) = Cardinality(S) + 1
         /\ j \in S => Cardinality(S \ {j}) = Cardinality(S) - 1
  BY ApplyAssumption, FS_Subset, FS_CardinalityType, FS_AddElement, FS_RemoveElement
  DEF ApplyAssumption

(* What a step of request r does to its own counts.                        *)
LEMMA HandlerCounts ==
  ASSUME TypeInv, Counts, NEW r \in Requests, Handler(r)
  PROVE  Balanced(req'[r]) /\ Follows(req'[r], applyStatus')
  <1> DEFINE q == req[r]
  <1> USE DEF Balanced, Follows, Detached
  <1>0. q \in RequestType /\ Balanced(q) /\ Follows(q, applyStatus) /\ req \in [Requests -> RequestType]
    BY DEF TypeInv, TypeOK, Counts
  <1>1. CASE Reject(r)
    BY <1>0, <1>1 DEF Reject, Gone, NewRequest
  <1>2. ASSUME NEW ids \in SUBSET Jobs, Claim(r, ids)
        PROVE  Balanced(req'[r]) /\ Follows(req'[r], applyStatus')
    BY <1>0, <1>2 DEF Claim, RequestType
  <1>3. CASE ListJobs(r)
    <2> DEFINE found == q.todo \intersect rows
    <2>1. /\ req'[r].pc = "listed" /\ req'[r].todo = found /\ req'[r].ok = q.ok
          /\ req'[r].tally = [q.tally EXCEPT !.total = Cardinality(found)]
      BY <1>0, <1>3 DEF ListJobs, ListJobsByIDs, RequestType, Tally
    <2>2. q.tally = ZeroStatus /\ q.ok = {}
      BY <1>0, <1>3 DEF ListJobs, TypeInv, Shape, RequestShape
    <2>3. QED
      BY <2>1, <2>2
  <1>4. CASE ListJobsReturns(r) \/ ListCompaniesFails(r)
    BY <1>0, <1>4 DEF ListJobsReturns, ListCompaniesFails, GiveUp, Gone, NewRequest
  <1>5. CASE ListCompanies(r)
    <2>1. /\ req'[r].pc = "spawned" /\ req'[r].todo = q.todo /\ req'[r].ok = q.ok
          /\ req'[r].tally = q.tally
      BY <1>0, <1>5 DEF ListCompanies, RequestType
    <2>2. q.tally = [ZeroStatus EXCEPT !.total = Cardinality(q.todo)] /\ q.ok = {}
      BY <1>0, <1>5 DEF ListCompanies
    <2>3. Cardinality(q.todo) \in Nat /\ Cardinality({}) = 0
      BY <1>0, ListedJobsAreCounted, FS_EmptySet DEF RequestType
    <2>4. QED
      BY <2>1, <2>2, <2>3 DEF ZeroStatus, CountedIn, InHand
  <1>6. QED
    BY <1>1, <1>2, <1>3, <1>4, <1>5 DEF Handler

LEMMA RunCounts ==
  ASSUME TypeInv, Counts, NEW r \in Requests, Run(r)
  PROVE  Balanced(req'[r]) /\ Follows(req'[r], applyStatus')
  <1> DEFINE q == req[r]
             qq == req'[r]
  <1> USE DEF Balanced, Follows, Detached
  <1>0. q \in RequestType /\ Balanced(q) /\ Follows(q, applyStatus) /\ req \in [Requests -> RequestType]
    BY DEF TypeInv, TypeOK, Counts
  <1>a. /\ q.todo \in SUBSET Jobs /\ Cardinality(q.todo) \in Nat
        /\ q.ok \in SUBSET Jobs /\ Cardinality(q.ok) \in Nat
        /\ q.tally \in Tally
    BY <1>0, ListedJobsAreCounted DEF RequestType
  <1>1. CASE Start(r)
    BY <1>0, <1>1 DEF Start, RequestType, InHand
  <1>2. CASE ResetStatus(r)
    <2>1. /\ qq.pc = "next" /\ qq.todo = q.todo /\ qq.ok = q.ok /\ qq.tally = q.tally
          /\ applyStatus' = [ZeroStatus EXCEPT !.total = q.tally.total]
      BY <1>0, <1>2 DEF ResetStatus, RequestType
    <2>2. q.tally = [ZeroStatus EXCEPT !.total = Cardinality(q.todo)] /\ q.pc = "started"
      BY <1>0, <1>2 DEF ResetStatus
    <2>3. QED
      BY <1>0, <2>1, <2>2 DEF ZeroStatus, InHand
  <1>3. ASSUME NEW j \in Jobs, NEW route \in Routes, Resolve(r, j, route)
        PROVE  Balanced(qq) /\ Follows(qq, applyStatus')
    <2>1. /\ qq.pc = "submit" /\ qq.todo = q.todo \ {j} /\ qq.ok = q.ok /\ qq.tally = q.tally
          /\ qq.cur = j /\ applyStatus' = applyStatus /\ q.pc = "next" /\ j \in q.todo
      BY <1>0, <1>3 DEF Resolve, RequestType
    <2>2. Cardinality(q.todo \ {j}) = Cardinality(q.todo) - 1
      BY <1>a, <2>1, SizesOfJobs
    <2>3. CountedIn(q.tally) \in Nat
      BY <1>a DEF Tally, CountedIn
    <2>4. CountedIn(q.tally) + 1 + Cardinality(q.todo \ {j}) <= q.tally.total
      BY <1>0, <1>a, <2>1, <2>2, <2>3 DEF InHand, Tally
    <2>5. QED
      BY <1>0, <2>1, <2>4 DEF InHand
  <1>4. CASE Submit(r)
    <2>1. /\ qq.pc = "result" /\ qq.todo = q.todo /\ qq.ok = q.ok /\ qq.tally = q.tally
          /\ qq.cur = q.cur /\ applyStatus' = applyStatus /\ q.pc = "submit"
      BY <1>0, <1>4 DEF Submit, RequestType
    <2>2. QED
      BY <1>0, <2>1 DEF InHand
  <1>5. ASSUME q.pc = "result", qq.pc = "publish", qq.todo = q.todo, applyStatus' = applyStatus,
               qq.tally \in Tally, qq.tally.total = q.tally.total,
               CountedIn(qq.tally) \in {CountedIn(q.tally), CountedIn(q.tally) + 1},
               qq.tally.sent = Cardinality(qq.ok), qq.ok \intersect qq.todo = {}
        PROVE  Balanced(qq) /\ Follows(qq, applyStatus')
    <2>1. CountedIn(q.tally) \in Nat /\ CountedIn(qq.tally) \in Nat /\ q.tally.total \in Nat
      BY <1>a, <1>5 DEF Tally, CountedIn
    <2>2. CountedIn(q.tally) + 1 + Cardinality(q.todo) <= q.tally.total
      BY <1>0, <1>5 DEF InHand
    <2>3. CountedIn(qq.tally) + 0 + Cardinality(qq.todo) <= qq.tally.total
      BY <1>5, <1>a, <2>1, <2>2
    <2>4. applyStatus = q.tally
      BY <1>0, <1>5
    <2>5. QED
      BY <1>5, <2>1, <2>3, <2>4 DEF InHand
  <1>b. q.pc = "result" => q.tally.sent = Cardinality(q.ok) /\ q.ok \intersect q.todo = {}
    BY <1>0
  <1>6. CASE CountSent(r)
    <2>1. /\ q.pc = "result" /\ qq.pc = "publish" /\ qq.todo = q.todo /\ applyStatus' = applyStatus
          /\ qq.tally = [q.tally EXCEPT !.sent = @ + 1] /\ qq.ok = q.ok \union {q.cur}
      BY <1>0, <1>6 DEF CountSent, Counted, RequestType
    <2>2. q.cur \in Jobs /\ q.cur \notin q.todo \union q.ok
      BY <1>0, <2>1 DEF TypeInv, Shape, RequestShape
    <2>3. Cardinality(qq.ok) = Cardinality(q.ok) + 1
      BY <1>a, <2>1, <2>2, SizesOfJobs
    <2>4. /\ qq.tally \in Tally /\ qq.tally.total = q.tally.total
          /\ CountedIn(qq.tally) = CountedIn(q.tally) + 1 /\ qq.tally.sent = q.tally.sent + 1
      BY <1>a, <2>1 DEF Tally, CountedIn
    <2>5. QED
      BY <1>5, <1>b, <2>1, <2>2, <2>3, <2>4
  <1>7. CASE CountFailed(r)
    <2>1. /\ q.pc = "result" /\ qq.pc = "publish" /\ qq.todo = q.todo /\ applyStatus' = applyStatus
          /\ qq.tally = [q.tally EXCEPT !.failed = @ + 1] /\ qq.ok = q.ok
      BY <1>0, <1>7 DEF CountFailed, Counted, RequestType
    <2>2. /\ qq.tally \in Tally /\ qq.tally.total = q.tally.total
          /\ CountedIn(qq.tally) = CountedIn(q.tally) + 1 /\ qq.tally.sent = q.tally.sent
      BY <1>a, <2>1 DEF Tally, CountedIn
    <2>3. QED
      BY <1>5, <1>b, <2>1, <2>2
  <1>8. CASE CountWaiting(r)
    <2>1. /\ q.pc = "result" /\ qq.pc = "publish" /\ qq.todo = q.todo /\ applyStatus' = applyStatus
          /\ qq.tally = [q.tally EXCEPT !.waiting = @ + 1] /\ qq.ok = q.ok
      BY <1>0, <1>8 DEF CountWaiting, Counted, RequestType
    <2>2. /\ qq.tally \in Tally /\ qq.tally.total = q.tally.total
          /\ CountedIn(qq.tally) = CountedIn(q.tally) + 1 /\ qq.tally.sent = q.tally.sent
      BY <1>a, <2>1 DEF Tally, CountedIn
    <2>3. QED
      BY <1>5, <1>b, <2>1, <2>2
  <1>9. CASE EnqueueFails(r)
    <2>1. /\ q.pc = "result" /\ qq.pc = "publish" /\ qq.todo = q.todo /\ applyStatus' = applyStatus
          /\ qq.tally = q.tally /\ qq.ok = q.ok
      BY <1>0, <1>9 DEF EnqueueFails, Counted, RequestType
    <2>2. QED
      BY <1>5, <1>a, <1>b, <2>1
  <1>10. CASE PublishProgress(r)
    <2>1. /\ q.pc = "publish" /\ qq.pc \in {"next", "mark", "release"}
          /\ qq.todo = q.todo /\ qq.ok = q.ok /\ qq.tally = q.tally
          /\ applyStatus' = [q.tally EXCEPT !.total = applyStatus.total]
      BY <1>0, <1>10 DEF PublishProgress, RequestType
    <2>2. applyStatus.total = q.tally.total
      BY <1>0, <2>1
    <2>3. applyStatus' = q.tally
      BY <1>a, <2>1, <2>2 DEF Tally
    <2>4. QED
      BY <1>0, <2>1, <2>3 DEF InHand
  <1>11. CASE MarkApplied(r) \/ MarkAppliedFails(r)
    <2>1. /\ q.pc = "mark" /\ qq.pc = "release" /\ qq.todo = q.todo /\ qq.tally = q.tally
          /\ applyStatus' = applyStatus
      <3>1. CASE MarkApplied(r)
        BY <1>0, <3>1 DEF MarkApplied, RequestType
      <3>2. CASE MarkAppliedFails(r)
        BY <1>0, <3>2 DEF MarkAppliedFails, RequestType
      <3>3. QED
        BY <1>11, <3>1, <3>2
    <2>2. QED
      BY <1>0, <2>1 DEF InHand
  <1>12. CASE Release(r)
    BY <1>0, <1>12 DEF Release, GiveUp, Gone, NewRequest
  <1>13. QED
    BY <1>1, <1>2, <1>3, <1>4, <1>6, <1>7, <1>8, <1>9, <1>10, <1>11, <1>12 DEF Run

LEMMA CountsStep == TypeInv /\ SingleRun /\ Counts /\ [Next]_vars => Counts'
  <1> SUFFICES ASSUME TypeInv, SingleRun, Counts, [Next]_vars PROVE Counts'
    OBVIOUS
  <1>1. ASSUME NEW r \in Requests, Handler(r) \/ Run(r) PROVE Counts'
    <2>1. Balanced(req'[r]) /\ Follows(req'[r], applyStatus')
      BY <1>1, HandlerCounts, RunCounts
    <2>2. \A s \in Requests \ {r} : req'[s] = req[s]
      BY <1>1
      DEF TypeInv, TypeOK, Handler, Run, Reject, Claim, ListJobs, ListJobsReturns, ListCompanies,
          ListCompaniesFails, GiveUp, Start, ResetStatus, Resolve, Submit, CountSent, CountFailed,
          CountWaiting, EnqueueFails, PublishProgress, MarkApplied, MarkAppliedFails, Release
    <2>3. Active(r) \/ applyStatus' = applyStatus
      BY <1>1
      DEF Handler, Run, Reject, Claim, ListJobs, ListJobsReturns, ListCompanies,
          ListCompaniesFails, Start, ResetStatus, Resolve, Submit, CountSent, CountFailed,
          CountWaiting, EnqueueFails, PublishProgress, MarkApplied, MarkAppliedFails, Release,
          Active, Holding, Detached
    <2>4. \A s \in Requests \ {r} : Active(s) => applyStatus' = applyStatus
      BY <2>3 DEF SingleRun
    <2>5. \A s \in Requests \ {r} : Follows(req[s], applyStatus')
      BY <2>4 DEF Counts, Follows, Active, Holding, Detached
    <2>6. QED
      BY <2>1, <2>2, <2>5 DEF Counts
  <1>2. CASE UNCHANGED <<applyStatus, req>>
    BY <1>2 DEF Counts
  <1>3. CASE Crash
    <2>1. \A r \in Requests : req'[r].pc \notin Holding /\ (req'[r] = Gone \/ req'[r] = req[r])
      BY <1>3 DEF Crash, Gone, NewRequest, Active, Holding, Detached
    <2>2. Gone.tally = ZeroStatus
      BY DEF Gone, NewRequest
    <2>3. QED
      BY <2>1, <2>2 DEF Counts, Balanced, Follows, Holding, Detached
  <1>4. CASE Tick \/ WorkerPass
    BY <1>2, <1>4
    DEF Tick, WorkerPass, WorkerListCompanies, WorkerListJobs, EndPass, WorkerDrop, WorkerDropFails,
        WorkerResolve, WorkerHasNoSource, WorkerSubmit, WorkerDequeue, WorkerMark, WorkerMarkFails,
        WorkerPostpone
  <1>5. CASE World
    BY <1>2, <1>3, <1>5 DEF World, Discover, Delete, Ban, BackoffEnds, procVars
  <1>6. CASE UNCHANGED vars
    BY <1>2, <1>6 DEF vars, procVars
  <1>7. QED
    BY <1>1, <1>4, <1>5, <1>6 DEF Next

(* The published counters are those of the run in progress, at most one    *)
(* job behind, no job is counted twice, and sent counts the jobs that will *)
(* be marked, for any number of jobs and requests.                         *)
THEOREM StatusIsOfTheRun == Spec => []StatusFollowsRun
  BY CountsFollow, CountsInit, CountsStep, TypeAlways, MutualExclusion, PTL DEF Spec

-----------------------------------------------------------------------------
(* Nothing in the program can keep the flag from being given back: what    *)
(* holds it always has a step of its own, and only boundedly many of them. *)

(* A step of the holder of the flag is enabled: the guards of Handler and  *)
(* Run.  Every listing, statement and submission has an outcome for a      *)
(* failure, so only the loop and the switch over the answer have a guard   *)
(* beside the place they are at.                                           *)
CanGo(r) ==
  /\ req[r].pc \in Holding
  /\ req[r].pc = "next" => req[r].todo # {}
  /\ req[r].pc = "result" => req[r].result # "none"

(* A request is listed, started and stepped through with jobs to apply     *)
(* for, and leaves Submit with an answer.                                  *)
AtWork(q) ==
  /\ q.pc \in {"claimed", "listed", "spawned", "started", "next"} => q.todo # {}
  /\ q.pc = "result" => q.result # "none"

HasWork == \A r \in Requests : AtWork(req[r])

LEMMA HasWorkInit == Init => HasWork
  BY DEF Init, NewRequest, HasWork, AtWork

(* A step of one request leaves the others where they are.                 *)
LEMMA OneMoves ==
  ASSUME TypeInv, NEW r \in Requests, Handler(r) \/ Run(r), NEW s \in Requests \ {r}
  PROVE  req'[s] = req[s]
  BY DEF TypeInv, TypeOK, Handler, Run, Reject, Claim, ListJobs, ListJobsReturns, ListCompanies,
         ListCompaniesFails, GiveUp, Start, ResetStatus, Resolve, Submit, CountSent, CountFailed,
         CountWaiting, EnqueueFails, PublishProgress, MarkApplied, MarkAppliedFails, Release

LEMMA MoverIsAtWork ==
  ASSUME TypeInv, NEW r \in Requests, Handler(r) \/ Run(r), AtWork(req[r])
  PROVE  AtWork(req'[r])
  <1> DEFINE q == req[r]
             qq == req'[r]
  <1> USE DEF AtWork
  <1>0. req \in [Requests -> RequestType] /\ q \in RequestType
    BY DEF TypeInv, TypeOK
  <1>1. CASE Reject(r) \/ ListJobsReturns(r) \/ ListCompaniesFails(r) \/ Release(r)
    <2>1. qq = Gone
      BY <1>0, <1>1 DEF Reject, ListJobsReturns, ListCompaniesFails, Release, GiveUp
    <2>2. Gone.pc = "done"
      BY DEF Gone, NewRequest
    <2>3. QED
      BY <2>1, <2>2
  <1>2. ASSUME NEW ids \in (SUBSET Jobs) \ {{}}, Claim(r, ids) PROVE AtWork(qq)
    <2>1. qq.pc = "claimed" /\ qq.todo = ids
      BY <1>0, <1>2 DEF Claim, RequestType
    <2>2. ids # {}
      BY <1>2
    <2>3. QED
      BY <2>1, <2>2
  <1>3. CASE ListJobs(r)
    <2>1. qq.pc = "listed" /\ qq.todo # {}
      BY <1>0, <1>3 DEF ListJobs, RequestType
    <2>2. QED
      BY <2>1
  <1>4. CASE ListCompanies(r) \/ Start(r) \/ ResetStatus(r)
    <2>1. /\ qq.pc \in {"spawned", "started", "next"} /\ qq.todo = q.todo
          /\ q.pc \in {"listed", "spawned", "started"}
      BY <1>0, <1>4 DEF ListCompanies, Start, ResetStatus, RequestType
    <2>2. QED
      BY <2>1
  <1>5. ASSUME NEW j \in Jobs, NEW route \in Routes, Resolve(r, j, route) PROVE AtWork(qq)
    <2>1. qq.pc = "submit"
      BY <1>0, <1>5 DEF Resolve, RequestType
    <2>2. QED
      BY <2>1
  <1>6. CASE Submit(r)
    <2>1. PICK answer \in Answers(q.route) : qq = [q EXCEPT !.pc = "result", !.result = answer]
      BY <1>0, <1>6 DEF Submit
    <2>2. answer # "none"
      BY DEF Answers
    <2>3. qq.pc = "result" /\ qq.result = answer
      BY <1>0, <2>1 DEF RequestType
    <2>4. QED
      BY <2>2, <2>3
  <1>7. CASE CountSent(r) \/ CountFailed(r) \/ CountWaiting(r) \/ EnqueueFails(r)
    <2>1. \A tally, ok : Counted(q, tally, ok).pc = "publish"
      BY <1>0 DEF Counted, RequestType
    <2>2. \E tally, ok : qq = Counted(q, tally, ok)
      BY <1>0, <1>7 DEF CountSent, CountFailed, CountWaiting, EnqueueFails
    <2>3. QED
      BY <2>1, <2>2
  <1>8. CASE PublishProgress(r)
    <2>1. /\ qq.todo = q.todo
          /\ qq.pc \in {"mark", "release"} \/ (qq.pc = "next" /\ q.todo # {})
      BY <1>0, <1>8 DEF PublishProgress, RequestType
    <2>2. QED
      BY <2>1
  <1>9. CASE MarkApplied(r) \/ MarkAppliedFails(r)
    <2>1. qq = [q EXCEPT !.pc = "release", !.ok = {}]
      BY <1>0, <1>9 DEF MarkApplied, MarkAppliedFails
    <2>2. QED
      BY <1>0, <2>1 DEF RequestType
  <1>10. QED
    BY <1>1, <1>2, <1>3, <1>4, <1>5, <1>6, <1>7, <1>8, <1>9 DEF Handler, Run

LEMMA HasWorkStep == TypeInv /\ HasWork /\ [Next]_vars => HasWork'
  <1> SUFFICES ASSUME TypeInv, HasWork, [Next]_vars, NEW s \in Requests PROVE AtWork(req'[s])
    BY DEF HasWork
  <1>1. ASSUME NEW r \in Requests, Handler(r) \/ Run(r) PROVE AtWork(req'[s])
    <2>1. CASE s = r
      BY <1>1, <2>1, MoverIsAtWork DEF HasWork
    <2>2. CASE s # r
      BY <1>1, <2>2, OneMoves DEF HasWork
    <2>3. QED
      BY <2>1, <2>2
  <1>2. CASE UNCHANGED req
    BY <1>2 DEF HasWork
  <1>3. CASE Crash
    <2>1. req'[s] = Gone \/ req'[s] = req[s]
      BY <1>3 DEF Crash
    <2>2. AtWork(Gone)
      BY DEF AtWork, Gone, NewRequest
    <2>3. QED
      BY <2>1, <2>2 DEF HasWork
  <1>4. CASE Tick \/ WorkerPass
    BY <1>2, <1>4
    DEF Tick, WorkerPass, WorkerListCompanies, WorkerListJobs, EndPass, WorkerDrop, WorkerDropFails,
        WorkerResolve, WorkerHasNoSource, WorkerSubmit, WorkerDequeue, WorkerMark, WorkerMarkFails,
        WorkerPostpone
  <1>5. CASE World
    BY <1>2, <1>3, <1>5 DEF World, Discover, Delete, Ban, BackoffEnds, procVars
  <1>6. CASE UNCHANGED vars
    BY <1>2, <1>6 DEF vars, procVars
  <1>7. QED
    BY <1>1, <1>4, <1>5, <1>6 DEF Next

FlagIsInGoodHands == applyRunning => \E r \in Requests : CanGo(r)

(* Whenever applyRunning is set, a request holds it that has a step of its *)
(* own to take, whatever the retry worker, the other requests, deletions   *)
(* and crashes have done: the run never waits for anything but the answer  *)
(* of a statement or of a remote site.                                     *)
THEOREM TheHolderCanGo == Spec => []FlagIsInGoodHands
  <1>1. SingleRun /\ HasWork => FlagIsInGoodHands
    BY DEF SingleRun, HasWork, AtWork, FlagIsInGoodHands, CanGo, Active
  <1>2. QED
    BY <1>1, HasWorkInit, HasWorkStep, TypeAlways, MutualExclusion, PTL DEF Spec

(* The steps a request still has before it, at most.                       *)
Ahead(pc) ==
  CASE pc = "claimed" -> 6 [] pc = "listed" -> 5 [] pc = "spawned" -> 4
    [] pc = "started" -> 3 [] pc = "next" -> 2 [] pc = "submit" -> 5
    [] pc = "result" -> 4 [] pc = "publish" -> 3 [] pc = "mark" -> 2
    [] pc = "release" -> 1 [] OTHER -> 0

StepsLeft(q) == 4 * Cardinality(q.todo) + Ahead(q.pc)

Progress(r) ==
  /\ StepsLeft(req[r]) \in Nat
  /\ req'[r] = req[r] \/ StepsLeft(req'[r]) < StepsLeft(req[r])

EveryStepCounts == \A r \in Requests : Active(r) => Progress(r)

LEMMA StepsAreCounted ==
  ASSUME NEW q \in RequestType
  PROVE  Cardinality(q.todo) \in Nat /\ StepsLeft(q) \in Nat
  <1>1. Cardinality(q.todo) \in Nat
    BY ListedJobsAreCounted DEF RequestType
  <1>2. Ahead(q.pc) \in Nat
    BY DEF Ahead
  <1>3. QED
    BY <1>1, <1>2 DEF StepsLeft

(* A step of the holder that takes no job from its list is down the line.  *)
LEMMA DownTheLine ==
  ASSUME NEW q \in RequestType, NEW qq, qq.todo = q.todo, Ahead(qq.pc) < Ahead(q.pc)
  PROVE  StepsLeft(qq) < StepsLeft(q)
  <1>1. Ahead(qq.pc) \in Nat /\ Ahead(q.pc) \in Nat
    BY DEF Ahead
  <1>2. Cardinality(q.todo) \in Nat
    BY StepsAreCounted
  <1>3. PICK n \in Nat : n = Cardinality(q.todo)
    BY <1>2
  <1>4. StepsLeft(qq) = 4 * n + Ahead(qq.pc) /\ StepsLeft(q) = 4 * n + Ahead(q.pc)
    BY <1>3 DEF StepsLeft
  <1>5. QED
    BY <1>1, <1>4

LEMMA TheEnd ==
  ASSUME NEW q \in RequestType, q.pc \in Holding
  PROVE  StepsLeft(Gone) < StepsLeft(q)
  <1>1. StepsLeft(Gone) = 0
    <2>1. Gone.todo = {} /\ Gone.pc = "done"
      BY DEF Gone, NewRequest
    <2>2. Cardinality({}) = 0
      BY FS_EmptySet
    <2>3. QED
      BY <2>1, <2>2 DEF StepsLeft, Ahead
  <1>2. PICK n \in Nat : n = Cardinality(q.todo)
    BY StepsAreCounted
  <1>3. StepsLeft(q) = 4 * n + Ahead(q.pc) /\ Ahead(q.pc) \in Nat /\ Ahead(q.pc) > 0
    BY <1>2 DEF StepsLeft, Ahead, Holding, Detached
  <1>4. QED
    BY <1>1, <1>3

LEMMA HandlerProgress ==
  ASSUME TypeInv, NEW r \in Requests, Handler(r), Active(r)
  PROVE  StepsLeft(req'[r]) < StepsLeft(req[r])
  <1> DEFINE q == req[r]
             qq == req'[r]
  <1>0. req \in [Requests -> RequestType] /\ q \in RequestType
    BY DEF TypeInv, TypeOK
  <1>a. q.pc \in Holding /\ q.pc # "idle"
    BY DEF Active, Holding, Detached
  <1>1. CASE ListJobs(r)
    <2>1. PICK found \in SUBSET q.todo : found = ListJobsByIDs(q.todo)
      BY DEF ListJobsByIDs
    <2>2. qq.todo = found /\ qq.pc = "listed" /\ q.pc = "claimed"
      BY <1>0, <1>1, <2>1 DEF ListJobs, RequestType
    <2>3. /\ Cardinality(q.todo) \in Nat /\ Cardinality(found) \in Nat
          /\ Cardinality(found) <= Cardinality(q.todo)
      BY <1>0, ApplyAssumption, FS_Subset, FS_CardinalityType DEF ApplyAssumption, RequestType
    <2>4. /\ StepsLeft(qq) = 4 * Cardinality(found) + 5
          /\ StepsLeft(q) = 4 * Cardinality(q.todo) + 6
      BY <2>2 DEF StepsLeft, Ahead
    <2>5. QED
      BY <2>3, <2>4
  <1>2. CASE ListCompanies(r)
    <2>1. qq.todo = q.todo /\ Ahead(qq.pc) < Ahead(q.pc)
      BY <1>0, <1>2 DEF ListCompanies, RequestType, Ahead
    <2>2. QED
      BY <1>0, <2>1, DownTheLine
  <1>3. CASE ListJobsReturns(r) \/ ListCompaniesFails(r)
    <2>1. qq = Gone
      BY <1>0, <1>3 DEF ListJobsReturns, ListCompaniesFails, GiveUp
    <2>2. QED
      BY <1>0, <1>a, <2>1, TheEnd
  <1>4. QED
    BY <1>a, <1>1, <1>2, <1>3 DEF Handler, Reject, Claim

LEMMA RunProgress ==
  ASSUME TypeInv, NEW r \in Requests, Run(r), Active(r)
  PROVE  StepsLeft(req'[r]) < StepsLeft(req[r])
  <1> DEFINE q == req[r]
             qq == req'[r]
  <1>0. req \in [Requests -> RequestType] /\ q \in RequestType
    BY DEF TypeInv, TypeOK
  <1>a. ASSUME qq.todo = q.todo, Ahead(qq.pc) < Ahead(q.pc) PROVE StepsLeft(qq) < StepsLeft(q)
    BY <1>0, <1>a, DownTheLine
  <1>1. CASE Start(r) \/ ResetStatus(r)
    BY <1>0, <1>1, <1>a DEF Start, ResetStatus, RequestType, Ahead
  <1>2. ASSUME NEW j \in Jobs, NEW route \in Routes, Resolve(r, j, route)
        PROVE  StepsLeft(qq) < StepsLeft(q)
    <2>1. qq.todo = q.todo \ {j} /\ qq.pc = "submit" /\ q.pc = "next" /\ j \in q.todo
      BY <1>0, <1>2 DEF Resolve, RequestType
    <2>2. PICK n \in Nat : n = Cardinality(q.todo)
      BY <1>0, StepsAreCounted
    <2>3. Cardinality(qq.todo) = n - 1
      BY <1>0, <2>1, <2>2, SizesOfJobs DEF RequestType
    <2>4. StepsLeft(qq) = 4 * (n - 1) + 5 /\ StepsLeft(q) = 4 * n + 2
      BY <2>1, <2>2, <2>3 DEF StepsLeft, Ahead
    <2>5. QED
      BY <2>4
  <1>3. CASE Submit(r)
    BY <1>0, <1>3, <1>a DEF Submit, RequestType, Ahead
  <1>4. CASE CountSent(r) \/ CountFailed(r) \/ CountWaiting(r) \/ EnqueueFails(r)
    <2>1. \A tally, ok : /\ Counted(q, tally, ok).pc = "publish"
                         /\ Counted(q, tally, ok).todo = q.todo
      BY <1>0 DEF Counted, RequestType
    <2>2. q.pc = "result" /\ \E tally, ok : qq = Counted(q, tally, ok)
      BY <1>0, <1>4 DEF CountSent, CountFailed, CountWaiting, EnqueueFails
    <2>3. qq.todo = q.todo /\ qq.pc = "publish"
      BY <2>1, <2>2
    <2>4. Ahead(qq.pc) < Ahead(q.pc)
      BY <2>2, <2>3 DEF Ahead
    <2>5. QED
      BY <1>a, <2>3, <2>4
  <1>5. CASE PublishProgress(r)
    <2>1. qq.todo = q.todo /\ q.pc = "publish" /\ qq.pc \in {"next", "mark", "release"}
      BY <1>0, <1>5 DEF PublishProgress, RequestType
    <2>2. Ahead(qq.pc) < Ahead(q.pc)
      BY <2>1 DEF Ahead
    <2>3. QED
      BY <1>a, <2>1, <2>2
  <1>6. CASE MarkApplied(r) \/ MarkAppliedFails(r)
    <2>1. q.pc = "mark" /\ qq = [q EXCEPT !.pc = "release", !.ok = {}]
      BY <1>0, <1>6 DEF MarkApplied, MarkAppliedFails
    <2>2. qq.todo = q.todo /\ qq.pc = "release"
      BY <1>0, <2>1 DEF RequestType
    <2>3. Ahead(qq.pc) < Ahead(q.pc)
      BY <2>1, <2>2 DEF Ahead
    <2>4. QED
      BY <1>a, <2>2, <2>3
  <1>7. CASE Release(r)
    <2>1. qq = Gone
      BY <1>0, <1>7 DEF Release, GiveUp
    <2>2. QED
      BY <1>0, <2>1, TheEnd DEF Active
  <1>8. QED
    BY <1>1, <1>2, <1>3, <1>4, <1>5, <1>6, <1>7 DEF Run

LEMMA EveryStepCountsStep == TypeInv /\ [Next]_vars => EveryStepCounts
  <1> SUFFICES ASSUME TypeInv, [Next]_vars, NEW s \in Requests, Active(s) PROVE Progress(s)
    BY DEF EveryStepCounts
  <1>0. req \in [Requests -> RequestType] /\ req[s] \in RequestType
    BY DEF TypeInv, TypeOK
  <1>a. StepsLeft(req[s]) \in Nat
    BY <1>0, StepsAreCounted
  <1>1. ASSUME NEW r \in Requests, Handler(r) \/ Run(r) PROVE Progress(s)
    <2>1. CASE r = s
      BY <1>a, <1>1, <2>1, HandlerProgress, RunProgress DEF Progress
    <2>2. CASE r # s
      <3>1. req'[s] = req[s]
        BY <1>1, <2>2, OneMoves
      <3>2. QED
        BY <1>a, <3>1 DEF Progress
    <2>3. QED
      BY <2>1, <2>2
  <1>2. CASE UNCHANGED req
    BY <1>a, <1>2 DEF Progress
  <1>3. CASE Crash
    <2>1. req'[s] = Gone
      BY <1>3 DEF Crash
    <2>2. QED
      BY <1>0, <1>a, <2>1, TheEnd DEF Active, Progress
  <1>4. CASE Tick \/ WorkerPass
    BY <1>2, <1>4
    DEF Tick, WorkerPass, WorkerListCompanies, WorkerListJobs, EndPass, WorkerDrop, WorkerDropFails,
        WorkerResolve, WorkerHasNoSource, WorkerSubmit, WorkerDequeue, WorkerMark, WorkerMarkFails,
        WorkerPostpone
  <1>5. CASE World
    BY <1>2, <1>3, <1>5 DEF World, Discover, Delete, Ban, BackoffEnds, procVars
  <1>6. CASE UNCHANGED vars
    BY <1>2, <1>6 DEF vars, procVars
  <1>7. QED
    BY <1>1, <1>4, <1>5, <1>6 DEF Next

(* A run is finite: every step of the request that holds the flag lowers a *)
(* natural number fixed by the jobs listed, four for each job still to be  *)
(* sent, and no other process raises it.  With TheHolderCanGo this is      *)
(* RunEnds short of fairness: the flag can only stay set because a step    *)
(* that is enabled is never taken.                                         *)
THEOREM ARunIsFinite == Spec => [][EveryStepCounts]_vars
  BY EveryStepCountsStep, TypeAlways, PTL DEF Spec
=============================================================================
