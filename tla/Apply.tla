-------------------------------- MODULE Apply --------------------------------
(***************************************************************************)
(* Applying for jobs: POST /api/apply and the goroutine it detaches, the   *)
(* rate-limit retry worker, /api/delete and /api/ban,                       *)
(* all running concurrently over one store, and a process that may crash.  *)
(*                                                                         *)
(* One step is one database statement, one critical section of applyMu or  *)
(* applyStatus.mu, or one submission to a remote site; everything between  *)
(* two of them is local to its goroutine.  Which source a job resolves to  *)
(* and what the remote answers are nondeterministic.                       *)
(***************************************************************************)
EXTENDS JobStore, FiniteSets

CONSTANTS
  Requests,     (* POST /api/apply requests with at least one id; each is  *)
                (* handled once                                            *)
  Aggregators,  (* names of the registered aggregators                     *)
  NoJob,        (* no current job                                          *)
  MaxCrashes    (* bound on process crashes                                *)

ASSUME ApplyAssumption ==
  /\ Aggregators \subseteq Companies
  /\ NoJob \notin Jobs
  /\ IsFiniteSet(Jobs)
  /\ MaxCrashes \in Nat

VARIABLES
  applyRunning, (* the flag guarded by applyMu                             *)
  applyStatus,  (* the published counters, guarded by applyStatus.mu       *)
  req,          (* per request: the handler, then its detached goroutine   *)
  worker,       (* the retry worker                                        *)
  confirmed,    (* history: jobs for which a sender was told "accepted"    *)
  unrecorded,   (* history: confirmed jobs whose mark was lost in a crash  *)
                (* or a failed UPDATE                                      *)
  crashes

procVars == <<applyRunning, applyStatus, req, worker>>
history == <<confirmed, unrecorded, crashes>>
vars == <<storeVars, procVars, history>>

-----------------------------------------------------------------------------

ZeroStatus == [total |-> 0, sent |-> 0, failed |-> 0, waiting |-> 0]

(* The locals of a request: todo holds the requested ids until the jobs    *)
(* are listed, then the listed jobs not yet reached.                       *)
NewRequest ==
  [pc |-> "idle", todo |-> {}, cur |-> NoJob, route |-> "none",
   result |-> "none", tally |-> ZeroStatus, ok |-> {}]

Gone == [NewRequest EXCEPT !.pc = "done"]

(* The locals of a pass: todo holds the ready entries, and once the jobs   *)
(* are listed those still to be tried; drop those the snapshot showed      *)
(* missing or applied.                                                     *)
NewWorker == [pc |-> "idle", todo |-> {}, drop |-> {}, cur |-> NoJob]

(* How a job can be sent: by mail, through its source, or not at all.      *)
Routes == {"email", "source", "none"}

(* "fail" stands for every answer other than OK and 429: an error, a       *)
(* result for an unsupported source (nil), another status.                 *)
Answers(route) ==
  CASE route = "email"  -> {"ok", "fail"}
    [] route = "source" -> {"ok", "429", "fail"}
    [] OTHER            -> {"fail"}

(* The goroutine is past its 202 and has not yet ended.                    *)
Detached == {"spawned", "started", "next", "submit", "result", "publish",
             "mark", "release"}
Holding == Detached \union {"claimed", "listed"}

Active(r) == req[r].pc \in Holding

-----------------------------------------------------------------------------
(* POST /api/apply: the handler.                                           *)

Reject(r) ==
  /\ req[r].pc = "idle"
  /\ applyRunning
  /\ req' = [req EXCEPT ![r] = Gone]
  /\ UNCHANGED <<storeVars, applyRunning, applyStatus, worker, history>>

(* Mutant of Claim: the flag is set without being tested.                  *)
ClaimUntested(r, ids) ==
  /\ req[r].pc = "idle"
  /\ applyRunning' = TRUE
  /\ req' = [req EXCEPT ![r] = [@ EXCEPT !.pc = "claimed", !.todo = ids]]
  /\ UNCHANGED <<storeVars, applyStatus, worker, history>>

Claim(r, ids) ==
  /\ req[r].pc = "idle"
  /\ ~applyRunning
  /\ applyRunning' = TRUE
  /\ req' = [req EXCEPT ![r] = [@ EXCEPT !.pc = "claimed", !.todo = ids]]
  /\ UNCHANGED <<storeVars, applyStatus, worker, history>>

(* The early returns reset the flag.                                       *)
GiveUp(r) ==
  /\ applyRunning' = FALSE
  /\ req' = [req EXCEPT ![r] = Gone]

ListJobs(r) ==
  LET found == ListJobsByIDs(req[r].todo) IN
  /\ req[r].pc = "claimed"
  /\ found # {}
  /\ req' = [req EXCEPT ![r] = [@ EXCEPT !.pc = "listed", !.todo = found,
                                         !.tally.total = Cardinality(found)]]
  /\ UNCHANGED <<storeVars, applyRunning, applyStatus, worker, history>>

(* The statement fails, the request is cancelled, or no id has a row.      *)
ListJobsReturns(r) ==
  /\ req[r].pc = "claimed"
  /\ GiveUp(r)
  /\ UNCHANGED <<storeVars, applyStatus, worker, history>>

ListCompanies(r) ==
  /\ req[r].pc = "listed"
  /\ req' = [req EXCEPT ![r].pc = "spawned"]
  /\ UNCHANGED <<storeVars, applyRunning, applyStatus, worker, history>>

(* Mutant of ListCompaniesFails: the early return forgets the flag.        *)
ListCompaniesFailsLeaking(r) ==
  /\ req[r].pc = "listed"
  /\ req' = [req EXCEPT ![r] = Gone]
  /\ UNCHANGED <<storeVars, applyRunning, applyStatus, worker, history>>

ListCompaniesFails(r) ==
  /\ req[r].pc = "listed"
  /\ GiveUp(r)
  /\ UNCHANGED <<storeVars, applyStatus, worker, history>>

-----------------------------------------------------------------------------
(* The detached goroutine.                                                 *)

Start(r) ==
  /\ req[r].pc = "spawned"
  /\ applyRunning' = TRUE
  /\ req' = [req EXCEPT ![r].pc = "started"]
  /\ UNCHANGED <<storeVars, applyStatus, worker, history>>

(* Mutant of ResetStatus: waiting keeps the count of the previous run.     *)
ResetStatusButWaiting(r) ==
  /\ req[r].pc = "started"
  /\ applyStatus' = [applyStatus EXCEPT !.total = req[r].tally.total,
                                        !.sent = 0, !.failed = 0]
  /\ req' = [req EXCEPT ![r].pc = "next"]
  /\ UNCHANGED <<storeVars, applyRunning, worker, history>>

ResetStatus(r) ==
  /\ req[r].pc = "started"
  /\ applyStatus' = [ZeroStatus EXCEPT !.total = req[r].tally.total]
  /\ req' = [req EXCEPT ![r].pc = "next"]
  /\ UNCHANGED <<storeVars, applyRunning, worker, history>>

(* An aggregator job, or one matched to an aggregator by its URL, upserts  *)
(* the aggregator as a company; if that fails the job has no source.       *)
MayUpsertAggregator ==
  \/ UNCHANGED storeVars
  \/ \E a \in Aggregators : UpsertCompanyByName(a)

(* The loop takes its next job.  A job that was applied to, banned or      *)
(* deleted meanwhile is not treated differently.                           *)
Resolve(r, j, route) ==
  /\ req[r].pc = "next"
  /\ j \in req[r].todo
  /\ req' = [req EXCEPT ![r] = [@ EXCEPT !.pc = "submit",
                                         !.todo = req[r].todo \ {j},
                                         !.cur = j, !.route = route]]
  /\ MayUpsertAggregator
  /\ UNCHANGED <<applyRunning, applyStatus, worker, history>>

(* applyViaEmail or ApplyJob.  The answer reaches the goroutine in the     *)
(* step in which the sender learns it.                                     *)
Submit(r) ==
  /\ req[r].pc = "submit"
  /\ \E answer \in Answers(req[r].route) :
       /\ req' = [req EXCEPT ![r] = [@ EXCEPT !.pc = "result", !.result = answer]]
       /\ confirmed' = IF answer = "ok" THEN confirmed \union {req[r].cur}
                                        ELSE confirmed
  /\ UNCHANGED <<storeVars, applyRunning, applyStatus, worker,
                 unrecorded, crashes>>

(* The job is counted, or not, and the locals that describe it are dropped.*)
Counted(q, tally, ok) ==
  [q EXCEPT !.pc = "publish", !.tally = tally, !.ok = ok,
            !.cur = NoJob, !.route = "none", !.result = "none"]

CountSent(r) ==
  /\ req[r].pc = "result" /\ req[r].result = "ok"
  /\ LET q == req[r]
         tally == [q.tally EXCEPT !.sent = @ + 1]
     IN  req' = [req EXCEPT ![r] = Counted(q, tally, q.ok \union {q.cur})]
  /\ UNCHANGED <<storeVars, applyRunning, applyStatus, worker, history>>

CountFailed(r) ==
  /\ req[r].pc = "result" /\ req[r].result = "fail"
  /\ LET q == req[r]
         tally == [q.tally EXCEPT !.failed = @ + 1]
     IN  req' = [req EXCEPT ![r] = Counted(q, tally, q.ok)]
  /\ UNCHANGED <<storeVars, applyRunning, applyStatus, worker, history>>

CountWaiting(r) ==
  /\ req[r].pc = "result" /\ req[r].result = "429"
  /\ EnqueueRateLimited(req[r].cur)
  /\ LET q == req[r]
         tally == [q.tally EXCEPT !.waiting = @ + 1]
     IN  req' = [req EXCEPT ![r] = Counted(q, tally, q.ok)]
  /\ UNCHANGED <<applyRunning, applyStatus, worker, history>>

(* The row is gone (foreign key) or the statement fails: the job is in     *)
(* none of the three counters.                                             *)
EnqueueFails(r) ==
  /\ req[r].pc = "result" /\ req[r].result = "429"
  /\ req' = [req EXCEPT ![r] = Counted(req[r], req[r].tally, req[r].ok)]
  /\ UNCHANGED <<storeVars, applyRunning, applyStatus, worker, history>>

PublishProgress(r) ==
  /\ req[r].pc = "publish"
  /\ applyStatus' = [req[r].tally EXCEPT !.total = applyStatus.total]
  /\ req' = [req EXCEPT ![r].pc = IF req[r].todo # {} THEN "next"
                                  ELSE IF req[r].ok # {} THEN "mark"
                                  ELSE "release"]
  /\ UNCHANGED <<storeVars, applyRunning, worker, history>>

(* One UPDATE at the end of the run marks all its accepted jobs.           *)
MarkApplied(r) ==
  /\ req[r].pc = "mark"
  /\ ApplyJobs(req[r].ok)
  /\ req' = [req EXCEPT ![r] = [@ EXCEPT !.pc = "release", !.ok = {}]]
  /\ UNCHANGED <<applyRunning, applyStatus, worker, history>>

MarkAppliedFails(r) ==
  /\ req[r].pc = "mark"
  /\ unrecorded' = unrecorded \union req[r].ok
  /\ req' = [req EXCEPT ![r] = [@ EXCEPT !.pc = "release", !.ok = {}]]
  /\ UNCHANGED <<storeVars, applyRunning, applyStatus, worker,
                 confirmed, crashes>>

Release(r) ==
  /\ req[r].pc = "release"
  /\ GiveUp(r)
  /\ UNCHANGED <<storeVars, applyStatus, worker, history>>

-----------------------------------------------------------------------------
(* The retry worker: runRetry, once per tick.                              *)

Tick ==
  /\ worker.pc = "idle"
  /\ ReadyEntries # {}
  /\ worker' = [worker EXCEPT !.pc = "entries", !.todo = ReadyEntries]
  /\ UNCHANGED <<storeVars, applyRunning, applyStatus, req, history>>

(* ListCompanies only feeds the resolution of sources.                     *)
WorkerListCompanies ==
  /\ worker.pc = "entries"
  /\ worker' = [worker EXCEPT !.pc = "companies"]
  /\ UNCHANGED <<storeVars, applyRunning, applyStatus, req, history>>

(* Mutant of WorkerListJobs: an applied job is passed over, its entry kept.*)
WorkerListJobsKeeping ==
  LET drop == {j \in worker.todo : j \notin rows} IN
  /\ worker.pc = "companies"
  /\ worker' = [worker EXCEPT !.pc = "next", !.todo = (@ \ drop) \ applied, !.drop = drop]
  /\ UNCHANGED <<storeVars, applyRunning, applyStatus, req, history>>

WorkerListJobs ==
  LET drop == worker.todo \ (ListJobsByIDs(worker.todo) \ applied) IN
  /\ worker.pc = "companies"
  /\ worker' = [worker EXCEPT !.pc = "next", !.todo = @ \ drop, !.drop = drop]
  /\ UNCHANGED <<storeVars, applyRunning, applyStatus, req, history>>

(* ListCompanies or ListJobsByIDs fails, or the worker is through.         *)
EndPass ==
  /\ \/ worker.pc \in {"entries", "companies"}
     \/ worker.pc = "next" /\ worker.todo = {} /\ worker.drop = {}
  /\ worker' = NewWorker
  /\ UNCHANGED <<storeVars, applyRunning, applyStatus, req, history>>

WorkerNext(w) == [w EXCEPT !.pc = "next", !.cur = NoJob]

(* The snapshot lacks the job or shows it applied: its entry is dropped.   *)
(* An error of the DELETE is ignored.                                      *)
WorkerDrop(j) ==
  /\ worker.pc = "next" /\ j \in worker.drop
  /\ DequeueRateLimited(j)
  /\ worker' = [worker EXCEPT !.drop = @ \ {j}]
  /\ UNCHANGED <<applyRunning, applyStatus, req, history>>

WorkerDropFails(j) ==
  /\ worker.pc = "next" /\ j \in worker.drop
  /\ worker' = [worker EXCEPT !.drop = @ \ {j}]
  /\ UNCHANGED <<storeVars, applyRunning, applyStatus, req, history>>

WorkerResolve(j) ==
  /\ worker.pc = "next" /\ j \in worker.todo
  /\ worker' = [worker EXCEPT !.pc = "submit", !.todo = @ \ {j}, !.cur = j]
  /\ MayUpsertAggregator
  /\ UNCHANGED <<applyRunning, applyStatus, req, history>>

(* The id of an upserted aggregator cannot be read back, or nothing matches.*)
WorkerHasNoSource(j) ==
  /\ worker.pc = "next" /\ j \in worker.todo
  /\ worker' = [worker EXCEPT !.todo = @ \ {j}]
  /\ MayUpsertAggregator
  /\ UNCHANGED <<applyRunning, applyStatus, req, history>>

(* A failure leaves the entry as it is, due again at the next tick.        *)
WorkerSubmit ==
  /\ worker.pc = "submit"
  /\ \E answer \in Answers("source") :
       /\ worker' = CASE answer = "ok" -> [worker EXCEPT !.pc = "dequeue"]
                      [] answer = "429" -> [worker EXCEPT !.pc = "postpone"]
                      [] OTHER -> WorkerNext(worker)
       /\ confirmed' = IF answer = "ok" THEN confirmed \union {worker.cur}
                                        ELSE confirmed
  /\ UNCHANGED <<storeVars, applyRunning, applyStatus, req,
                 unrecorded, crashes>>

(* Mutant of WorkerDequeue: an error of the DELETE skips the mark.         *)
WorkerDequeueOrSkip ==
  /\ worker.pc = "dequeue"
  /\ \/ DequeueRateLimited(worker.cur) /\ worker' = [worker EXCEPT !.pc = "mark"]
     \/ UNCHANGED storeVars /\ worker' = WorkerNext(worker)
  /\ UNCHANGED <<applyRunning, applyStatus, req, history>>

(* An error is logged and the job is marked all the same.                  *)
WorkerDequeue ==
  /\ worker.pc = "dequeue"
  /\ DequeueRateLimited(worker.cur) \/ UNCHANGED storeVars
  /\ worker' = [worker EXCEPT !.pc = "mark"]
  /\ UNCHANGED <<applyRunning, applyStatus, req, history>>

WorkerMark ==
  /\ worker.pc = "mark"
  /\ ApplyJobs({worker.cur})
  /\ worker' = WorkerNext(worker)
  /\ UNCHANGED <<applyRunning, applyStatus, req, history>>

WorkerMarkFails ==
  /\ worker.pc = "mark"
  /\ unrecorded' = unrecorded \union {worker.cur}
  /\ worker' = WorkerNext(worker)
  /\ UNCHANGED <<storeVars, applyRunning, applyStatus, req,
                 confirmed, crashes>>

(* Mutant of WorkerPostpone: a second 429 gives the job up.                *)
WorkerPostponeForEver ==
  /\ worker.pc = "postpone"
  /\ DequeueRateLimited(worker.cur)
  /\ worker' = WorkerNext(worker)
  /\ UNCHANGED <<applyRunning, applyStatus, req, history>>

WorkerPostpone ==
  /\ worker.pc = "postpone"
  /\ UpdateRateLimitedRetry(worker.cur) \/ UNCHANGED storeVars
  /\ worker' = WorkerNext(worker)
  /\ UNCHANGED <<applyRunning, applyStatus, req, history>>

-----------------------------------------------------------------------------
(* The rest of the program, and the world.                                 *)

(* A scan stores a company or a listing.                                   *)
Discover ==
  /\ \/ \E c \in Companies \ companies : UpsertCompanyByName(c)
     \/ \E j \in Jobs : CompanyOf[j] \in companies /\ UpsertJob(j)
  /\ UNCHANGED <<procVars, history>>

Delete(ids) ==
  /\ DeleteJobs(ids)
  /\ UNCHANGED <<procVars, history>>

Ban(ids) ==
  /\ BanJobs(ids)
  /\ UNCHANGED <<procVars, history>>

BackoffEnds(j) ==
  /\ RetryTimeComes(j)
  /\ UNCHANGED <<procVars, history>>

(* What a sender has been told but has not yet written down.               *)
PendingRun(r) ==
  req[r].ok \union (IF req[r].result = "ok" THEN {req[r].cur} ELSE {})
PendingWorker ==
  IF worker.pc \in {"dequeue", "mark"} THEN {worker.cur} ELSE {}
Pending == PendingWorker \union UNION {PendingRun(r) : r \in Requests}

(* The process dies and is started again: the database is what is left.    *)
Crash ==
  /\ crashes < MaxCrashes
  /\ crashes' = crashes + 1
  /\ applyRunning' = FALSE
  /\ applyStatus' = ZeroStatus
  /\ req' = [r \in Requests |-> IF Active(r) THEN Gone ELSE req[r]]
  /\ worker' = NewWorker
  /\ unrecorded' = unrecorded \union Pending
  /\ UNCHANGED <<storeVars, confirmed>>

-----------------------------------------------------------------------------

Handler(r) ==
  \/ Reject(r)
  \/ \E ids \in (SUBSET Jobs) \ {{}} : Claim(r, ids)
  \/ ListJobs(r) \/ ListJobsReturns(r)
  \/ ListCompanies(r) \/ ListCompaniesFails(r)

Run(r) ==
  \/ Start(r) \/ ResetStatus(r)
  \/ \E j \in Jobs, route \in Routes : Resolve(r, j, route)
  \/ Submit(r)
  \/ CountSent(r) \/ CountFailed(r) \/ CountWaiting(r) \/ EnqueueFails(r)
  \/ PublishProgress(r)
  \/ MarkApplied(r) \/ MarkAppliedFails(r)
  \/ Release(r)

WorkerPass ==
  \/ WorkerListCompanies \/ WorkerListJobs \/ EndPass
  \/ \E j \in Jobs : WorkerDrop(j) \/ WorkerDropFails(j)
                     \/ WorkerResolve(j) \/ WorkerHasNoSource(j)
  \/ WorkerSubmit \/ WorkerDequeue \/ WorkerMark \/ WorkerMarkFails
  \/ WorkerPostpone

World ==
  \/ Discover
  \/ \E ids \in (SUBSET Jobs) \ {{}} : Delete(ids) \/ Ban(ids)
  \/ \E j \in Jobs : BackoffEnds(j)
  \/ Crash

Init ==
  /\ StoreInit
  /\ applyRunning = FALSE
  /\ applyStatus = ZeroStatus
  /\ req = [r \in Requests |-> NewRequest]
  /\ worker = NewWorker
  /\ confirmed = {}
  /\ unrecorded = {}
  /\ crashes = 0

Next ==
  \/ \E r \in Requests : Handler(r) \/ Run(r)
  \/ Tick \/ WorkerPass
  \/ World

Spec == Init /\ [][Next]_vars
-----------------------------------------------------------------------------
(* What the scheduling gives.  Every statement and every HTTP submission   *)
(* returns (busy_timeout, the 45 s of a form), the ticker keeps ticking    *)
(* and the clock runs.  An SMTP conversation has no deadline once it is    *)
(* dialled, so an email submission is not assumed to return.  SQLite does  *)
(* not fail a statement of the worker for ever.                            *)

InSmtp(r) == req[r].pc = "submit" /\ req[r].route = "email"

HandlerReturns(r) ==
  ListJobs(r) \/ ListJobsReturns(r) \/ ListCompanies(r) \/ ListCompaniesFails(r)

Fairness ==
  /\ \A r \in Requests : /\ WF_vars(HandlerReturns(r))
                          /\ WF_vars(~InSmtp(r) /\ Run(r))
  /\ WF_vars(Tick) /\ WF_vars(WorkerPass)
  /\ SF_vars(WorkerListCompanies) /\ SF_vars(WorkerListJobs)
  /\ \A j \in Jobs : SF_vars(WorkerDrop(j)) /\ WF_vars(BackoffEnds(j))

FairSpec == Spec /\ Fairness

-----------------------------------------------------------------------------
(* Type invariant.                                                         *)

Tally == [total : Nat, sent : Nat, failed : Nat, waiting : Nat]

ReqPc == {"idle", "done"} \union Holding

RequestType ==
  [pc : ReqPc, todo : SUBSET Jobs, cur : Jobs \union {NoJob}, route : Routes,
   result : {"none", "ok", "429", "fail"}, tally : Tally, ok : SUBSET Jobs]

WorkerType ==
  [pc : {"idle", "entries", "companies", "next", "submit", "dequeue", "mark",
         "postpone"},
   todo : SUBSET Jobs, drop : SUBSET Jobs, cur : Jobs \union {NoJob}]

TypeOK ==
  /\ StoreTypeOK
  /\ applyRunning \in BOOLEAN
  /\ applyStatus \in Tally
  /\ req \in [Requests -> RequestType]
  /\ worker \in WorkerType
  /\ confirmed \subseteq Jobs
  /\ unrecorded \subseteq Jobs
  /\ crashes \in 0..MaxCrashes

(* At most one request is between the two critical sections that set and   *)
(* clear applyRunning, over every early return, the hand-over from the     *)
(* handler to its goroutine (which sets the flag again) and a crash; and   *)
(* the flag is set exactly while one is, so no early return leaks it.      *)
SingleRun ==
  /\ \A r, s \in Requests : Active(r) /\ Active(s) => r = s
  /\ applyRunning <=> \E r \in Requests : Active(r)

(* The applied column tells the truth both ways, whatever the interleaving *)
(* of the run, the retry worker and deletions: a row marked applied was    *)
(* accepted by its remote, and an accepted job that still has a row is     *)
(* marked, or its mark is still in the hands of the run or the worker, or  *)
(* it was lost to a crash or a failed UPDATE.                              *)
AppliedMatchesConfirmed ==
  /\ applied \subseteq confirmed
  /\ confirmed \intersect rows \subseteq applied \union unrecorded \union Pending

QueueExit ==
  \A j \in Jobs : Queued(j) /\ ~Queued(j)' => j \in confirmed' \/ j \notin rows'

(* A job leaves the retry queue only because it was accepted or deleted:   *)
(* the worker's decisions from its stale snapshots never drop a job that   *)
(* still has to be retried.                                                *)
QueueExitsAreJustified == [][QueueExit]_vars

CountedIn(t) == t.sent + t.failed + t.waiting

(* The published counters are those of the run in progress from its reset  *)
(* on, behind by at most the job being published, and no job is counted    *)
(* twice: with the jobs left they never exceed the total, so "queued"      *)
(* needs no clamp at zero; and sent counts exactly the jobs that will be   *)
(* marked.                                                                 *)
StatusFollowsRun ==
  \A r \in Requests :
    LET q == req[r]
        inHand == IF q.pc \in {"submit", "result"} THEN 1 ELSE 0
    IN  /\ q.pc \in {"next", "submit", "result", "mark", "release"}
             => applyStatus = q.tally
        /\ q.pc = "publish"
             => CountedIn(applyStatus) \in {CountedIn(q.tally) - 1, CountedIn(q.tally)}
        /\ q.pc \in Detached
             => CountedIn(q.tally) + inHand + Cardinality(q.todo) <= q.tally.total
        /\ q.pc \in Detached \ {"release"} => q.tally.sent = Cardinality(q.ok)

(* The flag is given back, whatever fails on the way, unless an SMTP       *)
(* conversation never returns: no request is answered 409 for ever.        *)
RunEnds ==
  (\A r \in Requests : []<>~InSmtp(r)) => (applyRunning ~> ~applyRunning)

(* An entry left behind by a manual application that succeeded (the run    *)
(* does not dequeue) is eventually removed by the worker.                  *)
StaleEntriesAreDrained ==
  \A j \in Jobs : (j \in applied /\ Queued(j)) ~> ~Queued(j)
=============================================================================
