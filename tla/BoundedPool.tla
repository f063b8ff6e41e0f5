----------------------------- MODULE BoundedPool -----------------------------
(***************************************************************************)
(* BoundedWorkerPool of utils/backpressure.go: Submit and SubmitWithTimeout *)
(* look at the closed flag under the mutex and send to the jobs channel     *)
(* after they have released it; Close sets the flag, closes the channel,    *)
(* waits for the workers and ends the context.  Every caller submits one    *)
(* job, named after the caller.  A send on the closed channel is a panic    *)
(* of the caller.                                                           *)
(***************************************************************************)
EXTENDS Naturals, Sequences, FiniteSets

CONSTANTS Submitters,   \* callers of Submit
          Waiters,      \* callers of SubmitWithTimeout
          PoolWorkers,  \* the worker goroutines
          PoolQueue,    \* capacity of the jobs channel
          PoolClosers,  \* callers of Close
          NoJob

Callers == Submitters \union Waiters

ASSUME PoolAssumption ==
  /\ PoolWorkers # {} /\ IsFiniteSet(PoolWorkers)
  /\ PoolQueue \in Nat \ {0}                       \* New replaces others
  /\ NoJob \notin Callers \union {"exited"} /\ "exited" \notin Callers

VARIABLES caller,     \* where each call is, and at its end what it returned
          jobs,       \* the jobs channel
          working,    \* the job a worker runs, NoJob, or "exited"
          closer,     \* where each call of Close is
          closed,     \* the flag under the mutex
          jobsClosed, \* close(p.jobs) has happened
          poolEnded,  \* p.ctx is done
          finished,   \* jobs that were run to their end, panicking ones too
          stats       \* the three counters

poolVars == <<caller, jobs, working, closer, closed, jobsClosed, poolEnded,
              finished, stats>>

PoolTypeOK ==
  /\ caller \in [Callers -> {"out", "sending", "turned", "accepted", "closed", "rejected", "panicked"}]
  /\ jobs \in Seq(Callers)
  /\ working \in [PoolWorkers -> Callers \union {NoJob, "exited"}]
  /\ closer \in [PoolClosers -> {"out", "closing", "waiting", "returned", "wasClosed"}]
  /\ closed \in BOOLEAN /\ jobsClosed \in BOOLEAN /\ poolEnded \in BOOLEAN
  /\ finished \subseteq Callers
  /\ stats \in [submitted : Nat, completed : Nat, rejected : Nat]

PoolInit ==
  /\ caller = [c \in Callers |-> "out"]
  /\ jobs = <<>>
  /\ working = [w \in PoolWorkers |-> NoJob]
  /\ closer = [k \in PoolClosers |-> "out"]
  /\ closed = FALSE /\ jobsClosed = FALSE /\ poolEnded = FALSE
  /\ finished = {}
  /\ stats = [submitted |-> 0, completed |-> 0, rejected |-> 0]

------------------------------------------------------------------------------
(* Submitting *)

\* Counts before it looks at the flag (mutant).
EnterSubmitCounting(c) ==
  /\ caller[c] = "out"
  /\ stats' = [stats EXCEPT !.submitted = @ + 1]
  /\ caller' = [caller EXCEPT ![c] = IF closed THEN "closed" ELSE "sending"]
  /\ UNCHANGED <<jobs, working, closer, closed, jobsClosed, poolEnded, finished>>

\* The section under the mutex: refuse, or count and go on to the send.
EnterSubmit(c) ==
  /\ caller[c] = "out"
  /\ \/ /\ closed
        /\ caller' = [caller EXCEPT ![c] = "closed"]
        /\ UNCHANGED stats
     \/ /\ ~closed
        /\ caller' = [caller EXCEPT ![c] = "sending"]
        /\ stats' = [stats EXCEPT !.submitted = @ + 1]
  /\ UNCHANGED <<jobs, working, closer, closed, jobsClosed, poolEnded, finished>>

SendJob(c) ==
  /\ caller[c] = "sending"
  /\ ~jobsClosed /\ Len(jobs) < PoolQueue
  /\ jobs' = Append(jobs, c)
  /\ caller' = [caller EXCEPT ![c] = "accepted"]
  /\ UNCHANGED <<working, closer, closed, jobsClosed, poolEnded, finished, stats>>

\* The channel is closed: the select may take the send, which panics.
SendOnClosed(c) ==
  /\ caller[c] = "sending" /\ jobsClosed
  /\ caller' = [caller EXCEPT ![c] = "panicked"]
  /\ UNCHANGED <<jobs, working, closer, closed, jobsClosed, poolEnded, finished, stats>>

\* The select takes another case: the context is done, a Submit finds the
\* channel full, the time of a SubmitWithTimeout is up.
TurnAway(c) ==
  /\ caller[c] = "sending"
  /\ \/ poolEnded
     \/ c \in Submitters /\ ~jobsClosed /\ Len(jobs) = PoolQueue
     \/ c \in Waiters
  /\ caller' = [caller EXCEPT ![c] = "turned"]
  /\ UNCHANGED <<jobs, working, closer, closed, jobsClosed, poolEnded, finished, stats>>

CountRejected(c) ==
  /\ caller[c] = "turned"
  /\ caller' = [caller EXCEPT ![c] = "rejected"]
  /\ stats' = [stats EXCEPT !.rejected = @ + 1]
  /\ UNCHANGED <<jobs, working, closer, closed, jobsClosed, poolEnded, finished>>

------------------------------------------------------------------------------
(* Workers.  The semaphore has a place for every worker and the context is  *)
(* not done while one lives, so neither holds up a worker with a job.       *)

TakeJob(w) ==
  /\ working[w] = NoJob /\ jobs # <<>>
  /\ working' = [working EXCEPT ![w] = Head(jobs)]
  /\ jobs' = Tail(jobs)
  /\ UNCHANGED <<caller, closer, closed, jobsClosed, poolEnded, finished, stats>>

\* The job returns or panics, the deferred functions recover and count it.
FinishJob(w) ==
  /\ working[w] \in Callers
  /\ working' = [working EXCEPT ![w] = NoJob]
  /\ finished' = finished \union {working[w]}
  /\ stats' = [stats EXCEPT !.completed = @ + 1]
  /\ UNCHANGED <<caller, jobs, closer, closed, jobsClosed, poolEnded>>

\* A worker that leaves a closed channel with jobs in it (mutant).
ExitWorkerWithJobsLeft(w) ==
  /\ working[w] = NoJob /\ jobsClosed
  /\ working' = [working EXCEPT ![w] = "exited"]
  /\ UNCHANGED <<caller, jobs, closer, closed, jobsClosed, poolEnded, finished, stats>>

ExitWorker(w) ==
  /\ working[w] = NoJob /\ jobsClosed /\ jobs = <<>>
  /\ working' = [working EXCEPT ![w] = "exited"]
  /\ UNCHANGED <<caller, jobs, closer, closed, jobsClosed, poolEnded, finished, stats>>

------------------------------------------------------------------------------
(* Closing *)

BeginClose(k) ==
  /\ closer[k] = "out"
  /\ closed' = TRUE
  /\ closer' = [closer EXCEPT ![k] = IF closed THEN "wasClosed" ELSE "closing"]
  /\ UNCHANGED <<caller, jobs, working, jobsClosed, poolEnded, finished, stats>>

CloseJobs(k) ==
  /\ closer[k] = "closing"
  /\ jobsClosed' = TRUE
  /\ closer' = [closer EXCEPT ![k] = "waiting"]
  /\ UNCHANGED <<caller, jobs, working, closed, poolEnded, finished, stats>>

EndClose(k) ==
  /\ closer[k] = "waiting"
  /\ \A w \in PoolWorkers : working[w] = "exited"
  /\ poolEnded' = TRUE
  /\ closer' = [closer EXCEPT ![k] = "returned"]
  /\ UNCHANGED <<caller, jobs, working, closed, jobsClosed, finished, stats>>

------------------------------------------------------------------------------

PoolNext ==
  \/ \E c \in Callers : \/ EnterSubmit(c) \/ SendJob(c) \/ SendOnClosed(c)
                        \/ TurnAway(c) \/ CountRejected(c)
  \/ \E w \in PoolWorkers : TakeJob(w) \/ FinishJob(w) \/ ExitWorker(w)
  \/ \E k \in PoolClosers : BeginClose(k) \/ CloseJobs(k) \/ EndClose(k)

PoolSpec == PoolInit /\ [][PoolNext]_poolVars

------------------------------------------------------------------------------

Running == {working[w] : w \in PoolWorkers} \intersect Callers

\* "Close shuts down the pool gracefully, waiting for all queued jobs to
\* complete": when the call that closed the pool has returned, every job a
\* caller was told was accepted has been run to its end, and no caller finds
\* itself with a job accepted later (backpressure.go:168).
CloseIsGraceful ==
  (\E k \in PoolClosers : closer[k] = "returned")
    => \A c \in Callers : caller[c] = "accepted" => c \in finished

\* The counters of GetStats tell where every submitted job is: it was
\* completed, rejected, waits, is run, or its caller is still between the
\* mutex and the channel or died there.
CountersAddUp ==
  stats.submitted = stats.completed + stats.rejected + Len(jobs)
                     + Cardinality({w \in PoolWorkers : working[w] \in Callers})
                     + Cardinality({c \in Callers : caller[c] \in {"sending", "turned", "panicked"}})
==============================================================================
