----------------------------- MODULE BrowserPool -----------------------------
(***************************************************************************)
(* The pool of browser tabs: FetchHTML and FetchAnchors hand a job to a    *)
(* fixed set of workers over a bounded channel and wait for its page, its  *)
(* error or the end of their own context; Close shuts the pool down.       *)
(*                                                                         *)
(* A job runs inside one worker, and what it gathers (the iframes of       *)
(* FetchAnchors included) is seen by nobody before its answer, so a page   *)
(* is one step, which may never come: a job has no deadline of its own.    *)
(***************************************************************************)
EXTENDS Naturals, Sequences, FiniteSets

CONSTANTS
  Fetches,  (* the calls of FetchHTML and FetchAnchors                     *)
  Tabs,     (* the workers, each with a browser context of its own         *)
  Idle,     (* a worker without a job                                      *)
  Queue     (* capacity of the jobs channel                                *)

ASSUME BrowserPoolAssumption ==
  /\ Idle \notin Fetches
  /\ IsFiniteSet(Tabs) /\ Tabs # {}
  /\ Queue \in Nat \ {0}

VARIABLES
  call,       (* per call: where it is, or how it ended                    *)
  ctxDone,    (* the callers' contexts that are over                       *)
  jobs,       (* the channel                                               *)
  job,        (* per worker: the job it runs                               *)
  result,     (* per worker: how its page ended, before it is sent         *)
  answer,     (* per call: done closed ("page") or errCh holding ("error") *)
  closing,    (* Close: "open", "cancel", "wait" or "closed"               *)
  cancelled,  (* the workers whose context Close has cancelled             *)
  exited      (* the workers that have left their loop                     *)

vars == <<call, ctxDone, jobs, job, result, answer, closing, cancelled, exited>>

-----------------------------------------------------------------------------
(* The callers.                                                            *)

(* Submit never blocks: a full channel is an error, a closed one panics.   *)
OfferJob(f) ==
  CASE closing # "open"   -> call' = [call EXCEPT ![f] = "panic"] /\ UNCHANGED jobs
    [] closing = "open" /\ Len(jobs) < Queue ->
         call' = [call EXCEPT ![f] = "wait"] /\ jobs' = Append(jobs, f)
    [] OTHER              -> call' = [call EXCEPT ![f] = "refused"] /\ UNCHANGED jobs

Fetch(f) ==
  /\ call[f] = "idle"
  /\ OfferJob(f)
  /\ UNCHANGED <<ctxDone, job, result, answer, closing, cancelled, exited>>

(* The deadline or the cancellation of a caller.                           *)
ContextEnds(f) ==
  /\ call[f] \in {"idle", "wait"} /\ f \notin ctxDone
  /\ ctxDone' = ctxDone \union {f}
  /\ UNCHANGED <<call, jobs, job, result, answer, closing, cancelled, exited>>

(* The select: any case that is ready.                                     *)
Return(f) ==
  /\ call[f] = "wait"
  /\ \/ answer[f] = "page"  /\ call' = [call EXCEPT ![f] = "page"]
     \/ answer[f] = "error" /\ call' = [call EXCEPT ![f] = "error"]
     \/ f \in ctxDone       /\ call' = [call EXCEPT ![f] = "timeout"]
  /\ UNCHANGED <<ctxDone, jobs, job, result, answer, closing, cancelled, exited>>

-----------------------------------------------------------------------------
(* The workers.                                                            *)

(* Mutant of Take: the job is looked at and stays in the channel.          *)
TakeCopy(w) ==
  /\ w \notin exited /\ job[w] = Idle
  /\ jobs # <<>>
  /\ job' = [job EXCEPT ![w] = Head(jobs)]
  /\ UNCHANGED <<call, ctxDone, jobs, result, answer, closing, cancelled, exited>>

(* The range loop receives what is left in a closed channel, too.          *)
Take(w) ==
  /\ w \notin exited /\ job[w] = Idle
  /\ jobs # <<>>
  /\ job' = [job EXCEPT ![w] = Head(jobs)]
  /\ jobs' = Tail(jobs)
  /\ UNCHANGED <<call, ctxDone, result, answer, closing, cancelled, exited>>

PageLoads(w) ==
  /\ job[w] # Idle /\ result[w] = "none"
  /\ w \notin cancelled
  /\ result' = [result EXCEPT ![w] = "page"]
  /\ UNCHANGED <<call, ctxDone, jobs, job, answer, closing, cancelled, exited>>

PageFails(w) ==
  /\ job[w] # Idle /\ result[w] = "none"
  /\ w \notin cancelled
  /\ result' = [result EXCEPT ![w] = "error"]
  /\ UNCHANGED <<call, ctxDone, jobs, job, answer, closing, cancelled, exited>>

(* chromedp.Run returns at once on a cancelled context.  FetchAnchors skips *)
(* a frame it cannot read, so a page that is cut in one answers with what   *)
(* it has.                                                                  *)
PageIsCut(w) ==
  /\ job[w] # Idle /\ result[w] = "none"
  /\ w \in cancelled
  /\ \E r \in {"error", "page"} : result' = [result EXCEPT ![w] = r]
  /\ UNCHANGED <<call, ctxDone, jobs, job, answer, closing, cancelled, exited>>

(* Mutant of Answer: errCh has no buffer, so the worker waits for a caller *)
(* that may have left.                                                     *)
AnswerUnbuffered(w) ==
  /\ result[w] # "none"
  /\ result[w] = "error" => call[job[w]] = "wait"
  /\ answer' = [answer EXCEPT ![job[w]] = result[w]]
  /\ job' = [job EXCEPT ![w] = Idle]
  /\ result' = [result EXCEPT ![w] = "none"]
  /\ UNCHANGED <<call, ctxDone, jobs, closing, cancelled, exited>>

(* close(done), or the send on errCh, whose buffer of one is empty.        *)
Answer(w) ==
  /\ result[w] # "none"
  /\ answer' = [answer EXCEPT ![job[w]] = result[w]]
  /\ job' = [job EXCEPT ![w] = Idle]
  /\ result' = [result EXCEPT ![w] = "none"]
  /\ UNCHANGED <<call, ctxDone, jobs, closing, cancelled, exited>>

(* Mutant of Exit: a worker leaves as soon as the pool closes.             *)
ExitUndrained(w) ==
  /\ w \notin exited /\ job[w] = Idle
  /\ closing # "open"
  /\ exited' = exited \union {w}
  /\ UNCHANGED <<call, ctxDone, jobs, job, result, answer, closing, cancelled>>

Exit(w) ==
  /\ w \notin exited /\ job[w] = Idle
  /\ closing # "open" /\ jobs = <<>>
  /\ exited' = exited \union {w}
  /\ UNCHANGED <<call, ctxDone, jobs, job, result, answer, closing, cancelled>>

-----------------------------------------------------------------------------
(* Close.                                                                  *)

CloseJobs ==
  /\ closing = "open"
  /\ closing' = "cancel"
  /\ UNCHANGED <<call, ctxDone, jobs, job, result, answer, cancelled, exited>>

(* Mutant of CancelTab: wg.Wait after the first context.                   *)
CancelOneTab(w) ==
  /\ closing = "cancel" /\ w \notin cancelled
  /\ cancelled' = cancelled \union {w}
  /\ closing' = "wait"
  /\ UNCHANGED <<call, ctxDone, jobs, job, result, answer, exited>>

CancelTab(w) ==
  /\ closing = "cancel" /\ w \notin cancelled
  /\ cancelled' = cancelled \union {w}
  /\ closing' = IF cancelled' = Tabs THEN "wait" ELSE "cancel"
  /\ UNCHANGED <<call, ctxDone, jobs, job, result, answer, exited>>

WaitGroup ==
  /\ closing = "wait" /\ exited = Tabs
  /\ closing' = "closed"
  /\ UNCHANGED <<call, ctxDone, jobs, job, result, answer, cancelled, exited>>

-----------------------------------------------------------------------------

Caller(f) == Fetch(f) \/ ContextEnds(f) \/ Return(f)
Tab(w) == Take(w) \/ PageIsCut(w) \/ Answer(w) \/ Exit(w)
Page(w) == PageLoads(w) \/ PageFails(w)
Close == CloseJobs \/ (\E w \in Tabs : CancelTab(w)) \/ WaitGroup

Init ==
  /\ call = [f \in Fetches |-> "idle"]
  /\ ctxDone = {}
  /\ jobs = <<>>
  /\ job = [w \in Tabs |-> Idle]
  /\ result = [w \in Tabs |-> "none"]
  /\ answer = [f \in Fetches |-> "none"]
  /\ closing = "open"
  /\ cancelled = {} /\ exited = {}

Next ==
  \/ \E f \in Fetches : Caller(f)
  \/ \E w \in Tabs : Tab(w) \/ Page(w)
  \/ Close

Spec == Init /\ [][Next]_vars

(* Goroutines get their turn, and every caller comes with a context that   *)
(* ends.  Nothing is assumed of a page, nor that the pool is ever closed.  *)
Fairness ==
  /\ \A f \in Fetches : WF_vars(Return(f)) /\ WF_vars(ContextEnds(f))
  /\ \A w \in Tabs : WF_vars(Tab(w))
  /\ WF_vars((\E w \in Tabs : CancelTab(w)) \/ WaitGroup)

FairSpec == Spec /\ Fairness

-----------------------------------------------------------------------------

TypeOK ==
  /\ call \in [Fetches -> {"idle", "wait", "page", "error", "timeout", "refused", "panic"}]
  /\ ctxDone \subseteq Fetches
  /\ jobs \in Seq(Fetches) /\ Len(jobs) <= Queue
  /\ job \in [Tabs -> Fetches \union {Idle}]
  /\ result \in [Tabs -> {"none", "page", "error"}]
  /\ \A w \in Tabs : result[w] # "none" => job[w] # Idle
  /\ answer \in [Fetches -> {"none", "page", "error"}]
  /\ closing \in {"open", "cancel", "wait", "closed"}
  /\ cancelled \subseteq Tabs /\ exited \subseteq Tabs

(* Every job the channel accepted is in one place: in the channel, in one  *)
(* worker, or answered; a caller that is still waiting can count on it,    *)
(* and no page is navigated to twice.                                      *)
EveryJobIsInOnePlace ==
  \A f \in Fetches :
    LET places == Cardinality({i \in DOMAIN jobs : jobs[i] = f})
                    + Cardinality({w \in Tabs : job[w] = f})
                    + (IF answer[f] = "none" THEN 0 ELSE 1)
    IN  places = IF call[f] \in {"idle", "refused", "panic"} THEN 0 ELSE 1

(* A worker never gets stuck on the answer of a page that has ended, not   *)
(* even when the caller has timed out and left: it is back in its loop.    *)
LateAnswersFreeTheTab ==
  \A w \in Tabs : (result[w] # "none") ~> (job[w] = Idle)

(* Close returns only when nothing is left behind: no job in the channel   *)
(* or in a worker, and an answer for every caller that still waits.        *)
NothingIsLeftBehind ==
  closing = "closed" =>
    /\ jobs = <<>> /\ \A w \in Tabs : job[w] = Idle
    /\ \A f \in Fetches : call[f] = "wait" => answer[f] # "none"

(* Close does return, although pages hang that no caller waits for and     *)
(* jobs are left in the channel.                                           *)
CloseReturns ==
  (closing = "cancel") ~> (closing = "closed")
=============================================================================
