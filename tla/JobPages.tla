------------------------------ MODULE JobPages -------------------------------
(***************************************************************************)
(* How the scraper of a company's site reads the pages of its jobs: the    *)
(* links of the careers page are found first, then the page of each is     *)
(* read by a task of its own, a few at a time, and what the tasks find is  *)
(* brought together.  Four scrapers do so in four ways.                    *)
(*                                                                         *)
(*   audiocodes  tasks of a pool of its own, a channel, and a collector    *)
(*               that also listens to the end of the group and the context *)
(*   ai21        an errgroup with a limit, a channel, read until it closes *)
(*   fortyseas   an errgroup behind a semaphore, a slice under a mutex     *)
(*   akeyless    a group of the shared pool, a slice under a mutex; an     *)
(*               error of one task ends the group (ComeetClient.FetchAll)  *)
(*                                                                         *)
(* The pool's group is pond's: its Wait also returns when its context is   *)
(* done, and a task that has not begun by then is skipped.                 *)
(***************************************************************************)
EXTENDS Naturals, FiniteSets

CONSTANTS
  Links,     (* links to jobs that a careers page may have                 *)
  Parallel,  (* pages read at a time                                       *)
  Scrapers   (* the scrapers a behaviour may be about                      *)

ASSUME JobPagesAssumption ==
  /\ IsFiniteSet(Links)
  /\ Parallel \in Nat \ {0}
  /\ Scrapers \subseteq {"audiocodes", "ai21", "fortyseas", "akeyless"}

VARIABLES
  scraper,
  reader,    (* where GetJobs is                                           *)
  page,      (* per link: its task                                         *)
  results,   (* the channel of jobs                                        *)
  closing,   (* "open", "results": the channel is closed, "done": and done *)
  collected, (* the slice of jobs                                          *)
  jobs,      (* what GetJobs returns                                       *)
  groupDone, (* a task has returned an error                               *)
  late       (* the caller's context is done                               *)

pagesVars == <<scraper, reader, page, results, closing, collected, jobs,
               groupDone, late>>

Pooled == scraper \in {"audiocodes", "akeyless"}
ByChannel == scraper \in {"audiocodes", "ai21"}

InFlight == {l \in Links : page[l] \in {"fetching", "read", "pausing"}}
Through == {"none", "over", "failed", "skipped", "lost"}

PagesTypeOK ==
  /\ scraper \in Scrapers
  /\ reader \in {"root", "submit", "collect", "done", "panicked"}
  /\ page \in [Links -> Through \union {"left", "queued", "fetching", "read", "pausing"}]
  /\ results \subseteq Links /\ collected \subseteq Links /\ jobs \subseteq Links
  /\ closing \in {"open", "results", "done"}
  /\ groupDone \in BOOLEAN /\ late \in BOOLEAN

PagesInit ==
  /\ scraper \in Scrapers
  /\ reader = "root"
  /\ page = [l \in Links |-> "none"]
  /\ results = {} /\ closing = "open" /\ collected = {} /\ jobs = {}
  /\ groupDone = FALSE /\ late = FALSE

PageGoes(l, where) == page' = [page EXCEPT ![l] = where]

-----------------------------------------------------------------------------
(* GetJobs up to the wait.                                                 *)

ReadRoot ==
  /\ reader = "root" /\ ~late
  /\ \E found \in SUBSET Links :
       /\ page' = [l \in Links |-> IF l \in found THEN "left" ELSE "none"]
       /\ reader' = IF found = {} THEN "done" ELSE "submit"
  /\ UNCHANGED <<scraper, results, closing, collected, jobs, groupDone, late>>

ReadRootFails ==
  /\ reader = "root"
  /\ reader' = "done"
  /\ UNCHANGED <<scraper, page, results, closing, collected, jobs, groupDone, late>>

(* A pool queues the task; a semaphore and a limit make the loop wait for  *)
(* a place and start it.                                                   *)
SubmitPage(l) ==
  /\ reader = "submit" /\ page[l] = "left"
  /\ \/ Pooled /\ PageGoes(l, "queued")
     \/ ~Pooled /\ Cardinality(InFlight) < Parallel /\ PageGoes(l, "fetching")
  /\ UNCHANGED <<scraper, reader, results, closing, collected, jobs, groupDone, late>>

(* A pool whose context is done may refuse.                                *)
SubmitPagePanics ==
  /\ reader = "submit" /\ scraper = "audiocodes" /\ late
  /\ reader' = "panicked"
  /\ UNCHANGED <<scraper, page, results, closing, collected, jobs, groupDone, late>>

SubmittedPages ==
  /\ reader = "submit" /\ \A l \in Links : page[l] # "left"
  /\ reader' = "collect"
  /\ UNCHANGED <<scraper, page, results, closing, collected, jobs, groupDone, late>>

-----------------------------------------------------------------------------
(* The task of one page.                                                   *)

TakePage(l) ==
  /\ page[l] = "queued"
  /\ Cardinality(InFlight) < Parallel
  /\ PageGoes(l, IF groupDone \/ late THEN "skipped" ELSE "fetching")
  /\ UNCHANGED <<scraper, reader, results, closing, collected, jobs, groupDone, late>>

ReadPage(l) ==
  /\ page[l] = "fetching" /\ ~late
  /\ PageGoes(l, "read")
  /\ UNCHANGED <<scraper, reader, results, closing, collected, jobs, groupDone, late>>

(* Only FetchAll makes it an error of the group.                           *)
ReadPageFails(l) ==
  /\ page[l] = "fetching"
  /\ PageGoes(l, "failed")
  /\ groupDone' = (groupDone \/ scraper = "akeyless")
  /\ UNCHANGED <<scraper, reader, results, closing, collected, jobs, late>>

(* Two of the four are polite and wait before they give up their place.    *)
AfterDelivery == IF scraper \in {"audiocodes", "fortyseas"} THEN "pausing" ELSE "over"

(* The send on a channel that has been closed meanwhile is a panic, which  *)
(* the pool recovers.                                                      *)
Deliver(l) ==
  /\ page[l] = "read"
  /\ \/ /\ ByChannel /\ closing = "open"
        /\ results' = results \union {l}
        /\ PageGoes(l, AfterDelivery)
        /\ UNCHANGED collected
     \/ /\ ByChannel /\ closing # "open"
        /\ PageGoes(l, "lost")
        /\ UNCHANGED <<results, collected>>
     \/ /\ ~ByChannel
        /\ collected' = collected \union {l}
        /\ PageGoes(l, AfterDelivery)
        /\ UNCHANGED results
  /\ UNCHANGED <<scraper, reader, closing, jobs, groupDone, late>>

PauseEnds(l) ==
  /\ page[l] = "pausing"
  /\ PageGoes(l, "over")
  /\ UNCHANGED <<scraper, reader, results, closing, collected, jobs, groupDone, late>>

-----------------------------------------------------------------------------
(* Bringing the jobs together.                                             *)

(* Wait of an errgroup waits for every task.                               *)
WaitReturns ==
  \/ \A l \in Links : page[l] \in Through
  \/ Pooled /\ (groupDone \/ late)

(* Mutant of CloseResults: closed when every task has begun.               *)
CloseResultsEarly ==
  /\ ByChannel /\ reader \in {"collect", "done"} /\ closing = "open"
  /\ \A l \in Links : page[l] # "queued"
  /\ closing' = "results"
  /\ UNCHANGED <<scraper, reader, page, results, collected, jobs, groupDone, late>>

(* A goroutine waits for the group and closes the channel.                 *)
CloseResults ==
  /\ ByChannel /\ reader \in {"collect", "done"} /\ closing = "open"
  /\ WaitReturns
  /\ closing' = "results"
  /\ UNCHANGED <<scraper, reader, page, results, collected, jobs, groupDone, late>>

CloseDone ==
  /\ scraper = "audiocodes" /\ closing = "results"
  /\ closing' = "done"
  /\ UNCHANGED <<scraper, reader, page, results, collected, jobs, groupDone, late>>

Receive(l) ==
  /\ reader = "collect" /\ l \in results
  /\ results' = results \ {l}
  /\ collected' = collected \union {l}
  /\ UNCHANGED <<scraper, reader, page, closing, jobs, groupDone, late>>

(* What GetJobs waits for.  The select of audiocodes may take the end of   *)
(* the group, or of the context, with jobs still in the channel.           *)
Collected ==
  \/ ByChannel /\ closing # "open" /\ results = {}
  \/ scraper = "audiocodes" /\ (closing = "done" \/ late)
  \/ ~ByChannel /\ WaitReturns

ReturnJobs ==
  /\ reader = "collect" /\ Collected
  /\ reader' = "done"
  /\ jobs' = collected
  /\ UNCHANGED <<scraper, page, results, closing, collected, groupDone, late>>

ContextEnds ==
  /\ ~late /\ reader # "done"
  /\ late' = TRUE
  /\ UNCHANGED <<scraper, reader, page, results, closing, collected, jobs, groupDone>>

-----------------------------------------------------------------------------

PagesNext ==
  \/ ReadRoot \/ ReadRootFails
  \/ SubmitPagePanics \/ SubmittedPages
  \/ \E l \in Links : \/ SubmitPage(l) \/ TakePage(l)
                      \/ ReadPage(l) \/ ReadPageFails(l)
                      \/ Deliver(l) \/ PauseEnds(l) \/ Receive(l)
  \/ CloseResults \/ CloseDone \/ ReturnJobs \/ ContextEnds

PagesSpec == PagesInit /\ [][PagesNext]_pagesVars

-----------------------------------------------------------------------------
(* Properties.                                                             *)

Wanted == {l \in Links : page[l] \notin {"none", "failed"}}

(* "Best-effort skip" (audiocodes.go:82), "ignore per-item skips"          *)
(* (fortyseas.go:116), "just skip this job" (ai21.go:110): in time, and    *)
(* whatever order the tasks, the goroutine that closes the channel and the *)
(* collector take, a job is left out only if its own page could not be     *)
(* read.  Two gaps of the code are named: a failed page of akeyless ends   *)
(* the group of all, and audiocodes may leave jobs in the closed channel.  *)
ReadPagesAreReturned ==
  reader = "done" /\ ~late /\ ~groupDone =>
    Wanted \subseteq jobs \union (IF closing = "done" THEN results ELSE {})

(* "ignore error here; callers typically inspect per-item Err"             *)
(* (comeet.go:264): an error belongs to one item, and the others are there *)
(* without it.  In the code the first error ends the group: the tasks not  *)
(* yet begun are skipped, and those under way append to a slice that has   *)
(* been returned.                                                          *)
ErrorsArePerItem ==
  reader = "done" /\ ~late => Wanted \subseteq jobs
=============================================================================
