------------------------------ MODULE PageWalk ------------------------------
(***************************************************************************)
(* How a job board is read: from page to page along its links, and within  *)
(* the deadline of the source's task.  Secret Tel Aviv reads each page     *)
(* over HTTP and looks at its jobs before the next; Telfed reads all pages *)
(* in the browser, as HTML or else as a list of anchors, and then each job *)
(* in a task of the worker pool.  One step is one page or one job that is  *)
(* read or not, one loop that submits tasks, or one wait.                  *)
(*                                                                         *)
(* The pool is the one this walk's own task runs on, and it is shared with *)
(* all other sources: Submit may block on it for any time and looks at no  *)
(* deadline (TaskGroups).                                                  *)
(***************************************************************************)
EXTENDS Naturals, FiniteSets

CONSTANTS
  Pages, NoPage,
  Sites,    (* what a site may be: the pages that each of its pages links  *)
            (* to as a following one                                       *)
  Items,    (* jobs                                                        *)
  ListOf,   (* the jobs each page lists                                    *)
  Known,    (* jobs the store has                                          *)
  Unfit     (* jobs whose own page says that they are inactive, or that    *)
            (* has no date                                                 *)

ASSUME PageWalkAssumption ==
  /\ NoPage \notin Pages
  /\ Sites \subseteq [Pages -> SUBSET Pages]
  /\ ListOf \in [Pages -> SUBSET Items]
  /\ \A p \in Pages : IsFiniteSet(ListOf[p])
  /\ Known \subseteq Items /\ Unfit \subseteq Items

VARIABLES
  board, site,
  walk,     (* the locals of GetJobs                                       *)
  result,   (* what FindJobs has returned                                  *)
  cut,      (* the deadline of the task has passed, or the scan is stopped *)
  opened,   (* history: how often each page was opened, up to 2            *)
  listed,   (* history: jobs that were found on a page                     *)
  missed    (* history: jobs whose own page could not be read              *)

walkVars == <<board, site, walk, result, cut, opened, listed, missed>>

Next1(p) == IF site[p] = {} THEN {NoPage} ELSE site[p]

WalkInit ==
  /\ board \in {"sta", "telfed"}
  /\ site \in Sites
  /\ \E start \in Pages \union {NoPage} :
       walk = [pc |-> "loop", page |-> start, next |-> NoPage, todo |-> {},
               found |-> {}, all |-> {}]
  /\ result = [jobs |-> {}, failed |-> FALSE]
  /\ cut = FALSE
  /\ opened = [p \in Pages |-> 0]
  /\ listed = {} /\ missed = {}

At(b, pc) == board = b /\ walk.pc = pc

Return(jobs) ==
  /\ walk' = [walk EXCEPT !.pc = "done"]
  /\ result' = [result EXCEPT !.jobs = jobs]

(* GetJobs may return jobs beside its error; FindJobs drops them.          *)
ReturnError ==
  /\ walk' = [walk EXCEPT !.pc = "done"]
  /\ result' = [result EXCEPT !.failed = TRUE]

Finds(jobs) == listed' = listed \union jobs

-----------------------------------------------------------------------------
(* The walk.                                                               *)

(* Only Telfed remembers the pages it has seen.                            *)
Open ==
  /\ walk.pc = "loop" /\ walk.page # NoPage
  /\ board = "telfed" => opened[walk.page] = 0
  /\ walk' = [walk EXCEPT !.pc = "fetch", !.found = {}]
  /\ opened' = [opened EXCEPT ![walk.page] = IF @ < 2 THEN @ + 1 ELSE @]
  /\ UNCHANGED <<board, site, result, cut, listed, missed>>

(* Telfed has details to read if it has found any job.                     *)
LeaveLoop ==
  \/ (board = "sta" \/ walk.all = {}) /\ Return(walk.all)
  \/ /\ board = "telfed" /\ walk.all # {}
     /\ walk' = [walk EXCEPT !.pc = "submitDetails", !.todo = walk.all, !.found = {}]
     /\ UNCHANGED result

EndOfPages ==
  /\ walk.pc = "loop"
  /\ \/ walk.page = NoPage
     \/ board = "telfed" /\ walk.page \in {p \in Pages : opened[p] > 0}
  /\ LeaveLoop
  /\ UNCHANGED <<board, site, cut, opened, listed, missed>>

(* The wait between two pages.                                             *)
GoOn ==
  /\ walk.pc = "pause" /\ ~cut
  /\ walk' = [walk EXCEPT !.pc = "loop", !.page = walk.next]
  /\ UNCHANGED <<board, site, result, cut, opened, listed, missed>>

PauseIsCut ==
  /\ walk.pc \in {"pause", "itemPause"} /\ cut
  /\ ReturnError
  /\ UNCHANGED <<board, site, cut, opened, listed, missed>>

-----------------------------------------------------------------------------
(* Secret Tel Aviv.                                                        *)

FetchPage ==
  /\ At("sta", "fetch") /\ ~cut
  /\ walk' = [walk EXCEPT !.pc = "items", !.todo = ListOf[walk.page]]
  /\ Finds(ListOf[walk.page])
  /\ UNCHANGED <<board, site, result, cut, opened, missed>>

(* Mutant of FetchLimited: what was collected is lost.                     *)
FetchLimitedAlways ==
  /\ At("sta", "fetch") /\ ~cut
  /\ ReturnError
  /\ UNCHANGED <<board, site, cut, opened, listed, missed>>

(* 429 is an error on the first page only.                                 *)
FetchLimited ==
  /\ At("sta", "fetch") /\ ~cut
  /\ IF walk.all # {} THEN Return(walk.all) ELSE ReturnError
  /\ UNCHANGED <<board, site, cut, opened, listed, missed>>

(* Mutant of FetchFails: the page is tried again.                          *)
FetchFailsAgain ==
  /\ At("sta", "fetch")
  /\ UNCHANGED walkVars

FetchFails ==
  /\ At("sta", "fetch")
  /\ LeaveLoop
  /\ UNCHANGED <<board, site, cut, opened, listed, missed>>

(* Mutant of SkipItem: a job whose own page cannot be read is skipped, too.*)
SkipItemUnread(i) ==
  /\ At("sta", "items") /\ i \in walk.todo
  /\ walk' = [walk EXCEPT !.todo = @ \ {i}]
  /\ UNCHANGED <<board, site, result, cut, opened, listed, missed>>

SkipItem(i) ==
  /\ At("sta", "items") /\ i \in walk.todo \intersect (Known \union Unfit)
  /\ ~cut
  /\ walk' = [walk EXCEPT !.todo = @ \ {i}]
  /\ UNCHANGED <<board, site, result, cut, opened, listed, missed>>

(* The job is kept whether its own page was read or not; a look-up that    *)
(* fails counts as not found.                                              *)
KeepItem(i) ==
  /\ At("sta", "items") /\ i \in walk.todo
  /\ walk' = [walk EXCEPT !.pc = "itemPause", !.todo = @ \ {i},
                          !.found = @ \union {i}]
  /\ UNCHANGED <<board, site, result, cut, opened, listed, missed>>

NextItem ==
  /\ walk.pc = "itemPause" /\ ~cut
  /\ walk' = [walk EXCEPT !.pc = "items"]
  /\ UNCHANGED <<board, site, result, cut, opened, listed, missed>>

EndOfItems ==
  /\ At("sta", "items") /\ walk.todo = {}
  /\ \E p \in Next1(walk.page) :
       walk' = [walk EXCEPT !.pc = "pause", !.next = p,
                            !.all = @ \union walk.found]
  /\ UNCHANGED <<board, site, result, cut, opened, listed, missed>>

-----------------------------------------------------------------------------
(* Telfed.                                                                 *)

(* Neither the grid of posts nor a link to a following page need be there. *)
FetchHTML ==
  /\ At("telfed", "fetch") /\ ~cut
  /\ \E jobs \in {{}, ListOf[walk.page]}, p \in Next1(walk.page) \union {NoPage} :
       /\ walk' = [walk EXCEPT !.found = jobs, !.next = p,
                     !.pc = IF jobs = {} THEN "anchors" ELSE "append"]
       /\ Finds(jobs)
  /\ UNCHANGED <<board, site, result, cut, opened, missed>>

FetchHTMLFails ==
  /\ At("telfed", "fetch")
  /\ walk' = [walk EXCEPT !.pc = "anchors", !.next = NoPage]
  /\ UNCHANGED <<board, site, result, cut, opened, listed, missed>>

FetchAnchors ==
  /\ At("telfed", "anchors")
  /\ walk' = [walk EXCEPT !.pc = "submitAnchors"]
  /\ UNCHANGED <<board, site, result, cut, opened, listed, missed>>

(* The loop that submits a task for every anchor, once it has come to its  *)
(* end: each Submit may block.                                             *)
SubmitAnchors ==
  /\ At("telfed", "submitAnchors")
  /\ walk' = [walk EXCEPT !.pc = "waitAnchors"]
  /\ UNCHANGED <<board, site, result, cut, opened, listed, missed>>

(* Once the deadline has passed some tasks may not have run.  Any of those *)
(* that see a link to a following page may have been the first.            *)
WaitForAnchors ==
  /\ At("telfed", "waitAnchors")
  /\ \E jobs \in SUBSET ListOf[walk.page], p \in Next1(walk.page) \union {NoPage} :
       /\ ~cut => jobs = ListOf[walk.page] /\ p \in Next1(walk.page)
       /\ walk' = [walk EXCEPT !.found = jobs, !.pc = "append",
                     !.next = IF @ = NoPage THEN p ELSE @]
       /\ Finds(jobs)
  /\ UNCHANGED <<board, site, result, cut, opened, missed>>

NoAnchors ==
  /\ At("telfed", "anchors")
  /\ LeaveLoop
  /\ UNCHANGED <<board, site, cut, opened, listed, missed>>

(* What has been found so far is returned as it is, without its details.   *)
FetchAnchorsFails ==
  /\ At("telfed", "anchors")
  /\ IF walk.all # {} THEN Return(walk.all) ELSE ReturnError
  /\ UNCHANGED <<board, site, cut, opened, listed, missed>>

(* Without a link to a following page the anchors are fetched for one, and *)
(* an error is as good as none.                                            *)
AppendPage ==
  /\ At("telfed", "append")
  /\ \E p \in IF walk.next # NoPage THEN {walk.next}
              ELSE (site[walk.page] \ {walk.page}) \union {NoPage} :
       walk' = [walk EXCEPT !.pc = "pause", !.next = p,
                            !.all = @ \union walk.found]
  /\ UNCHANGED <<board, site, result, cut, opened, listed, missed>>

(* The loop that submits a task for every job, as for the anchors; tasks   *)
(* run meanwhile.                                                          *)
SubmitDetails ==
  /\ At("telfed", "submitDetails")
  /\ walk' = [walk EXCEPT !.pc = "details"]
  /\ UNCHANGED <<board, site, result, cut, opened, listed, missed>>

TaskRuns(i) == board = "telfed" /\ walk.pc \in {"submitDetails", "details"} /\ i \in walk.todo

(* One task per job.  A known one is left out, and so is one that has no   *)
(* date.                                                                   *)
LeaveOut(i) ==
  /\ TaskRuns(i) /\ i \in Known \union Unfit
  /\ ~cut
  /\ walk' = [walk EXCEPT !.todo = @ \ {i}]
  /\ UNCHANGED <<board, site, result, cut, opened, listed, missed>>

ReadDetails(i) ==
  /\ TaskRuns(i) /\ i \notin Unfit
  /\ walk' = [walk EXCEPT !.todo = @ \ {i}, !.found = @ \union {i}]
  /\ UNCHANGED <<board, site, result, cut, opened, listed, missed>>

(* A job whose page cannot be read is left out, too.                       *)
ReadDetailsFails(i) ==
  /\ TaskRuns(i)
  /\ walk' = [walk EXCEPT !.todo = @ \ {i}]
  /\ missed' = missed \union {i}
  /\ UNCHANGED <<board, site, result, cut, opened, listed>>

(* Wait returns when the tasks are through or the deadline has passed; the *)
(* row of a task that is not through has no URL.                           *)
DetailsEnd ==
  /\ At("telfed", "details")
  /\ walk.todo = {} \/ cut
  /\ Return(walk.found)
  /\ UNCHANGED <<board, site, cut, opened, listed, missed>>

-----------------------------------------------------------------------------

Deadline ==
  /\ ~cut /\ walk.pc # "done"
  /\ cut' = TRUE
  /\ UNCHANGED <<board, site, walk, result, opened, listed, missed>>

(* What the goroutine of the walk does by itself.                          *)
OwnStep ==
  \/ Open \/ EndOfPages \/ GoOn \/ PauseIsCut
  \/ FetchPage \/ FetchLimited \/ FetchFails \/ NextItem \/ EndOfItems
  \/ FetchHTML \/ FetchHTMLFails \/ FetchAnchors \/ WaitForAnchors \/ NoAnchors
  \/ FetchAnchorsFails \/ AppendPage \/ DetailsEnd
  \/ \E i \in Items : SkipItem(i) \/ KeepItem(i)

(* What the pool has to take part in.                                      *)
PoolStep ==
  \/ SubmitAnchors \/ SubmitDetails
  \/ \E i \in Items : LeaveOut(i) \/ ReadDetails(i) \/ ReadDetailsFails(i)

WalkNext == OwnStep \/ PoolStep \/ Deadline

WalkSpec == WalkInit /\ [][WalkNext]_walkVars

(* A page or a job may never be read before the deadline comes, but after  *)
(* it every request, look-up and wait of the walk's own returns.  Nothing  *)
(* is assumed of the pool: a Submit may block for ever.                    *)
WalkFairness == WF_walkVars(Deadline) /\ WF_walkVars(cut /\ OwnStep)

-----------------------------------------------------------------------------
(* Properties.                                                             *)

(* The types, and a failing FindJobs returns no listing.                   *)
WalkTypeOK ==
  /\ walk \in [pc : {"loop", "fetch", "pause", "items", "itemPause",
                     "anchors", "submitAnchors", "waitAnchors", "append",
                     "submitDetails", "details", "done"},
               page : Pages \union {NoPage}, next : Pages \union {NoPage},
               todo : SUBSET Items, found : SUBSET Items, all : SUBSET Items]
  /\ result \in [jobs : SUBSET Items, failed : BOOLEAN]
  /\ result.failed => result.jobs = {}
  /\ opened \in [Pages -> 0 .. 2] /\ cut \in BOOLEAN
  /\ listed \subseteq Items /\ missed \subseteq Items

(* telfed.go:64: "Prevent infinite loops".  However the pages of a site    *)
(* link to each other, Telfed opens none twice.                            *)
OpensNoPageTwice == board = "telfed" => \A p \in Pages : opened[p] < 2

(* "Best effort: return what we have so far" (telfed.go:83), "rather than  *)
(* failing completely" (secret_telaviv.go:114): only the deadline, or a    *)
(* stop of the scan, can lose what earlier pages have given.               *)
ErrorsLoseNothing == result.failed => walk.all = {} \/ cut

(* A walk that ends well returns every job that a page listed but those    *)
(* that are known, inactive or without a date, and, at Telfed only, those  *)
(* whose page could not be read or for which the deadline came too early.  *)
ListedJobsAreReturned ==
  walk.pc = "done" /\ ~result.failed =>
    \/ board = "telfed" /\ cut
    \/ listed \ (Known \union Unfit \union missed) \subseteq result.jobs

InSubmit == walk.pc \in {"submitAnchors", "submitDetails"}

(* A walk ends with the deadline of its task at the latest, also one that  *)
(* goes in circles, unless it hangs for ever in a Submit to the shared     *)
(* pool: nothing else that it does outlives the deadline.  Secret Tel Aviv *)
(* submits nothing.  When such a Submit returns is said by TaskGroups.     *)
WalkEnds ==
  \/ <>(walk.pc = "done")
  \/ <>[](board = "telfed" /\ cut /\ InSubmit)
=============================================================================
